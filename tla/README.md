# ThingBus in TLA+

ThingBus is a Lua 5.1/LuaJIT runtime for programs that talk to devices: cooperative
threads over an event loop, mailboxes and other event sources, observable values, and on
top of them bridges to USB devices and helper processes, an HTTP server and subprocesses. Below
it lie parts written in C: buffers, codecs, compression, the calls that reach devices, and the
tables that tie Lua objects to C pointers.

There is one OS thread. What makes the Lua part hard is not parallelism but *control that moves by
hand*: a message put by one thread resumes another one, event handlers resume threads, a
deferred function may resume a thread and so start the scheduler inside itself, and the main
script, when it waits, runs the event loop inside its own call. What makes the C part hard is what
it shares: with the kernel, which completes, refuses and removes things when it likes; with other
processes, over pipes that fill; with a stack, a dictionary or an address that is used again.

All line numbers refer to the repository's sources.

## Inventory

| component | code | state | operations | how it interacts |
|---|---|---|---|---|
| scheduler | `lualib/thread.lua` 1-336 | `busy_list`, `callback_list`, `nice_list`, `main_thread_resume_arguments`, coroutine status | `go`, `resume`, `yield`, `kill`, `queuecall`, `Idle.call`, `recv`, `recvone`, `poll` | every other component runs on it |
| event sources | `lualib/thread.lua` 338-608 | list of waiting threads with the position of each, buffers, timers | `Mailbox.put/putback`, `send`, `sleep`, `Timeout`, `Broadcast`, `Publisher`, `agent` | call `resume`; called by `recv` |
| event loop | `lualib/linux/loop.lua` (libev), `lualib/osx/cfloop.lua` | watchers, timers | `read`, `write`, `on_readable`, `on_writeable`, `run_after`, `run` | calls handlers in the main context; suspended callers are threads or main itself |
| observables | `lualib/kvo.lua` | value, version, dirty, observers, seen, waiting; for computed ones the watch list and its colours | read, write, `watch`, `setcomputed`, `recv`, `notify` | `queuecall`, `Idle.call`, `resume` |
| buffers | `common/buffer.c`, `l_buffer.c`, `lualib/bio.lua` | memory, start, end | `write`, `read`, `peekstruct`, `readstruct`, `readuntil`, `rseek`, index | over `loop.read` |
| helper processes | `lualib/extproc.lua`, `raw-usb.lua`, `common/extproc-slave.c` | sockets, `exitbox`, inbox, outbox, status | start, restart, accept, in and out loops | mailboxes and observables on one side, framed messages on the other |
| Sepack | `lualib/sepack.lua` | connection state, channels, waiting requests | enumerate, `xchg`, `write`, connect, disconnect | over the helper process |
| USB devices | `lualib/linux/usb.lua` 359-450, `raw-usb.lua`, `l_usb.c` | table of devices, the agent's messages; in the kernel: configuration, drivers, claims | monitor, enumerate, connect, disconnect, open, configure, claim | events of udev; a thread per `watch` |
| USB transfers | `lualib/linux/usb.lua` 60-230, `platform-linux/l_usb.c` | transfers submitted, callbacks by token, pinned data | submit, reap, disconnect | handlers in the main context |
| HTTP | `lualib/http/*.lua` | connection, request, reply | keep-alive, reply, upgrade, WebSocket loops | a thread per connection |
| subprocesses | `lualib/subproc.lua`, `platform-posix.c` | pid, status, pipes and who holds their ends | `start`, `communicate`, `wait` | threads, `loop.read/write`, blocking pipes |
| start and interrupt | `main.c`, `platform-posix.c` | hook, signal handler, `should_break`, terminal attributes | Ctrl-C, `immediate_stdin`, `tty_noecho`, exit | signals, the event loop's watcher |
| proxies | `common/LM.c`, `luaP.c` | tables of the registry (weak, strong, links) | register, link, push, unregister | called by every C object that calls back |
| codecs | `common/l_binary.c`, `byte.c`, `lualib/binary.lua`, `lbitlib.c`, `l_crc.c`, `l_xtea.c`, `l_unicode.c` | none (the decoder of UTF-8: a state) | unpack, pack, bit fields, shifts, CRC, cipher, UTF-8 | pure |
| compression | `common/l_miniz.c`, `miniz.c` | dictionary, code buffer, output | `write`, `flush`, `finish`, decompress | two objects that know only the bytes |
| devices | `platform-linux/l_i2c.c`, `l_spi.c`, `l_mmap.c`, `common/l_serial.c`, `serial.c` | mapped areas, terminal settings | transactions, put and get, set-up | ioctls |

Every component, with what is left out of it and why, is in `PROJECT.json`; so are the
hazards, each at its line.

What makes each of them correct: no thread is lost, woken twice or woken by something it does not wait for;
no message is lost, duplicated or overtaken; no deferred function is forgotten when
trampolines nest; the loop never waits while something can run; a change of an observable is
heard by every watcher and waiter and a computed value ends up up to date; bytes written in
pieces arrive whole; a request is answered by its own reply or by the disconnect; a transfer
is completed exactly once and the interface it uses stays the process's own; a decoder undoes its
encoder and reads no byte it was not given; an object is found again by its pointer while it lives; a
subprocess's output is returned whole, and its caller returns; an interrupt is heard and the terminal
left as it was.

## Modules

    Scheduler  <-  Thread  <-  ThreadChannel  --implements-->  Channel
                     ^             ^
               ThreadProofs <- ChannelProofs
    Kvo        (its own copy of the trampoline, with notifications)      <-  KvoProofs
    Stream     (loop.read, loop.write, IBuf, framing)                    <-  StreamProofs
    Sepack     (a helper process and the control channel of its device)  <-  SepackProofs
      --implements--> Exchange

    Buffer    --implements--> ByteQueue          Registry  --implements-->  Proxies
      ^ BufferProofs
    Usb, Hotplug  <-  LinuxUsbProofs
    Registry, Process, Subprocess, Devices, Text  <-  RuntimeProofs
    Huffman  <-  Deflate  <-  Inflate  <-  Compression
    Binary, Words, Checks  <-  Codecs            Text, Transactions, Devices
    Usb, Hotplug, Subprocess, Process            each with its part of the kernel

    MCThread, MCKvo, MCStream, MCSepack, MCNative   instances for TLC

`MCNative` instantiates the parts below `Sepack` side by side: its variable `part` says which one a
behaviour is about, and the variables of the others keep their first values. The state space is the
sum of the parts', not their product; the parts share no state in the code either.

### Scheduler: the trampoline (thread.lua 128-244)

`current` is what runs: a thread, `Main` (the main script, an event handler or a deferred
function) or `Tramp` (`handle_resume_result` choosing). A thread that resumes another one
goes on `busy` and yields; in the main context the other one is continued at once.
`handle_resume_result` runs, in this order, what is on `busy_list`, the list of callbacks, and
only then one entry of `nice_list`, and returns when there is nothing left. `busy_list` and
`nice_list` are tables walked with `next`, whose order is undefined: they are sets here and
the choice is free. The callbacks are swapped out and called one by one; one that resumes a
thread enters `handle_resume_result` again, and `frames` is the stack of the lists that are
half done.

### Thread: sources and what threads do (thread.lua 225-421, 482-518)

One action per operation: `Recv` (`recv`, `recvone` and, for an empty set, a poll that finds
nothing), `Put`, `Putback`, `Send`, `Go`, `KillThread`, `Sleep`, `Finish`; what the
trampoline and the loop do: `RunBusy`, `RunNiceThread`, `TimerFires`, `MainContinues`;
`DeferredStep` are the Scheduler's actions. A wakeup performs what the woken thread does
before it does anything visible: it unregisters from all its sources and receives the message
(`WakeReceiver`), or cancels its timer. `Registration` state is the code's: a list
per mailbox (`waiting`) and the position remembered for each thread (`idx`), which
`unregister_thread` uses and never corrects.

Messages of a queue are numbered in the order they are put. `sent` and `got` are history:
the last number put, the last number received.

`Exit` is any path to `os.exit(2)`, or an error that nothing catches.

### Channel, ThreadChannel: the abstract specification

`Channel` says what a queue promises whoever uses it: a FIFO sequence from which each
message is taken once, in order, and whose reader never waits while something is pending.
`ThreadChannel` maps the code's state to it (a mailbox is awaited if its list of waiting
threads is not empty, a thread's own mailbox if it is marked waiting), and the property
`QueuesAreChannels` says that every step of every thread is a step of the channels.

### Kvo: observables (kvo.lua 82-262)

`Change` is `notify`: the version grows unless a notification is pending, and the
notification is queued with `queuecall`, that is, run at once in the main context (with
everything it causes nested inside the write) and deferred in a thread. `StartNotification`,
`CallWatcher`, `WatchersDone`, `WakeWaiter` and `NotificationDone` are its loop; a watcher may
set another observable, `mark` schedules the update of a computed one through `Idle.call`, and
a woken thread runs until nothing is left to run. `Update` and `UpdateDone` are `update` before
and after its `rawset`, which may nest other updates of the same observable.
Observables with `coalescing = false` are those outside `Coalescing`. `informed` and `unheard`
are history: which thread was given the present value, which watcher was not called since the
last change.

### Stream: framed messages over a file (linux/loop.lua 66-126, bio.lua, extproc.lua 86-154, raw-usb.lua 118-169)

`SendSome` is one turn of the loop in `loop.write`: the file takes any part that fits, and the
call waits, goes on or ends depending on the index it is told. The reader is `IBuf` under
`read_message`: it takes what it needs when `Ready` and asks the file for more only when not.
Two parameters select the program's other uses: `Raw`, a descriptor written with
`io.raw_write` instead of a socket, and `InMain`, writes made by event handlers, where
suspending runs the event loop inside the handler.
A length is one byte (messages are shorter than ten bytes); payload bytes are a newline or
another one, which is what the framing tells apart.

### Sepack, Exchange: a device behind a helper process (extproc.lua, raw-usb.lua, sepack.lua 70-294)

The helper is started by ExtProc (`Launch`), connects (`Accept`), finds a device or not (`Plug`,
`NoDevice`), passes packets on (`Reply`, `Data`) and ends with the device (`Unplug`); then
`_start_loop` launches the next one. What it sends is in `wire`, and `_in_loop` reads any part of
it at a time (`ReadBatch`) and handles it message by message (`HandleMessage`): packets go to the
mailbox `inbox`, everything else becomes the value of the observable `status`.
Sepack's loop takes both, in either order (`SepackPacket`, `SepackPoll`, and `Notify` when it waits
and the deferred notification resumes it). A connection starts a thread that enumerates the
channels (`EnumerateControl`, `EnumerateOther`, `EnumerateDone`), and users make requests with
`Xchg`. A request is known by its number; the code knows it only by its place in `reply_chns`,
and `mixed` records that the two ever disagreed.

Not every end is the device's. A handler of raw-usb that has to wait for room lets another one write into its
frame (`Tear`, the subject of `stream_nested`); ExtProc then finds a frame that does not end in a newline
and gives the connection up (`InputError`): it logs, closes and wakes `_start_loop`, but sends no `status(false)`
(extproc.lua:128), so that `on_disconnect` does not run. And a packet whose transfer fails is dropped,
on its way to the device or from it, while the helper goes on (`LoseRequest`, `LoseReply`; raw-usb.lua:156, 127).
Nothing makes up for any of the three. `lost` and `torn` count them, `Faultless` is the time before the first.
A torn frame whose wrong end is a newline by chance, which ExtProc would read on from, is left out; so is
what happens to the helper between the closing of its socket and its own end.

Threads and observables are those of `Thread` and `Kvo` in short: what a thread does until it
waits or resumes another one is a step, and the event loop's steps need `LoopRuns`: every thread
waits and nothing is deferred. `status` has a value, a version seen or not (`changed`) and a
pending notification (`dirty`), so that several changes may be heard as one.

`Exchange` is what the users of the control channel are promised, without helper, messages or lists:
the oldest request is answered, alone, or the device is lost and everyone who waits is
answered at once. Under the mapping a caller's request is the number it waits for in `waiters`,
`last` is `asked`, `present` is the value of the observable `connected`, and `confused` is `mixed`. The property
`RequestsAreExchanges` is the refinement: a step of the helper, of the wire, of a mailbox or of the
enumeration is a stutter, unless it makes or answers a request or is where `connected` changes.
The promise is good until `Break`, the first fault, and after it nothing is promised (`AfterBreak`).

Two channels are enumerated: the control channel, and one like a `uart` that is set up by a
request, again after each reconnection. Writes to the helper do not wait (it reads all the time).

### Buffer, ByteQueue: the memory behind a queue (buffer.c, l_buffer.c)

`ByteQueue` is what Lua is promised: bytes are written at the back and read from the front, a call
gives what was asked for or nothing, and then takes nothing. `Buffer` has the block, the two
indices, and a write's four cases: room behind the data, room after moving them to the front, a
larger block, no memory. `Seek` is `buffer_rseek` with its return to the start of an empty buffer.
The property `IsAQueue` is the refinement, with the bytes between the indices as the queue.

### Binary, Words, Checks, Codecs; Text; Transactions: functions

`Binary` is `unpack` with its formats, `unpackbits`, `packfloat` and `strxor`, and Lua's encoders
(`packbits`, the packets of `sepack.lua`); `Words` is `bit32`, `Checks` the checksums and the
cipher. A state of `Codecs` is one call with its arguments (`sample`), and its properties compare
what the call computes with a definition that does not go through the code's. A byte has `ByteBits`
bits and a word `NBITS`, so that TLC's integers hold the largest numbers and all shifts are reached.
`Text` feeds the automaton of `l_unicode.c` (both tables) a byte at a time. A state of `Transactions`
is what a caller means: messages for I2C or transfers for SPI; the model writes the command string, and
then reads it as `l_i2c.c` and `l_spi.c` do, `number` after `number`.

### Huffman, Deflate, Inflate, Compression (miniz.c as l_miniz.c uses it)

`Huffman` goes from counts to code sizes, limited to a length, and from sizes to codes.
`Deflate` is the compressor: hash chains in a ring, lazy matching, the buffer of literals and
references, the choice among stored, fixed and dynamic blocks. `Inflate` is the decompressor, a
coroutine that stops where input or room end; what was under way is begun again, as in the
code. `Compression` has the two objects of Lua and hands the compressed bytes over in pieces. The
sizes miniz fixes (dictionary 32768, match 258, ...) are the record `Limits`. With those of the
C source, the bytes the compressor's model puts out are the same as those of a compiled `miniz.c` on the
inputs they were compared for.

### Usb: transfers (linux/usb.lua, l_usb.c, platform-posix.c)

`Submit` is `endpoint:read` and `:write`: it allocates, pins, submits, and files the callback under
the URB's address, or raises. `ReapResult` and `ReapGone` are the watcher; `Leave` is one turn
of the loop over the callbacks of a lost device. The kernel's part is `Complete` and `Unplug`. Callbacks
may make requests at any time, also between two turns of that loop; an address is free as soon as
`reap_urb` frees it, and the next `Submit` may get it. A refused submission pushes an error or a token
depending on the order in which the compiler evaluates two operands (l_usb.c:149): a free
choice, as are the values the raised error leaves on the stack (`RefusedResults`).

### Hotplug: devices at a port (linux/usb.lua 359-450, raw-usb.lua, l_usb.c)

`MakeMonitor`, `Enumerate`, `Enable` and `ReadDev` (`adddev`, `remdev`) keep the table of devices and send the
agent its messages; the agent takes them one by one (`Begin`), and opening a device is a step for each ioctl
(configuration to 0 and to the wanted one, with its `EBUSY` path of a driver to disconnect
for each interface, and the claim), since the kernel configures a new device and binds drivers between any two. A
device that was heard of by an event waits half a second (usb.lua:415); one that was enumerated does
not. An event that is neither of adding nor of removing nor of binding ends the process at any time
(`UnknownAction`, usb.lua:358). The kernel is external, and its drivers are never unloaded.

### Process: interrupt and terminal (main.c, platform-posix.c)

Lua code is any sequence of calls: computing, entering the loop, changing the terminal. `Sigint` comes
at any point and does what the handler installed at that moment does; `lbreak` is the hook.
`ending` says how the process ended; the attributes are restored at `exit`, not at death by a signal.

### Registry, Proxies: objects found by pointers (LM.c, luaP.c)

`Registry` is the calls on the Lua stack, index by index, with the three tables in the registry,
their keys and their weak values. `Proxies` is what a caller wants: the table has the object that was
meant, and the stack is as before except for what the call says. Between two calls of a C function
Lua code drops objects and the collector takes them, so that a pointer may belong to a new object.

### Devices (l_mmap.c; l_serial.c, serial.c)

Mapping an area, `put` and `get` in widths and with offsets, `close`; setting a serial line, with
the names of the kernel's rates, the divisor of custom rates and what the driver keeps between two
set-ups.

### Subprocess (subproc.lua, platform-posix.c)

`MakePipes` is `stdin`, `stdout` and `stderr` (the pipes, and which ends are inherited), `Communicate` starts the program; `WriteSome`, `WriteEnds`,
`BrokenPipe`, `Writeable` the input; `ReadOutput`, `ReadEof`, `Receive` the outputs and the mailbox they
report to; `Wait`, `Reap` the status. The program does what it likes, but ends. `OtherStarts` is another
program that is started in between and inherits ends of pipes. `caller` is where `communicate` is; in
state "write" with a full pipe the whole process is inside `write(2)`.

## What the runs check

| run | instance | result |
|---|---|---|
| `thread_mailboxes` | three threads, main, one mailbox, two messages per queue; symmetric senders | holds |
| `thread_deferred` | two threads, a mailbox read by a thread and one by main, two deferred functions | `CalledOnce` holds |
| `two_readers` | a mailbox with two waiting threads | `WakesOnlyWhenReady` fails |
| `main_reader` | a mailbox read by the main script, two messages | `Delivery` fails |
| `kvo_notifications` | two plain observables, one computed from them, a pipeline, two threads, three writes | holds |
| `kvo_waiters` | the same, looking at what waiting threads know | `WaitersKnowTheValue` fails |
| `stream_frames` | four messages over a socket that holds three bytes | holds, with liveness |
| `stream_descriptor` | two messages over a non-blocking descriptor | `NoFramingError` fails |
| `stream_nested` | two messages written by event handlers | `NoFramingError` fails |
| `sepack_requests` | two users, five requests, two connections, one packet that is no reply, one packet lost, one frame torn | holds, with liveness |
| `sepack_unplugged` | the same, the device lost at any time, no packet lost and no frame torn | `NoExit` fails |
| `native_parts` | each part written in C, and `Usb`, `Hotplug`, `Subprocess`, by itself | holds, with liveness |

The failing runs are properties the repository states, in `TODO` or in its own error checks,
and the code does not keep; `PROJECT.json` quotes them. In short: `unregister_thread` uses a
stale position once two threads wait for a source (thread.lua:405); the main script has room
for one message between two turns of the loop (188); a coalesced notification compares
versions that were not incremented (kvo.lua:209); `loop.write` takes a count for an index
(linux/loop.lua:118); a handler that has to wait lets another one write into its frame
(raw-usb.lua:123); and a device lost during its first enumeration leaves a thread waiting for ever
and ends the process at the next connection (sepack.lua:114, 121).

The properties of `Thread` are

* `Registration`: a thread is on the list of a source, once and where the source remembers it,
  exactly while it waits for it;
* `BusyIsRunnable`, `Drained`: `busy_list` is exactly the started threads that are neither blocked nor running,
  and the trampoline does not return before it and `callback_list` are empty and no thread waits for `Idle`
  (a function that an event handler gives to `Idle` may be left until the next call of the trampoline);
* `Delivery`, `NoStrandedMessage`: what is buffered or in flight is what was put after the last message received, in
  order, and nobody waits for a queue that holds one;
* `SleepersHaveTimers`: a timer is pending exactly for a thread that sleeps;
* `NoExit`, `CalledOnce`, `WakesOnlyWhenReady`, `KilledForGood`: no legal use ends the process, a
  deferred function is called once, a receiver goes on only with something it waited for, a killed
  thread stays killed.

`Kvo` (the first three only while nothing stands behind a mark that may be taken off): `EveryChangeHeard`, `ComputedFresh`, `WatchesWhatItReads`, `NoStaleWaiter`, `QuietLoop`.
A computed observable may be left watching more than it reads (an update nested in another
one flips the colour back), which costs recomputations and no value; so
`WatchesWhatItReads` asks for at least what it reads. `QuietLoop` speaks of notifications and threads, not of updates:
one that is asked for by an event handler's write stays on `nice_list` until a thread is resumed, so that a computed
value may be old while the loop waits, which `ComputedFresh` allows for. `Stream`: `Intact`, `Arrives`.

`Sepack`: `RequestsAreExchanges`, the callers see an `Exchange`, so no thread is given the reply to another
request, across connections (`RepliesMatch`); `InOrder`, why: whoever waits is on the list that is answered at a disconnect
(`WaitersListed`), and the requests under way, wherever they are, are those waiting, in the same order; and
`Answered`, every request ends. All three say so until the first fault, and `Answered` a little more: after a lost packet
the device's end still answers everyone, since nobody left the list. What they leave open is what the code does not do.
After a lost packet each reply goes to the thread whose request came before, and the last to ask waits
for the device to be lost. After a torn frame those who wait are not told; requests made
before the next `connect` join the list behind them; `on_connect` then replaces the list (sepack.lua:274), and they wait for ever.

`NoExit` fails in a second way too, without the contract below being broken:
when a reply and the end of the connection are read together while Sepack's loop is in `busy_list`, the loop
may handle the disconnect first (`recv` asks its sources in the order of `pairs`), and the reply
then finds `reply_chns` nil (sepack.lua:268). `sepack_requests` therefore does not check it, and
`Answered` allows for the end of the process.

The properties of `native_parts`, in each of which everything a behaviour of that part does takes part:

* `IsAQueue`: a buffer implements `ByteQueue`; no byte is lost, repeated or reordered by moving.
* `UnpackReads`: a structure is read from just its bytes, and cutting the format in two
  or having more bytes changes nothing; `DecodersUndo`: counted strings, floats, bit fields,
  packets, masks and the cipher are undone by their opposites; `ChecksumsCheck`: a message with its
  checksum behind it has the checksum zero, and the table of 256 numbers is the division;
  `WordsAreBitSets`: `bit32` is set algebra on the bits, for every displacement.
* `DecodesText`: exactly the encodings of UTF-8 are accepted, and rejected as soon as they cannot be.
* `TransactionsAsWritten`: the kernel is given the messages that were meant, data that look like commands
  and settings between transfers included.
* `GivesBackWhatWasWritten`: the decompressor gives what was written, all of it after a flush; the end
  is reported at the end; the checksum is that of what was written.
* `AccountedFor`: a callback is called at most once, with its own transfer's result, and who was not
  answered can still be; `AllAnswered`: once the device is gone, everyone is. Both except what an error in the submission
  misfiles or refuses.
* `HoldsItsInterface`: the interface in use is the process's own in the configuration it asked for;
  `Tracks`: the table follows the port, and `connect` and `disconnect` alternate, in pairs. The
  first has two exceptions, both reached: a device enumerated while the kernel was still
  probing it (no sleep there), and one connected for the second time, whose opening disconnects the
  first handle's claim as if it were a kernel driver.
* `InterruptsHeard`: of two interrupts in a row at least one has an effect; `TerminalRestored`.
* `FindsWhatWasRegistered`: the calls on the stack implement `Proxies`.
* `DevicesAsAsked`: an access to mapped memory reads and writes the bytes of the area that was asked
  for; a serial line is raw, with eight bits, at the rate asked for or the nearest one not below it.
* `AllReturned`: what `communicate` returns is all the program wrote, on both outputs, with every pipe closed and
  nobody left who could write more; `Communicates`: it returns, and a `wait` ends. The
  exceptions are in `Excused` and `missed`, each reached: the program waits for its output to be read
  while the process is in `write(2)` (subproc.lua:164); SIGPIPE; a program started in between that holds the
  pipes; a status taken before `wait` had a watcher (subproc.lua:106).

`Kvo`, `Stream` and `Sepack` have no type invariant of their own: it would say nothing that the properties,
which fail on a value outside its type, do not.

### Bounds

* `MaxMsgs` (2, 1 in `thread_deferred`): two messages of one queue can overtake each other, and
  one can arrive while another is on its way.
* Threads (3): one waits, one sends, and a third comes in between, as sender, killer or the one that is
  killed. Two waiters and one more actor are enough for the stale positions.
* `Calls` (2): one deferred function in the middle of its list and one after it, or one in the
  nested trampoline.
* `MaxWrites` (3): one change, a second one during its notification, a third during the
  nested one; writes made by watchers are not bounded.
* `MaxConnections` (2): one connection, its loss, and the next with requests of the first still about.
  `MaxRequests` (5), which counts the enumerations' own, leaves the users up to three; `MaxData` (1) is what keeps
  Sepack's loop busy while more arrives. `MaxLost` (1) and `MaxTorn` (1): each fault by itself and both, in either order.
* `Capacity` (3 bytes, in `Stream`): the longest frame is written in at least two pieces and the shortest
  in one; reads take any part.
* `Buffer`: blocks of 2 or 4 bytes and writes of up to 3: a write fits, fits after moving, needs a
  larger block, or finds none; tokens of 0 to 2 bytes, found across what two writes wrote.
* `Codecs`: bytes of 2 bits, numbers of up to 6 bytes; words of 8 bits with displacements from -9 to 9;
  packets of 2 bytes and lengths 0 to 5 (none, one full, one over, two full and one over); the whole table of the CRC.
  `Text`: the least and the greatest byte of each class of the table, in sequences of any length.
* `Transactions`: up to 3 messages or 5 transfers against a limit of 3, so that one too many and two too many
  happen for SPI; one too many of I2C is undefined (l_i2c.c:43) and left out. Data are the letters of commands.
* `Compression`: `MCLimits` (a dictionary of 32, matches of 13, 3 probes, a code buffer of 70): blocks
  end by size and by the buffer's end, codes are shortened, chains of candidates
  are given up and the ring wraps within three writes. `MaxCalls` 3: write, flush or write, finish. The decompressor gets
  only what a compressor put out, in pieces of 9 bytes.
* `Usb`: two URBs, two reads and a write: an address is used again while another transfer waits.
  `MaxErrors` 1 (7 at usb.lua:167): one failure is tolerated, the second is fatal.
* `Hotplug`: `MaxPlugs` 2: there before the start or not, replaced before, while and after the
  enumeration; a configuration with the wanted interface and the kernel's own choice.
* `Process`: `MaxSignals` 4: two interrupts, each once heard and once ignored.
* `Registry`: two objects that come to be at the same address; two arguments, two values left.
* `Devices`: pages of 8 bytes and areas that begin inside one and overlap in it; bytes of base 4; rates the
  kernel names, one it does not, one above the base.
* `Subprocess`: pipes of 1 byte, an input of 2, outputs of 2 and 1: each does and does not fit.

### Contracts

Two assumptions say what a legal use of the scheduler is; the code neither states nor checks
them, and failing runs show what happens without the first. `SingleReader`: a mailbox is
waited for by one thread, not by main. `KillsBlocked`: `kill` is called on a thread that is
blocked (or dead), not on one that is in `busy_list` or was already killed. All uses of
mailboxes and `kill` in the repository keep them except the main script's own `recv`, which is what
`thread_deferred` (one reply: holds) and `main_reader` (two messages: fails) are about.

`Sepack` has one of its own, `Unpluggable = FALSE`: the device is lost only once its channels are
enumerated. `sepack_unplugged` is what happens without it. Faults are no contract: they happen, and its properties hold until
the first one.

`Compression` gives the decompressor no other stream; `Transactions` only what can be meant; `Registry`
holds an object's pointer only while it lives. `Hotplug` takes half a second to be longer than the kernel
needs to configure a device and bind its drivers.

### Fairness

None in `Scheduler`, `Thread` and `Kvo`: the code promises none. `next(busy_list)` may pick the same
entry for ever, two threads that resume each other starve the callbacks and the event loop, and
a thread that does not yield stops everything. Their properties are safety, with `Drained`
and `NoStrandedMessage` in place of "eventually woken". `Stream` assumes weak fairness
of `SendSome`, `Writeable`, `Read` and `ReadMessage`: a thread that was resumed runs to its next wait, and
libev calls the handlers of every descriptor that is ready. `Sepack` assumes it of its loops, of the
enumerating threads, of the reads, and of `Reply`: the device answers or is lost (`Unplug` itself
is not fair, nor is anything that starts a helper or a request).

`Usb` assumes it of `ReapResult`, of `ReapGone` once the device is gone and nothing is left to reap
(libev goes on reporting a descriptor that is ready, and a gone device's is), and of each turn of the loop
over the callbacks, which is a loop in the code; nothing is assumed of the device: `Complete` and `Unplug` may never
happen. `Subprocess` assumes it of the process's own steps, of the readers, of libev's child watcher, and
of the program, which is the assumption that it ends. `Process`, `Hotplug` and the others have
safety properties only.

## What is proved

`ThreadProofs` and `ChannelProofs` prove, for any sets of threads, mailboxes and deferred
functions and any bound on the messages, and under the two contracts, all the properties of
`thread_mailboxes` (`LoopIsDrained` says no more than `Drained`: functions given to `Idle` are not covered), and without the contracts `CalledOnce`. The assumptions on the constants are `SchedulerNames`, `ThreadNames` and
`ThreadParameters` (names differ, parameters have their types), which TLC evaluates too.

`TypeOK` and the others are not inductive one by one: why the right thread is taken off a list needs
that it is at the remembered position, that needs that nobody else is in the list, and that
needs that only its reader registers. The inductive invariant `IInv` is `TypeOK` with

* `MainRuns`: main is never registered and nothing is in flight to it (it is nobody's reader);
* `WaitLists`, `Waiters`: a list holds at most the one reader, at position 1, exactly while it waits;
* `Scheduled`: who is in `busy`, who is in `nice`, and that these threads are neither dead nor parked;
* `SleepersHaveTimers`, `Buffered` (the numbers in a buffer), `NoStrandedMessage`, `Drained`.

Lemmas establish what waking a thread does to the lists, once for all wakers; the step
theorem has one case per action. `Registration`, `BusyIsRunnable`, `Delivery` and `NoExit` follow from `IInv`;
`CallsOnce`
has an invariant of its own, that a deferred function is in one place at most: on `callback_list`, on
`nice_list` or on one list of the stack of half-done ones. `WakesOnlyWhenReady` and `KilledForGood` are action properties proved from it; and
`QueuesImplementChannels` shows that an initial state is one of the abstract specification
and that every step, seen from every queue, is a `Send`, `HandOver`, `Take`, `Return`, `Await`,
`GiveUp` or nothing.

`BufferProofs` proves `ImplementsQueue`: for any sets of bytes, of writes, of tokens, of counts and of
block sizes (`BufferParameters`), a buffer is a `ByteQueue`. The inductive invariant is `BufferInv`,
`BufferTypeOK` and `Bounded`: the refinement of a read needs that the indices are in the
block and in order, and that what lies between them was written (`BytesWereWritten`). One lemma per
call shows both that it preserves the invariant and that it is the queue's call of the same name.

`RuntimeProofs` proves `ImplementsProxies`: for any objects, pointers and addresses
(`RegistryParameters`), the calls of `LM.c` and `luaP.c` on the stack, with their indices from either end,
implement `Proxies`. The inductive invariant is `RegistryTypes`: the stack is a sequence of values, the tables map
values, and Lua code holds objects. Its lemmas say what each stack primitive and each table
access does, and are composed call by call.

`LinuxUsbProofs` proves `TransfersAccountedFor`: for any requests and addresses and any limit on errors
(`UsbParameters`), `AccountedFor`. The property says that a request without an answer can still be answered; that a
callback is called only once needs in addition that no two tokens file one request, that a request
that is filed has no answer yet, and that a URB is in the kernel once. The inductive invariant
`UsbInv` has these as `Filed`, `Left`, `OneResult` and `Kept`. It is proved action by action;
`Unplug` needs that a finite set put in any order is all there (`OrdersAll`).

`LinuxUsbProofs` also proves `TableTracksThePort`: for any number of devices and any configurations
(`HotplugParameters`), `Tracks`. Its first part speaks of the moment when no events are left; the
inductive invariant `HotplugInv` says of every moment what the events to come add up to: they
alternate, the last one is about what is at the port, and before a single event that adds
a device, that device may be in the table already (`Events`). That the calls are paired (`InPairs`) needs that the agent's job
is still the first of its messages (`Begun`).

Its `InterfaceStaysClaimed` is `HoldsItsInterface`, under the same assumptions. The interface in use could be lost in three
ways: the kernel configures the device after the process did, a driver is bound, or the agent opens
the device again. `ClaimInv` shuts each out from the moment the device is plugged in: no number in
an event, a message or `attached` is greater than `plugs`, so a new device is none of them (`Numbered`); an
opening begins when the kernel is done with its device, unless the device was enumerated earlier
(`Waiting`), and stays so until the claim (`Configured`, `Held`); and a device that is opened while it is attached
is connected for the second time (`Connected`), which the property excepts.

`RuntimeProofs` also proves `InterruptsHeard` and `TerminalRestored` for any number of signals and any
attributes (`ProcessParameters`). A signal that had no effect yet has taken the handler away, so the next one
kills; what is saved for the exit is what was found (`ProcessInv`).

For `communicate` it proves `AllReturned`, for pipes of any capacity, outputs of any length and any program
that inherits ends. `SubprocessInv` counts the bytes of each output, what was written being what was read and
what is in the pipe; the process keeps only its own ends, none of which others inherit (`Communicating`); a reader that
saw the end of its pipe left it empty and closed, with no writer; and `communicate` is past an output only when its reader is.

Also there, `DevicesDoAsAsked`, which is `DevicesAsAsked` for any page size, memory, places and rates
(`DeviceParameters`). `MapInv` says of a mapping that it is the pages around the area asked for, so that an access whose check passes and that has a
length stays inside them and reaches the address it names (`ObjectFacts`); while that was so of all accesses, the memory is what was `meant`. `LineAsAsked` follows a set-up through the steps in which it may fail. The offsets and lengths are natural
numbers: a negative one becomes a huge `size_t` in the code, which is not modelled.

Also there, `TextIsDecoded`, which is `DecodesText` for any bytes: `native_parts` tries 24 of them. `TextInv` says
what each state of the automaton knows (`Partial`): how many bytes the encoding has, how many are missing
(`Left`), and that the value so far is the prefix of a code point of that length (`Prefix`), which in the states
48, 60, 72 and 96 is where overlong forms, surrogates and too large numbers are told apart. That such a prefix can be
completed, and that nothing completes the others (`NoPrefix`), is arithmetic; that the two tables lead from one to the other is read from
them, class by class and row by row (`Classes`, `LaterStates`).

`StreamProofs` proves `Intact` and `NoFramingError`, for any messages of fewer than ten bytes, any room in the stream and any pieces
(`StreamParameters`), with the hypotheses `~InMain` and `~Raw`: one thread writes, to a socket, as `ExtProc._out_loop` does. `stream_nested` and
`stream_descriptor` show that the code needs both. The inductive invariant `StreamInv` says what is to come
for the reader, from where it is in the frame of the first message left (`Ahead`), and that this is
what is in the buffer, in the stream and in the rest that the one call has still to write (`Unsent`).
A call that gives up has written nothing, and then the message it drops is one the reader has not begun
(`NotBegun`); a reader that finds a newline has the whole line of the first frame, because a digit comes first.
The frames are put together by `FlattenSeq` of the community modules. That it can be taken apart from
either end (`FlattenFirst`, `FlattenLast`) is proved by induction over `Nat` as a set (`NatSetInduction`).

`SepackProofs` proves `RepliesMatch` and `InOrder`, for any threads and packets and
any bounds on requests, connections and data (`SepackParameters`), with the hypothesis `~Unpluggable`: the device is
not lost while it is enumerated. That is the contract of `sepack_requests`, and `sepack_unplugged` shows that the code
needs it. Like the properties, the proofs cover the time until the first fault and say nothing of what follows
an input error or a lost packet: `SafeUntilFault` is `Faultless => SepackInv`, and only a fault ends `Faultless` (`FaultsStay`). `InOrder` is not inductive: it speaks of a connection that lasts, and what is left of an old one (its
replies in `inbox`, its waiters) must be gone, or known to belong to it, when the next one begins. `SepackInv` follows each message
through the places it can be in, and ties the state of the connection to them: which of `connect` and
`disconnect` was said, read and heard, what the enumerating thread is doing, and who waits for which request.

Its `ImplementsExchange` is the refinement `RequestsAreExchanges`, under the same hypothesis; a fault is `Break` (`FaultExchanged`). Besides `SepackInv` it needs that
nobody waits for a request without a number and that nothing was mixed up (`HasAsked`). A reply goes to the first
of `reply_chns`, whose number is the least of those waited for because the list is in the order of the requests; `connected` becomes false in
`OnDisconnect` only, and the list that is answered there has everyone who waits.

`KvoProofs` proves all five properties of `kvo_notifications`, for any observables, watchers, threads, values and
functions, and any number of writes (`KvoParameters`). `KvoFunctions` assumes of a computed
observable's function that its result depends on nothing but what it reads. `NoStaleWaiter` and `QuietLoop` need no more.
The other three have the hypothesis `SometimesReadAlone`: what a computed observable
reads in some states only has no other observer. It is what the code needs: `unwatch` in the middle of a loop over the same
list moves the watchers behind it, and one of them is skipped (`MCKvoRemoved.cfg`, below). The instance of `kvo_notifications` has it.
The inductive invariant `KvoInv` has these parts:

* `KvoTypes`, `NothingLeft`, `DirtyWaits`: the stack of frames is what it can be, under the trampoline nothing runs that it should
  have finished, and a dirty observable has a notification that has not begun;
* `Told`: who waits knows the version, or will be looked at;
* `Observed`, `Lists`: the observers of an observable are, each once, what watches it and the marks of those that
  have it on their list; a list holds only what may be read, and what is always read is on it, in the last colour;
* `Heard`, `UpToDate`: what was not called since a change is behind the position of a loop or a queued notification,
  and a computed value is right, or one of what it reads has not yet called its mark.

Two lemmas carry most of it: adding to the end of a list keeps what a loop has still to call, and so does
taking off a mark that stands alone.

Only model-checked: main as a reader, and liveness, which is out of the prover's reach: `Arrives` of `Stream`,
`Answered` of `Sepack`, `AllAnswered` and `Communicates` of `native_parts`. Of the other properties of
`native_parts`, `UnpackReads`, `DecodersUndo`, `ChecksumsCheck` and `WordsAreBitSets` speak of modules that
work on bits (`Binary`, `Words`, `Checks`, `Codecs`), for which the prover has no theory;
`TransactionsAsWritten` and `GivesBackWhatWasWritten` say what folds and recursive operators compute (those of
`Transactions`, `Huffman`, `Deflate` and `Inflate`), and would need induction over data.

## Where the code differs from what one would expect

The runs named "violation" show six disagreements. These further ones were met while the native parts were modelled;
the models do what the code does, and the properties say so or stay clear of them:

* `l_usb.c:149`: a rejected submission may return the token instead of an error, and the URB is then never
  freed; nor is one whose result is an error (`Release`).
* `linux/usb.lua`: a failed attach leaves the kernel's drivers disconnected; the result of configuring
  to 0 is not looked at; enumerated devices are not waited for; "coldplug end" is awaited and "coldplug-end" sent.
* `l_binary.c:46`: a format of `unpack` that ends with white space or a byte order has no answer when the data
  end there too. `l_binary.c:243`: a format of `unpackbits` that ends with a space has one more field, of one bit.
* `l_i2c.c`: the messages' memory is not freed when the ioctl fails. `l_spi.c:64`, `l_i2c.c:43`: one transfer
  or message too many is written behind the array before the count is checked.
* `extproc.lua:128`: an input error ends a connection without `status(false)`, unlike an end of file, so that requests are
  neither answered nor forgotten until the next connection forgets them.
* `raw-usb.lua:127,156`: a lost packet is reported to nobody behind the helper, and replies are matched by their order.
* `l_miniz.c:34-48`: the level and the flags given are not used; a second flush after the end is an
  error; a truncated stream reports neither end nor failure.
* `l_serial.c:96`: the only mode accepted is called "8N1", but two stop bits are set; a rate above the base gives the divisor 0.
* `l_mmap.c:72,120`: the length that is taken by default is not checked.
* `platform-posix.c`: `raw_close` reports success as an error; `LM.c:135` checks argument 1 whatever the index.
* `kvo.lua:221`: watchers are called in a loop over the list with `ipairs`, by position. When one of them sets something, and a
  computed observable that is updated before it returns no longer reads this one, `unwatch` (200) moves those
  behind the mark one place to the front: the next is skipped, and not told of the change. `EveryChangeHeard` fails with
  `MCKvoRemoved.cfg`, another instance of `MCKvo`, which is none of the runs above.
* `subproc.lua`: the forms that take a table raise an error; an input whose reader has gone kills the process.

## What is not modelled

* Main calling `T.sleep`; deferred functions that call `recv`; a bare `T.yield`; a thread function that
  returns a true value (it would be resumed as a thread, thread.lua:139); run-time statistics and names.
* `Timeout`, `Broadcast`, `Publisher`, `agent`: nothing in the repository has two threads wait for one of
  them, which is where they are hard (thread.lua:449).
* Weak references, read callbacks, `ObservableDict` and `walk` in `kvo.lua`.
* `ExtProc:restart`, which nothing calls, and a helper that connects twice; the timeouts and
  channel types of `sepack.lua`; the computed serial number.
* End of input and errors in `Stream`.
* USB: `device:close`, `interface:close`, `connect_kernel` and `disable`, which nothing calls, looking
  endpoints up, and isochronous transfers, which the code does not have.
* Subprocesses with files or descriptors in place of pipes, `popen_lines`, the error of an exec that fails.
* Of `miniz.c`: the zlib interface, archives and images, which nothing calls, and the faster variants of
  searching and decoding that the build does not choose; streams that no compressor made.
* The rounding of a double that is packed as a float (l_binary.c:221), and of integers above 2^53 that are
  unpacked (l_binary.c:151); `Binary` packs values that are floats and reads numbers of up to five bytes.
* base64, hexadecimal and SHA, which call libraries that are not in the repository; the table of character
  widths; `_debug` and other functions that only print.
* HTTP and WebSockets: their behaviour is mostly that of parsing the requests' bytes. The REPL, the Lua
  utilities (objects, JSON, formatting), the development tools.
* The OS X and Windows platforms, which offer the Linux adapter's interface over other system calls;
  generated code (`l_init.c`) and third-party libraries.

## Plan

1. Done: `Scheduler`, `Thread`, `Channel` with their proofs; `Kvo`; `Stream`; `Sepack`.
2. Done: the native parts, `Buffer` and `Registry` with their proofs; USB from the port to the transfers;
   subprocesses; compression. `Usb` and `Hotplug` with proofs of their safety.
3. Next: WebSocket connections (keep-alive, upgrade, two loops and the close, websockets.lua:110); a second connection of a helper.
4. Done: proofs of `Kvo`, `Sepack`, `Hotplug`, `Process`, `Stream`, `Subprocess`, `Devices` and `Text`; `Exchange`, which
   `Sepack` implements. A proof worth adding: the transactions of I2C and SPI, with the command
   string as a function on positions instead of a fold.
