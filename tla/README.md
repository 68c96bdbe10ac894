# Formal model of open-dread-rando-exlaunch

A module for the Nintendo Switch that is loaded into *Metroid Dread*. It hooks
the game, connects it to a bridge on a PC, runs the Lua the PC sends and pushes
game events back. This directory holds TLA+ modules that model its concurrent
and stateful parts, the TLC configurations that check them, and proofs that
TLAPS checks. Paths below are relative to `source/program/` unless they say
otherwise.

## The system

| Part | State | Operations | Talks to |
| --- | --- | --- | --- |
| bridge worker (`remote_api.cpp`, a thread) | `g_socket`, `g_inbound`, `backoff_idx`, `g_socketConnected` | find, dial, HELLO, poll, read lines, dispatch, pump, close | game thread (mailbox, send queue, two atomics), PC (TCP) |
| mailbox (`g_pendingLuaSrc/Len/Seq`, `g_readyForGameThread`) | one command | filled by `dispatch_line`, taken by `ProcessCommand`, dropped by `close_socket` | both threads, no lock |
| send queue (`g_sendBuffer`, `g_sendBufferLock`) | buffers, the first perhaps cut | `enqueue` (both threads), `pump_outbound`, `clear` | both threads, PC |
| Lua tick and library (`main.cpp`) | none of its own | `Init`, `Update`, `Send*`, `Connected` | calls `RemoteApi` on the game thread |
| discovery (`discovery.cpp`) | `g_cfgHost`, `g_cfgHostValid` | loopback probe, /24 sweep, cache of the configured host | worker calls it; game thread fills the cache |
| romfs hooks (`romfs.cpp`) | replacement list, string bank | read three files on mount, replace paths, name save slots | game thread; `nn::fs` |
| item pickup hooks (`item_pickups.cpp`) | four statics | four hooks, one sound callback, one Lua function | game thread only |
| line JSON (`json_line.cpp`) | reader/writer on the stack | encode with an 8 KiB cap, decode with a sticky error | worker, game thread |
| debug hook, Lua helpers | one flag | single calls | game thread |
| hook library (`source/lib/hook`), RW page mirrors, virtmem, JIT (`source/lib/util/sys`, `source/lib/nx`) | trampoline pool, reservations | install hooks at start-up | `exl_main` |
| patchers, relocation, start-up, diagnostics, encoders | none, or one pass | straight-line code | start-up |
| vendored | - | cJSON, Lua 5.1.5, `nn` headers, build files, Python package | - |

What is hard here is the bridge. Two threads share plain globals guarded only
by an atomic flag; `close_socket` undoes a connection in several steps while the
game thread may be inside a command or a push; the PC can answer a reply before
the function that enqueued it has returned; bytes arrive and leave in pieces;
and the mutex itself is created by the worker after `Init` has returned. A line
is walked by a reader whose first failure is final, over a buffer that may have
cut it. In discovery it is the number of exits that must close what they opened, the
tables rebuilt on every mount, and the one buffer that crosses threads. In the pickup hooks it is flags set for "the
next call" of another hook.

## Modules

| Module | Models | How it maps |
| --- | --- | --- |
| `RemoteApi` | worker, mailbox, Lua tick, pushes, the PC as far as the socket shows it | `wpc` is the worker's statement, `gpc` and `gpush` the game thread's. Each step the other thread can observe is an action: the connection made and the flag that shows it, the four stores that fill the mailbox and the two places where a line is given up among them, the four statements of `close_socket`, the loads of `ProcessCommand`. A critical section of `g_sendBufferLock` is one step. Messages and lines are atomic. |
| `SendQueue` | `enqueue`, `pump_outbound`, clear, byte by byte | `pos` is the loop's iterator; while it is not 0 the lock is held. |
| `ByteStream` | what the send queue promises: a FIFO byte stream that drops what waits only once behind each close, a new connection starting on a whole message | abstract; `SendQueue` is shown to implement it with its buffers flattened. |
| `InboundFraming` | `drain_into_inbound`, `find_newline`, `consume_line`, `line_buf`, byte by byte | a byte is the line it belongs to and its place in it. |
| `JsonLine` | `Reader` and `Encoder` with `LineBuffer` | operators from the object's state to the result and the state left; a line is a sequence of tokens, a string token holds its characters as they are on the wire. |
| `LineDispatch` | `dispatch_line` and `parseReply` turn by turn over such lines, and the envelopes written | one action per branch of a field loop; a line arrives whole or cut at any token or inside one. |
| `MCLineDispatch` | the lines, datagrams and envelopes for TLC | - |
| `Discovery` | `resolveBridge` on the worker; `RomMounted`, `OpenAndReadFile`, `populateStringReplacementList`, `setSeedSaveProfile` and `CacheBridgeHostFromRomfs` on the game thread | handles and buffers are counted; `g_cfgHost` is unwritten, partial or whole; an entry of the list has a kind until it is written; a slot's name is the mount it was made on. |
| `ItemPickups` | the four pickup hooks, `SoundCallbackHook`, `SetItemPopupsEnabled` | the statics by their names. The game is external: an item's popup is inside `OnCollectPickup`, its sound inside `PlayPickupSound`, as the hooks' comments have it; other sounds start at any other time. |
| `RemoteApiProofs`, `SendQueueProofs`, `InboundFramingProofs`, `LineDispatchProofs`, `DiscoveryProofs`, `ItemPickupsProofs` | theorems about the module each is named after | - |
| `MailboxProofs` | two more theorems about `RemoteApi` | extends `RemoteApiProofs` |
| `FlattenLemmas` | what `FlattenSeq` returns | used by `SendQueueProofs` and `LineDispatchProofs` |

`RemoteApi` treats a line and a message as atomic; `InboundFraming` and
`SendQueue` are what entitles it to: lines come out whole and in order, whatever
TCP does, and messages go out unspliced and restart whole. What a line makes the
worker do is `LineDispatch`'s subject: a whole line leads to what its fields mean,
which is why `RemoteApi` can hand commands over by number; a cut one leads to
nothing or to what is left of it means, which is a command of its own. In `RemoteApi` the Lua tick runs because somebody
scheduled it (`updateDue`): `multiworld_update` does so as its last statement, an
error of its `tostring` call (`TostringError`) skips that, and `ScheduleAgain` is
Lua calling `RemoteLua.Init` once more. It abstracts
`resolveBridge` to "found or not"; `Discovery` shows that it returns and leaves
nothing behind.

Definitions named after an operation with a qualifier (`CloseFlagForgotten`,
`LineBufUncut`, `ReadFailsUnclosed`, ...) are faulty variants. No specification
uses them. Each changes one statement the way a slip would, and replacing the
definition it is named after by it makes TLC refute one property; they show that
the property depends on that statement.

## Runs

| Run | Shows |
| --- | --- |
| `RemoteApi.cfg` | No command of a dead connection is pending while the worker redials; a flag the game thread can act on is that of a hand-over not taken yet or of one whose take an error ended; what is read of the mailbox for a command of this connection, and what is answered on it, comes from lines of this connection; HELLO and pongs appear on their own connection and in order; at most one reply and one push of an earlier connection can appear on a later one; the lock exists before the game thread uses it. |
| `RemoteApiLive.cfg` | A close leads back to discovery; a waiting command is taken or dropped, unless an error has ended the tick and Lua has not started it anew; a queued reply is sent or its connection closes. |
| `RemoteApiHelloFirst.cfg` | violated: HELLO need not be a connection's first message. |
| `RemoteApiQueuedCommandRuns.cfg` | violated: a command handed over between the enqueue of the reply before it and the clear of the flag is lost, on an open connection and although everything before it had been answered. |
| `RemoteApiCommandOfOneLine.cfg` | violated: with two commands on the way, one's source runs under the length and seq of the other. |
| `SendQueue.cfg` | With partial sends and closes nothing is spliced, only the first buffer can be cut, the queue implements `ByteStream` and drains. |
| `InboundFraming.cfg` | The i-th dispatch is of the i-th line and a function of that line alone: whole up to `LineCap` bytes, cut to that, or, past `InboundCap`, what is left behind the last full buffer. No line is lost; each arrives. |
| `ItemPickups.cfg` | Flags reach the popup and the sound they are meant for, whatever else plays; no callback runs twice, whatever starts inside one; every intercepted sound that ends restores the music. |
| `ItemPickupsOverlap.cfg` | violated: with overlapping pickup sounds a callback is lost. |
| `Discovery.cfg` | No file is open when the game may unmount, a mount leaks one buffer at most, no UDP socket is left, the worker sweeps from a whole address, the list of replaced paths and the slot names are whole whenever the hook comes back, `resolveBridge` returns. |
| `DiscoveryFormats.cfg` | violated: the second documented form of `replacements.json` makes the hook read through NULL. |
| `LineDispatch.cfg` | A whole line leads to what the fields its sender wrote mean, up to the first that the loop cannot skip. A line without its end leads to nothing or to what is left of it means: its first fields, the last of them perhaps a number that has lost digits, never a string that has lost its end. A line that hands nothing over leaves a waiting command alone, but for its source in one case; an envelope is the object that was meant or a beginning of it without its end. |

### Bounds

`RemoteApi.cfg`: two connections (one to die, one to inherit), two commands
(one in hand and one to overtake it, on the same connection or on the next),
another line (an
acknowledgement, a ping or a kick), two pushes (one stale, one not), one error of
the Lua tick, a schedule of two entries (one step and the cap). Every property relates at most two connections and two messages of a
kind. Nothing keeps the PC from sending a command before the last is answered:
the repository has no such rule. `RemoteApiLive.cfg` keeps the
two connections, the two commands, the other line and the error, so that each wait
happens on a first and on a second connection and behind a command that failed; it
has no pushes, which are straight-line code and end. `SendQueue.cfg`: messages of one to three
bytes, so that a partial send can cut at every kind of place, five of them, three
connections. `InboundFraming.cfg`: `InboundCap` 4 and `LineCap` 2 with lines of
up to nine bytes, so each line length around both limits and around twice the
larger occurs; three lines, so that an overlong one stands before, between and
after others. `ItemPickups.cfg`: four sounds, three at a time. `Discovery.cfg`:
three hosts, three polls, two mounts: a second mount finds the address published
or not; lists of up to two entries, so that one can shrink, grow and be half
written, each of the kinds the two forms of the file have or of another one. `LineDispatch.cfg`: every sequence of up to two of twenty fields,
right, ill-typed, unknown and with a name that cannot be read, and of up to three
of twelve of them, one for each thing that can happen to a loop, every order of the
three fields of a `lua_exec` with an unknown one, and a `lua_exec` with two
sources, the second of them empty; characters are those these fields need, the
ones with an escape among them; buffers so small that a source, a host and an envelope
outgrow them, and numbers beyond an `int`. A number and a boolean have two
characters on the wire, so that the cap can cut inside one; the envelope of
`SendInventoryJson`, which splices JSON it is handed, has a value of its own kind
for that. Every property of a line is about one
field and those before it, so three reach each case; the fourth puts an unknown
field at every place of a full command.

Deadlock checking is off in the run of `LineDispatch`, where a behaviour is one
line, in that of `InboundFraming`: when the connections are used up and the
last one is closed there is nothing to do, and in `Discovery.cfg`: a NULL that the
hook dereferences ends the process.

### Fairness

`RemoteApi`: weak fairness of the worker's steps (its loops wait with timeouts
only) other than `PollClosed`, since nothing forces a connection to fail, and of `ProcessCommand`, while it is scheduled,
and a push under way (the engine runs what `Game.AddGUISF` scheduled, and a push is
straight-line code). Strong fairness of a pump that
sends something: a peer that keeps the connection keeps reading. `SendQueue`
assumes the same of `Send`, and that a started pump or close ends. `Discovery`:
weak fairness of `resolveBridge`, whose every wait has a timeout, and of the
hook. `InboundFraming`: weak fairness of the worker, and strong fairness of a
`Recv` that returns bytes: a `Recv` that fails is tried again at the next
`POLLIN`, and does not fail for ever while bytes are there. Nothing is assumed of the
PC, of the network's datagrams, of Lua's pushes or of the game's mounts.

## Proofs

Eight modules hold proofs for every value of the constants: every invariant and
every action property of the passing runs is stated by a theorem, and the
refinement of `ByteStream` too. Each rests on nothing but the named assumption of
the module it is about (the schedule, buffers and messages are not empty, bounds
are natural numbers, the characters with an escape are characters). Invariants are seldom
inductive; each proof module states the strengthening it needs as conjuncts with
a name and shows `Init => IInv`, one step per action, and `IInv => Inv`.

### RemoteApiProofs

Six invariants: `TypeOK`, `LockBeforeUse`, `ConnectedHasSocket`,
`NoCommandAcrossRedial`, `AtMostOnce` and `WorkerMessagesInOrder`.

The first five are read off `IInv`, a conjunction of `TypeOK` and
* `WorkerPoint`: what the worker has established at each statement; for example
  that a lowered flag outside `close_socket` means no socket, no inbound bytes
  and an empty mailbox, which is what carries `NoCommandAcrossRedial` past the
  kick that returns into the line loop;
* `BeforeLock`: until the mutex exists nothing can have raised the mailbox flag
  or the connection flag, so the game thread has no way to the queue;
* `ConnectedHasSocket` and `AtMostOnce` themselves. `AtMostOnce` is about the flag
  and not a count of runs, since a command may well be taken twice: an error out
  of the tick leaves its flag up.

`WorkerMessagesInOrder` is proved from `QInv`, which adds what the queue and the
wire hold at each statement of the worker (`QueuePoint`: no worker message is
left when it dials again, exactly one HELLO once it polls). It uses `IInv` and
lemmas on appending to the queue and on moving a prefix of it to the wire.

### MailboxProofs

`AtMostOneStale`, from `StaleInv`: what the game thread has in hand when a
connection ends, a command it is running and a push it has not enqueued, is all
that can reach a later connection. So the queue and the wire hold at most one
reply and one push of earlier connections, and none while the one there can be is
still held; that nothing comes from a later connection than the last keeps this
true when another one ends.

`RepliesOfThisConnection`, from `NewInv`. Ids grow, so a command of the present
connection is one above `base`. Received lines die with their connection and
`close_socket` lowers the flag; so each word the mailbox gets before the flag can
go up again is of the new connection (`StashNew`, `MailboxNew`), and so is what the
game thread reads for a command it took there (`ReadNew`) and what it answers
(`RepliesNew`). A command taken before the close may read words of the new
connection too; it carries the connection it was taken on. That the words are of
one line does not hold, however few the connections: `CommandOfOneLine`.

### SendQueueProofs

`TypeOK`, `OnlyHeadIsCut`, `NoSplice` and `ImplementsStream`. A buffer of the queue is the end of one
message (`BeginsAt`); all but the first are whole, and their messages increase.
The argument for `NoSplice` is what holds where the queue meets the wire
(`Junction`): the first byte still to be sent continues the last byte sent, or
starts a message after it, or a connection. `LoopPoint` says it of every position
of a pump: what lies before the iterator is empty, what lies behind has not been
touched, and after a partial `Send` the loop is over. The erase renumbers buffers;
lemmas about `Kept` and `KeptAt` show that it keeps their order.

The refinement maps the buffers, flattened, to the bytes that wait. `Enqueue` is
`Accept`, `Send` is `Transmit`, `Close` is `Break`, `Clear` is `Drop`, `Connect`
is `Reconnect`; every other step stutters, the end of a pump because the buffers
it erases are empty (`LoopPoint`). `FlattenLemmas` has what `FlattenSeq` does when a part is appended,
cut or removed. It is a fold over a recursive function; the library's induction
theorems take an operator as a parameter, which the provers cannot instantiate,
so these lemmas argue about the least number for which a statement would fail.

### InboundFramingProofs

`TypeOK`, `LinesAsExpected` and `NoLineLost`. The invariant (`StreamPoint`) is about
the pending bytes, those in the buffer followed by those still to be received. It
places a byte relative to the ones before it and never says where a line begins:
a stretch without a newline is one line, byte after byte (`Stretches`); behind a
newline the next line starts (`NextStarts`); lines increase (`InOrder`); the last
byte is the newline of the last line sent (`Ends`). Two more conjuncts say what is
left of the line that is due: its first pending byte is at a multiple of
`InboundCap` (`Starts`), and each later line still has its newline (`EachEnds`).
That between polls the buffer holds no newline is why the reset of a full buffer
takes bytes of one line only. `LinesAsExpected` follows by dividing the length of
the line by `InboundCap`, `NoLineLost` by a bijection between the pending newlines
and the lines not yet dispatched.

### LineDispatchProofs

`TypeOK`, `PendingKept`, `EnvelopeAsMeant`, `LineAsMeant` and
`TornLineLosesItsEnd`, for lines and envelopes of any length, cut anywhere, and
buffers of any size.

Below the invariants are three groups of lemmas about `JsonLine`: what `Decode`
returns (a recursive function, so its domain and its values are shown to exist
first); that the tokens of field `i` of an object stand at fixed places
(`FieldsAt`); and what each operator of the `Reader` does on a line that has a
whole field, a cut or the end at its position.
* `TypeInv` bounds what the mailbox, the host and an envelope hold, and places the
  reader inside its line.
* `KeptInv`: until a line hands something over, the mailbox is as it was but for the
  source, and that only in the second pass of a `lua_exec`.
* For envelopes, `Holds`: the encoder's output is what was written so far or, once
  there is no room left, a beginning of it whose last token may be cut (`CutOff`).
  The closing brace comes last, so an output that is cut does not have it.
* `SentInv`: what the line shows (`seen`) is a beginning of the fields its sender
  wrote (`sent`), all of them when the line is whole; the last can be a number
  without its last digits.
* `MeaningInv` ties the loop to the meaning of what the line shows. `LineInv` says
  how the line stands against those fields, wherever it was cut (`WholeUpTo`). In
  a loop there is an `i` such that the first `i` fields were read and were of the
  wanted kind (`Fine`), the locals hold their last values (`Knows`), and the reader
  stands behind field `i` or has failed because nothing further can be read
  (`Ended`). `TypeKnown` carries the result of the first pass into the second. At
  the end the first `i` fields are those that the meaning says are reached, so what
  the locals hold is what they mean.

A torn line is not harmless, and the property does not say so. `dispatch_line` and
`parseReply` never ask for the closing brace: a `lua_exec` cut behind its `src` is
handed over under seq 0, one cut inside its `seq` under a smaller one. What the
property excludes is a string that counts without its end, a field that was not
there, and a value that is no beginning of the one sent. A whole source of more than
`BufferSize` bytes is run as its first `BufferSize` bytes, torn or not.

Two definitions changed because of these proofs. `PendingKept` had excused a
source that was written over when the locals said one had been read; a `lua_exec`
with two sources, the second empty, that is given up for its seq has written over
the waiting one and says it read nothing. And a field whose *name* holds a bad
escape stops a loop whatever its value is; `Reached` now says so. The lines for
TLC contain both.

### DiscoveryProofs

`TypeOK`, `NoHandleLeft`, `OneBufferPerMount`, `NoSocketLeft`, `SeedWhole` and
`TablesWhole`. `HookPoint` counts the handles at each step of the hook,
`BufferPoint` bounds the buffers by the mounts that are past their second file, `WorkerPoint` the sockets at each step
of `resolveBridge`, `FlagPoint` ties the published flag to the state of the copy
(once it is up, no mount writes the buffer again), and `TablePoint` says which part
of the list and of the slots is behind the hook at each step. `TablesWhole` is about a
hook that comes back: an object of format 2, or a `malloc` that fails unseen, makes it
dereference NULL (`NameIsNull`, `AllocListFails`, `FillEntryFails`), which ends the
process and both its threads.

### ItemPickupsProofs

`TypeOK`, `OnlyPickupSoundsHooked`, `NoCallbackTwice`, `MusicRestored` and
`PopupAsWanted`. `FlagsAim` says which call each armed flag is waiting for,
`CallbackKept` whose callback the static holds and that it has not run, `MusicDue`
that inside a callback one restoration is still to come.

### Only model-checked

Liveness, which is out of the prover's reach: `ClosedIsRedialled`,
`CommandTakenOrDropped` and `ReplySentOrClosed` of `RemoteApi`, `QueueDrains` of
`SendQueue`, `LinesArrive` of `InboundFraming` and `ResolveReturns` of `Discovery`.
The runs that find a violation are about one instance by nature.

## Where code and comments disagree

* **HELLO first.** `tcp_connect` makes the connection visible before `sendHello`
  runs; a push of the layout UUID or a late reply goes out first.
* **A lost command.** `ProcessCommand` enqueues the reply and only then clears
  the flag. The PC can have received the reply and sent the next command by
  then; the clear drops it. The PC waits for an answer that does not come.
* **Two commands in one.** The worker fills the mailbox whether or not the game
  thread is reading it. A PC that sends a second command before it has the answer
  to the first, which nothing forbids, can have the second's source run under the
  first's length and seq, and then once more under its own.
* **Format 2.** The README's second form of `replacements.json` is a list of objects.
  The code asks for the name of the object instead of that of its child; an element
  of an array has none, and `strlen` gets NULL.
* **Overlapping pickup sounds.** `hookedCallback` holds one callback.

Seen in the models, where a passing property states what the code does, and without
a run of their own:
* The skip of a field tries a string first and the reader's error is final: a number
  or a boolean before `t` ends the first pass and the line is ignored, although the
  comment on that pass is "First pass: find the type." `LineAsMeant` has this in
  `Reached`.
* An error of `tostring` in the Lua tick leaves the command pending and ends the
  tick: `CommandTakenOrDropped` has it as its one exception.
* `setSeedSaveProfile` does not free the buffer of a hash that is too long, although
  `OpenAndReadFile` asks its callers to: `OneBufferPerMount` bounds the leak.

Noted while reading and not checked by a run: after a connection that was
established the worker redials without the backoff its header describes;
`close_socket` says it drops pending replies, and one still being produced
reaches the next connection (`AtMostOneStale` bounds that).

## Not modelled

* Vendored code (`cJSON.c`, Lua 5.1.5), the `nn` and `nx` headers, build files and
  the Python package: most of the lines of the repository, and none of its own
  logic.
* The hook library, the RW mirrors, virtmem and JIT pages. `exl_main` runs them at
  start-up, on one thread, for a fixed list of sites, each hooked once; a failure
  aborts. What is left is relocation of machine code and page arithmetic, without
  a behaviour in time. Instruction encoders, patchers, module relocation and
  diagnostics are single passes as well.
* The debug hook and the Lua helpers: single calls, one flag.
* Arrays and nested objects in the line JSON, which no caller enters, `\u` escapes,
  white space, and the digits of a number (a cut number is one divided by ten).
* The strings themselves: paths, hashes, addresses, the Lua a command runs.
* A data race on a mailbox word is modelled as reading the old or the new word; the
  source text is one word in `RemoteApi`, and a prefix laid over the old one in
  `LineDispatch`.
* Path lookups by other threads of the game during the mount hook. What an entry of
  `replacements.json` of a kind the code does not read leaves in the list: the model
  has it there as an entry that is counted and not written.
* A pickup sound that ends inside a callback of another, and an order of the game's
  calls other than the one the hooks' comments describe: the game is not in the
  repository.

## What could follow

A model of the relocation of instructions against their meaning, as pure operators.
