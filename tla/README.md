# A verification of kisakcod in TLA+

kisakcod is a reconstruction of the Call of Duty 4 engine: a multiplayer
client, a dedicated server and a single-player build in one source tree. This
directory holds TLA+ models of the parts of it whose correctness depends on the
order of events, the TLC configurations that check them, and TLAPS proofs.
Paths below are relative to the repository's `src/`.

    tlasany M.tla                              parse a module
    tlc -config X.cfg M                        check a configuration
    tlapm M_proofs.tla                         check the proofs

`PROJECT.json` lists the runs, the lines each definition models, the hazards
the properties are for, and for every property of a run one faulty variant of a
definition that the property catches. The variants are in the modules, marked
"A faulty ...".

## The system

| component | state | operations | hard because |
|---|---|---|---|
| net channel `qcommon/net_chan_mp.cpp` | `netchan_t`: sequence numbers, unsent and reassembly buffers | `Netchan_Transmit`, `Netchan_TransmitNextFragment`, `Netchan_Process` | packets are lost, repeated and reordered; four callers treat pending fragments differently |
| reliable server commands `server_mp/sv_main_mp.cpp`, `sv_snapshot_mp.cpp`, `client_mp/cl_parse_mp.cpp`, `cgame_mp/cg_servercmds_mp.cpp` | a ring of 128 per client on both sides, and the numbers sent, acknowledged, stored, executed | add (replace, cull, overflow), send in gamestates and snapshots, acknowledge, store, execute | queued commands are moved while older ones are under way; limits; drops; map changes |
| reliable client commands `client_mp/cl_main_mp.cpp`, `cl_input.cpp`, `server_mp/sv_client_mp.cpp` | a ring of 128 on the client; the last number on the server | add, send again, execute in order, acknowledge | executed once although repeated in every packet; limits |
| message keys `sv_net_chan_mp.cpp`, `cl_net_chan_mp.cpp` | none of their own | encode and decode with the last command of the other side | both sides must pick the same command |
| client life cycle `server_mp/sv_client_mp.cpp`, `sv_main_mp.cpp`, `client_mp/cl_main_mp.cpp`, `cl_main_pc_mp.cpp` | `client_t.header.state` and its times, `clientConnection_t`, `connectionState` | challenge, connect, stats, gamestate, enter, leave, drop, time out, map change | late packets of an earlier connection; two sides that time out on their own |
| worker gate `qcommon/sys_worker_gate.cpp`, `threads.cpp` | a state word, a shutdown latch, two auto-reset events | activate, pause and wait, request shutdown, pause point | interleavings of lock-free accesses and stale signals |
| worker queue `gfx_d3d/r_workercmds.cpp`, `r_worker_queue_atomic.h` | a ring with two guards and three counters per command type | add, process | the accesses of several producers and consumers interleave |
| effects gates `EffectsCore/fx_system.cpp`, `fx_draw.cpp`, `fx_sort.cpp`, `fx_archive_gate_control.h`, `fx_iterator_atomic.h`, `fx_effect_table_restore.cpp` | two gates, the iterator word, the allocator's lock, the restore lease, the generation of the system | iterate, sort, collect, kill, rewind, save, restore, reset, allocate | five words are read one after the other and must act as one lock; errors unwind it |
| snapshots, HTTP downloads, asset database, script strings, thread hand-off | - | - | planned, see below |
| renderer, game rules, prediction, sound, animation, physics, user interface, platform | - | - | not modelled: computation on data, or calls of libraries |

The client and the server exchange messages over two net channels, one in each
direction. On top of them run the two streams of reliable commands. A message
of one stream acknowledges the other, and its contents are keyed with the last
command received on the other. The renderer's main thread hands commands to
worker threads through the queues, and starts, pauses and stops those threads
through one gate each. The workers and the main thread share the effects, which
they enter through the effects gates.

## Modules

### SequencedChannel, Netchan

`SequencedChannel` says what the code above the net channel relies on: messages
are numbered as they are accepted, and handed over complete, as accepted, in
increasing order, or lost. `Supersede` is what a closing sender may do: replace
its last message, which was not handed over. `Break` ends the promise.

`Netchan` is the code, in the direction from server to client. Its variables are
the fields of the two `netchan_t`; `sendingGameState`, `kicked` and
`finalMessages` stand for the program counter of `SV_SendClientGameState`, the
client's fate and the rounds of `SV_FinalMessage`; `interrupted` remembers that
the kick came while fragments were pending, `finalSequence` the number the first
final message got. `sent` holds the message last transmitted under each number
(`Logged`): a message being fragmented has not used its number up. A message is
an opaque value with a length and its bytes are pairs of message and offset, so
that joining the wrong bytes shows. The actions:

| action | code |
|---|---|
| `SendClientMessage`, `SendClientFragment` | `SV_SendClientMessages`: a snapshot, or a fragment if some are pending |
| `BeginGameState`, `DrainFragment`, `SendGameState`, `WithholdGameState` | `SV_SendClientGameState`, which drains the fragments first, and sends nothing if the client's stats are incomplete |
| `KickUnpureClient` | `SV_ExecuteClientMessage`, the pure check |
| `FinalMessage` | `SV_FinalMessage`, called by `SV_Shutdown`: two more messages, then none |
| `Receive` | `Netchan_Process`, with its early returns `ProcessOutOfOrder`, `DropFragment`, `CollectFragment`, `CompleteMessage`, `ProcessWhole` |
| `Stabilize` | not code: from here on the wire is reliable |

The wire is the set of all packets sent, any of which may be handed over at any
time and any number of times; after `Stabilize` it is a queue. `ImplementsChannel`
is the refinement: `sent`, `incomingSequence`, `delivered` map to themselves,
`closing` to a final message having been sent, `broken` to `interrupted`.

The kick and the shutdown both transmit while fragments of another message are
pending, and so under its number. After the kick the frame loop goes on sending
fragments to the zombie, one with which the client may complete a mixture
(`netchan_kick`). After the shutdown nothing follows, and a final message that is
itself fragmented is never sent to its end: the pending message is lost, the
final one takes its number, and no two are joined. That is `IntactDelivery`
with the shutdown in the model.

Bounds: fragments of three bytes instead of 1300, and one message of each kind:
sent whole, an exact multiple, with a shorter last fragment, too long for the
message buffer, too long for the reassembly buffer. Three are sent. There are
two final messages, as in the code; the run of the kick has none, so that its
trace shows the kick alone.

Not modelled: checks of malformed headers, the width of the numbers (a channel
would have to carry 2^31 messages), the queue of the loopback, simulated lag.
A client dropped for another reason needs no action: `SV_DropClient` transmits
nothing on the channel, and the frame loop goes on sending to a zombie.

### ServerCommands

The server's `client_t`, the client's `clientConnection_t` and the cgame's
number, for one client, over two lossy ordered channels (what `Netchan`
promises). `AddServerCommand` is `SV_AddServerCommand` with everything it
calls: `Replaceable` is `SV_CanReplaceServerCommand`, `Kept` and `CulledRing`
`SV_CullIgnorableServerCommands`, `Overflows` the limit at 129, where the
command becomes a notice and `SV_DelayDropClient` is called. `SendSnapshot`,
`SendOverflowedSnapshot`, `SendKeepAlive` and the gamestate of
`ExecuteClientMessage` are the messages of the server; each carries out a
delayed drop as `SV_SendMessageToClient` does. `ReceivePacket` is
`SV_PacketEvent`, with the window check and its consequence.
`ReceiveMessage`, `SendPacket` and `ExecuteServerCommand` are the client.
`log` is history: the command each number stands for.

What is abstracted: a command is a value with the first letter and word that
replacing looks at; a garbled message changes nothing, and `KeysAgree` says when
a message would be garbled; the gamestate is requested by a packet with the
server id of another map, but a packet may also be left unexecuted, because its
moves are missing or the gamestate it has not seen is still under way.
A drop for a second overflow while a snapshot is finished, packets with a
negative message number, and the server's shutdown, which adds a command and
sends two more messages of the kinds above before it stops, are left out.

Bounds: `WindowSize` is 4 or 2 instead of 128; the ring wraps around, because
`MaxCommands` is larger. One message is under way in each direction, and a
new one pushes out an older one. `Backlog` stops the game from issuing commands;
the three runs set it below, at and above the limit of the window, because that
is where the code behaves differently. The run above the limit is also the one
for liveness, which needs the smaller window. A command is added only while at most
`WindowSize + 1` are unsent: with more the server's copying loop would read
slots that it has already overwritten, of a client that is being dropped anyway.

### ClientCommands

`AddReliableCommand`, `SendPacket` and `ReceiveMessage` are the client's
`CL_AddReliableCommand`, `CL_WritePacket` and `CL_PacketEvent`; `ReceivePacket`
and `SendMessage` the server's `SV_ProcessClientCommands` with
`SV_ClientCommand`, and the header of every message. `issued` and `executed` are
history. A message decoded with the wrong key may restore the old
acknowledgement (the parser ran past its end) or not. A command that flood
protection ignores counts as executed: its number is used up.

Bounds: two commands are enough to tell the right one from the one that took its
slot. The ring has three slots and five commands are issued, so it wraps around.
`MCClientCommands.cfg` allows as many outstanding as the ring has slots,
`MCClientCommandsLimit.cfg` one more, which the code allows too.

### WorkerGate

Each action is one load, compare-and-swap, store or event operation of
`sys_worker_gate.cpp`; `controller`, `stopper` and `worker` are program
counters. The controller runs `Sys_SetWorkerThreadActive`, the stopper
`Sys_ShutdownWorkerThread`, the worker `R_WorkerThread`, whose loop has two
pause points. The code uses `compare_exchange_weak`, which may fail for no
reason (`CasMayFail`). In the engine one thread is both controller and stopper;
`ConcurrentStop` lets them be two, which the interface's comments speak of.
The model is finite and complete: there is no bound.

### WorkerQueue

One `WorkerCmds`. Each action is one access to a shared word or slot by one
thread, in the order of `AddWorkerCmd` and `R_ProcessWorkerCmd`. Any thread
submits and executes. `MayBeBusy` allows a thread to leave a non-empty queue,
as the busy predicates do; the model then still claims batches, which allows more
than the code, where the batch is one. The compare-and-swap loops of
`r_worker_queue_atomic.h` are one step each: they retry until they succeed.

Bounds: a ring of two slots, batches of two, and three threads with three
commands, two of which submit: the ring fills, wraps around inside a batch, and
commands are executed inline.

### ReadersWriters, FxGate

`ReadersWriters` is a lock with any number of readers or one writer, whose
writer may become the only reader and keep the others out until it takes the
lock back or opens it.

`FxGate` is the code, one atomic access per step. `pc` says how far a thread is;
`alloc` how far it is in the allocator's lock, which is taken inside an
iteration or a kill as well as outside.

| action | code |
|---|---|
| `BeginIterating`, `SeeGates`, `Join`, `Recheck`, `RollBack`, `Nest`, `EndIterating` | `FX_BeginIteratingOverEffects_Cooperative`, its `Try` form, and the end |
| `RequestGarbageCollection`, `Collect` | `FX_RunGarbageCollection`, `FX_BeginIteratingOverEffects_Exclusive` |
| `BeginSort`, `Sort` | `FX_SortEffects`, `FX_WaitBeginIteratingOverEffects_Exclusive` |
| `BeginKill`, `Kill` | `FX_BeginEffectKillExclusive`, `FX_EndEffectKillExclusive` |
| `Rewind`, `CollectKilled` | `FX_RewindTo`: the downgrade to a reader, its failure, `FX_EndEffectRestartGate` |
| `BeginSave`, `Archive` | `FX_BeginArchive`, `AcquireArchiveGate`, `FX_EndArchive` |
| `BeginRestore`, `Restore` | `RestoreEffectTable` and the archive that follows |
| `BeginReset`, `ResetSystem` | `FX_BeginLifecycleClaim` and what it is claimed for |
| `Allocate` | `FX_EnterArchiveAwarePoolCriticalSection` |

`ImplementsReadersWriters` is the refinement. Who is counted but still rolls
back is no reader: the abstract lock has no entrants, so it says more than that
the word is consistent.

Bounds: a main thread that rewinds, saves, restores and resets and a worker that
iterates, sorts, kills, allocates and restores; two nested iterations; two
saves, restores and resets. A thread with two nested iterations does not
allocate. The same safety properties hold with a second worker
(383 000 states); the proofs are for any number of threads.

Not modelled: the locks of single effects and their owner admission markers, the
free lists of the pools, the physics sidecar. A read of several words that the
reader has locked against change is one step. The reset of a system whose
restore failed (`FX_PublishArchiveSafeEmptyStateLockedWithScratch`, called at
`fx_archive.cpp:2548`) is left out: it begins a new generation inside an
archive. The archiving thread holds the word then and takes over the new
generation, and whoever waited finds another one and gives up, so that it adds
no case to `AdmittedInThisLife`.

### Connection

One client and the server's slots; other players only take slots and leave them.

| action | code |
|---|---|
| `Connect`, `CheckForResend`, `WritePacket` | `CL_Connect_f`, `CL_CheckForResend`, `CL_WritePacket` |
| `Leave`, `CheckTimeout`, `Disconnect` | `CL_Disconnect` and those who call it |
| `ClientReceives` | `CL_ConnectionlessPacket` by kind of packet, `CL_PacketEvent` |
| `ReceiveGetChallenge`, `ReceiveConnect` | `SV_GetChallenge`, `SV_DirectConnect` with `ClientConnect` refusing or not |
| `ReceiveStats`, `ReceivePacket` | `SV_ReceiveStats`; `SV_PacketEvent`, `SV_ExecuteClientMessage`, `SV_SendClientGameState` |
| `SendMessage`, `Kick`, `Dropped`, `Told` | `SV_SendClientMessages`, `SV_DropClient` |
| `Tick` | time, and `SV_CheckTimeouts` |

Every step but `Tick` takes no time. A packet may be taken more than once or
never, and is gone after `MaxDelay` ticks. `current` says of a packet, and
`linked` of the client's net channel, whether it belongs to the session the
server has now: the packets carry no such thing, and `misled` remembers that one
of another session was accepted.

`TimeAssumption` bounds the time a packet lives by what the code's limits allow:
twice `MaxDelay` is less than `sv_reconnectlimit` and no more than
`sv_zombietime` (3 s and 2 s by default). The client repeats a challenge or
connect packet before the server's answer to the first is back, so that the last
one may arrive two delays after the session began. Without either part
`SessionKept` fails. `linked = "old"` is never reached under the assumption; the
step that would lead there is in the model because the code has it.

Bounds: two slots, two connect commands of the player, packets that live one
tick, and time limits in the order of the code's. The wire has one place for
each of the packets that do harm when late (connect, leave, requeststats,
statResponse) and one for the others; a new packet pushes out the one in its
place, which is a loss. `Gone`, the time after which the slot of a client that
left must be free, is exact: with one tick more `SlotFreed` would say less, with
one less it fails.

What the model shows of the code and no property says:

- `SV_CheckTimeouts` drops an active client that is silent for
  `sv_connectTimeout` (45 s), not `sv_timeout` (240 s): below the longer limit
  the test falls through to the one for the other states (`Silent`).
- A requeststats packet that comes late takes a client in the game back to
  sending stats (`cl_main_mp.cpp:1621`). The answer to the stats then makes it
  wait for a gamestate that the server believes to have sent.
- The reconnect limit looks at the first slot with the client's address, even a
  free one (`First`), while the slot for the client is looked for among those in use.

Left out: bans, passwords, ping limits and `firstPing` (which `SV_DirectConnect`
resets at `sv_client_mp.cpp:881` in the challenge whose index is that of the
client's slot), authorization, the server's shutdown, test clients, private slots, and the table of challenges, which always has a
client's own until 1024 others came. The seven stats packets are one. The limit
on connect packets is part of `Leave`. Map changes are in `ServerCommands`.

## What the runs show

| run | properties | distinct states |
|---|---|---|
| `netchan` | `NetchanInv`, `IntactDelivery`, `ReassemblyInBounds`, `ImplementsChannel`, `DeliveryOnceStable`, with kicks and messages too long to rebuild | 707 000 |
| `server_commands` | `ServerInv`, `RingHoldsWindow`, `SentIsFinal`, `MessagesAgree`, `NothingForgotten`, `KeysAgree`, `ExecutesWhatWasSent` | 2 050 000 |
| `server_commands_live` | `OverrunIsFatal`, `SentArrives`, with more commands than the ring holds | 91 000 |
| `client_commands` | `ClientInv`, `ExecutesIssued`, `KeysAgree`, `KeptUntilExecuted`, `IssuedIsExecuted` | 50 000 |
| `worker_gate` | `NeverFails`, `PausedIsQuiet`, `PauseReturns`, `ActivatedWorks`, `ShutdownEnds` | 2 500, complete |
| `worker_queue` | `QueueInv`, `ExecutedOnce`, `DrainedMeansDone`, `ChecksHold`, `SubmittedIsExecuted` | 87 000 |
| `fx_gate` | `ChecksHold`, `AllocatorsExcluded`, `LeaseExcludes`, `AdmittedInThisLife`, `ImplementsReadersWriters`, `KillGetsIn`, `ArchiveEnds` | 54 000 |
| `connection` | `ConnectionInv`, `InTheGameTogether`, `SlotFreed`, `SessionKept` | 2 452 000 |

`NetchanInv`, `ServerInv`, `ClientInv`, `QueueInv` and `ConnectionInv` are the
inductive invariants of the proofs below, each with the module's `TypeOK`; TLC
checks them so that a proof is never attempted of something false. Those of
`WorkerGate` and `FxGate` are left to the prover.
`ConnectionInv` also says that no client has two slots (`OneSlot`).

Four runs expect a violation; each shows where the code and what is written
about it part:

- `netchan_kick`: the kick of an unpure client transmits while fragments of
  another message are pending, under the same number. The client rebuilds a
  message that the server never sent.
- `server_commands_limit`: 128 commands may be outstanding, but an
  acknowledgement is believed only within 127; the first packet of a client
  that has received none of the 128 makes the server forget them all.
- `client_commands_limit`: the client lets 129 commands be outstanding in a ring
  of 128, and the server executes the newest under two numbers.
- `fx_rewind`: a thread that saw the gates open before a rewind closed them may
  be counted just after the rewind became a reader. The rewind then fails, and
  neither it nor the error clean-up takes its own iteration out of the word: the
  effects are never owned by one thread again.

Some properties are stated with a condition the code makes necessary.
`PauseReturns` excepts a worker that is shut down while another thread waits for
its pause: the loop of `R_WorkerThread` tests the latch first and may leave
without passing a pause point, although `sys_worker_gate.cpp:230` speaks of
releasing the waiting controller; in the engine one thread pauses and stops.
`KeysAgree` of `ClientCommands` excepts an acknowledgement that is a full window
old, whose command has just been overwritten: such a message is lost on the
client, and the model lets it be.
`IntactDelivery` excepts a client that was kicked while fragments were pending,
`DeliveryOnceStable` one that was kicked or whose server shuts down,
`KillGetsIn` and `ArchiveEnds` a word that a failed rewind has left counted,
for the reasons the violations show. `InTheGameTogether` excepts a client or a
server that took a packet of an earlier session for one of this.

### Fairness

`Netchan`: the frame loop goes on sending fragments, the drain loop runs, and a
stable wire hands packets over; nothing says that a message is ever sent.
`ServerCommands` and `ClientCommands`: server and client send messages for ever
(`SV_Frame`, `CL_Frame`), and of the messages that bring something new infinitely
many get through, which is what a lossy network is assumed to do: its losses do
not depend on what is in a packet. Strong fairness on receiving is needed because
every loss disables it. `WorkerGate`: every thread that can run does; a weak
compare-and-swap that is retried in a loop succeeds in the end. `WorkerQueue`:
every thread runs; a spinning producer gets a guard that is free again and
again; someone keeps looking for commands, as the main thread does in
`R_ProcessWorkerCmdsWithTimeout` until the queues are drained. The busy test that
a producer repeats before it executes a command inline is not a step: that it
comes out well in the end is part of the fairness.
`FxGate`: a thread that spins on a word sees it open if it is open again and
again, and what a thread does inside an iteration ends. Strong fairness is what
a spin loop gets from a scheduler that does not conspire with the others; that
nobody starts anything new for ever is not assumed, and new iterations are
what could starve a kill.
`Connection` states none: that a client gets into the game is not true of the
code (a late requeststats, above), and `SlotFreed` says what must happen by a
time limit, as an invariant.

CHECK_DEADLOCK is off in all runs, because the bounds end the behaviours of the
network models, and programs that have stopped their workers or submitted their
last command stop.

## What is proved

`Netchan_proofs`, for all messages, lengths, sizes and bounds:

- `Invariance`: `Spec => []NetchanInv`, which is `interrupted \/ IntactInv`, and
  only a kick interrupts. `IntactDelivery` says nothing of messages half sent, so
  it is not inductive. The strengthening has a part for each place a message can
  be: `SenderInv` (a number is held by the message being fragmented or by none;
  until it is used up nothing of it is handed over, and only full fragments of it
  are under way), `WireInv` (every packet is a part of the message logged under
  its number, and a fragment that is not full is its end), `ReceiverInv` (the
  bytes collected are a prefix of one message). From the first final message on,
  numbers are `GivenUp` to fragmented messages: only full fragments of them
  travel, mixed or not, so that none is completed. A kick while fragments are
  pending breaks `SenderInv`, because the server goes on, and `netchan_kick`
  shows that it breaks delivery too.
- `HandedOverIntact`: its consequence.
- `InBounds`, `TypeCorrect`: also after a kick, from `BoundsInv`, which keeps
  what a kick does not break: the cursor is inside a message of the server, and
  what travels whole is shorter than a fragment.
- `Implements`: `Spec => ImplementsChannel`, by the invariant and one lemma for
  sending and one for receiving. `Supersede` is allowed because the number a
  final message takes over is above the last one handed over.

`WorkerGate_proofs`, for both values of its constants:

- `Invariance`: `Spec => []GateInv`. It says for each step of each thread what the state
  may be: only the controller leaves Created, Running and Parked, only the worker
  leaves PauseRequested, so that a value loaded is still there when it is swapped.
- `NoAbort`, `PauseIsSafe`: no abort is reached; a paused worker holds no command.

`FxGate_proofs`, for any finite set of threads, whatever each may do, and any
bounds:

- `Invariant`: `Spec => []FxInv`. `KillInv`, `ArchiveInv`: a gate has one owner,
  which knows its value. `WordInv`: the word is -1 exactly for its owner, or
  counts the nested iterations of all threads and those that leaked.
  `LeaseInv`, `AllocatorInv`, `LifeInv`: who is past his last look at the lease,
  at the allocator's gate or at the generation keeps the others from getting as
  far; these are what makes the last look enough. The proof first sorts the
  actions into kinds by what they do to one word, then shows that each part
  survives each kind.
- `TypeCorrect`, `ChecksSucceed`, `PoolsAreStill`, `LeaseHandshake`, `OneLife`:
  its consequences.
- `GateIsALock`: `Spec => ImplementsReadersWriters`.

`ClientCommands_proofs`, for any commands, window, bounds and number of messages
under way:

- `TypeCorrect`, with any number of commands outstanding.
- `Invariance`: `Backlog <= WindowSize` implies `Spec => []ClientInv`. The
  condition is the one under which the code is right: `client_commands_limit`
  is the counterexample with one command more. `ExecutesIssued` looks only at
  what has been executed. The strengthening follows a command from the player to
  the server: the client's ring holds the last `WindowSize` commands (`RingInv`);
  every packet under way is a piece of the history that starts no later than with
  the first command the server lacks (`PacketInv`); the messages coming back
  acknowledge more and more, none of them more than was executed (`MessageInv`).
  The order of `MessageInv` is what keeps the client's acknowledgement from going
  back: the channel loses messages but does not reorder them.
- `Execution`, `NoneLost`, `KeysFound`: its consequences `ExecutesIssued`,
  `KeptUntilExecuted` and `KeysAgree`.

`ServerCommands_proofs`, likewise:

- `TypeCorrect`, `Final`, `Overrun`, with any number of commands outstanding:
  the types, `SentIsFinal` and `OverrunIsFatal`. They need only that numbers
  grow on their way from the server to the client and back (`NumbersInv`), and
  that replacing and culling touch nothing that was sent.
- `Invariance`: `Backlog < WindowSize` implies `Spec => []ServerInv`. Again the
  condition is needed: `server_commands_limit` has `Backlog = WindowSize`.
  `RingInv` has two cases. The server believes what the client told it, and then
  its ring holds every command from the last acknowledged on; or it has dropped
  the client, whose notice fills the window, and then may take everything for
  acknowledged, which does no harm because no command is added any more.
  `MessagesInv`: no message leaves out a command the client lacks, so that the
  client's numbers have no gaps. `ClientInv`: the client's ring holds the last
  `WindowSize` commands up to the one it stored last, and its packets are keyed
  with them.
- `WindowHeld`, `SameUnderEachNumber`, `NoneForgotten`, `KeysFound`,
  `Execution`: its consequences `RingHoldsWindow`, `MessagesAgree`,
  `NothingForgotten`, `KeysAgree` and `ExecutesWhatWasSent`.

Most of the proof is about culling: `Kept` names the commands that stay by how
many stay before them, so it has no recursion, and the lemmas show that it is
increasing, leaves out only ignorable commands and changes no number already
sent. In `TypeOK` the messages under way are described one by one (`IsMessage`)
and not as members of a set of functions, which TLC could not enumerate.

`WorkerQueue_proofs`, for any finite set of threads, commands, slots and size of
a batch:

- `Invariance`: `Spec => []QueueInv`. `GuardsInv`: one producer and one consumer
  at a time. `CountsInv`: the counters are what is in the ring plus what the
  threads hold, as a sum over the threads. `WindowInv`: where the two cursors
  stand, although a batch is half copied and a slot half written.
  `CarriedInv`, `QueuedInv`, `CopiedInv`, `DoneInv`: every command that was
  submitted and not executed is in exactly one place: carried by a thread, in
  the window of the ring, or in a batch. None of the three properties is
  inductive: that no slot is read before it is written rests on the counters,
  and these on who holds the guards.
- `Once`, `Drained`, `Checks`: `ExecutedOnce`, `DrainedMeansDone`, `ChecksHold`.

`Connection_proofs`, for any number of slots and all times that `TimeAssumption`
allows:

- `Invariance`: `Spec => []ConnectionInv`. It bounds the age of everything a late
  packet can do harm with. `SlotsInv`: the client's slot is the first that
  remembers its address, and a slot that was connected lately was heard lately.
  `SessionInv`: the present session is no older than a response of it, and at most
  one delay older than a connect packet; with twice the delay below the reconnect
  limit, a late one is refused. `GoneInv`: how long a client can have
  been gone while a slot is still its own, by what the slot is waiting for.
- `NoSecondSlot`, `Together`, `Freed`, `Kept`: `OneSlot`, `InTheGameTogether`,
  `SlotFreed` and the action property `SessionKept`.

`RingFacts` has the arithmetic the rings need: numbers less than a window
apart have different slots, and a position moves around the ring by addition.

What the theorems assume is the ASSUME of each module (sizes are naturals, the
window has more than one slot, the threads are finitely many, the times of
`TimeAssumption`) and, where a theorem says so, the condition on `Backlog`.
Loss and order of the channels are as modelled.

Model-checked only: liveness (`DeliveryOnceStable`, `SentArrives`,
`IssuedIsExecuted`, `PauseReturns`, `ActivatedWorks`, `ShutdownEnds`,
`SubmittedIsExecuted`, `KillGetsIn`, `ArchiveEnds`), because fairness and ENABLED
are beyond the prover. Every safety property of a passing run is proved.

## Plan

Done: `SequencedChannel`, `Netchan`, `ServerCommands`, `ClientCommands`,
`WorkerGate`, `WorkerQueue`, `ReadersWriters`, `FxGate`, `Connection`, and the
proofs of their safety properties. Next, in this order:

1. An abstract stream of commands (each executed once, in order, or the client
   dropped) that `ClientCommands` and `ServerCommands` implement.
2. `FastFile`: the hand-off of zones between the main, the renderer and the
   database thread (`database/db_registry.cpp`, `db_load_atomic.h`,
   `qcommon/threads.cpp`), with the recovery of a lost device, which must not
   meet a load.
3. `SnapshotDelta`: the frames a snapshot may be a delta of. Property: the base
   the server chose is one the client still holds.
4. `Downloads` (`dl_main.cpp`), `ThreadHandoff` (`sys_sync.cpp`, `threads.cpp`),
   `ScriptStrings`.
5. `Session`: the two command streams composed over `SequencedChannel`, with
   their keys.

## Not modelled

The renderer's drawing, the game and client game rules, prediction, movement,
sound, animation, physics and the user interface are sequential computation on
floating-point data, where a state machine has nothing to add. Message encoding
is bit packing; the models take a message as a whole and say which key it needs.
The script interpreter is too large for a model shorter than it. Commands,
dvars, files and memory are sequential services. Platform backends call the
operating system and libraries, whose events, threads and atomics the models
take as given. The single-player client and server share the code of the game
and have no network that loses packets.
