# Specifications of the Learning gem5 code

TLA+ models of the programs that the *Learning gem5* book builds: the MSI
cache coherence protocol of part 3, the objects of part 2, and the scripts of
parts 1 to 4 that build systems of them. The modules are translated from the
sources under `src/_static/scripts`; line numbers below are of those files.

## The system and its parts

The repository is a book with the code it develops. The code that has state
and behaviour of its own is small:

| Part | Source | State | Operations | Interacts by |
| --- | --- | --- | --- | --- |
| MSI L1 cache controller | `part3/MSI_protocol/MSI-cache.sm` | a state, a block and a TBE for each line | 3 in_ports, 27 transitions | messages on three virtual networks, calls to the Sequencer |
| MSI directory controller | `part3/MSI_protocol/MSI-dir.sm` | state, owner and sharers for each line | 3 in_ports, 20 transitions | the same networks, a queue to memory |
| messages, buffers, network | `MSI-msg.sm`, `part3/configs/msi_caches.py` | ordered buffers | deliver | |
| SimpleMemobj | `part2/memoryobject/simple_memobj.cc` | blocked flag, a kept packet and retry flags for each port | requests, responses and their retries | calls across timing ports |
| SimpleCache | `part2/simplecache/simple_cache.cc` | the same, an upgraded packet, a store of blocks | the same, access, insert, evict, functional access | calls across timing ports, one scheduled event |
| HelloObject, GoodbyeObject | `part2/parameters`, `part2/events` | counter; message buffer | timed events | calls, the event queue |
| NMRU tags | `_static/patches/nmru-tags` | recency order of a set | access, insert, victim, invalidate | calls of a gem5 cache |
| classic configurations | `part1`, `part2/memoryobject`, `part2/simplecache` | the objects made, the ports connected | make an object, connect two ports | binding ports; then requests from port to port |
| full system configurations | `part4` | the same, address ranges, the E820 and MP tables | the same | the same, over two buses and two bridges |
| Ruby configurations | `part3/configs` | the same, links and version numbers | the same, link two nodes, check what cannot work | requests, and messages over the switches |

What makes each of them correct, and hard to test:

* **MSI.** One writer or many readers, readers see the last write, each
  request and each eviction is answered once, and nothing is stalled for ever.
  The hard part is the races: an eviction against a forward or an
  invalidation, acknowledgements against the data that tells how many there
  are, puts that the directory's state has overtaken, requests for a line that
  waits on memory, stalls in one queue against messages for another line. The
  debugging chapter of the book (`part3/MSI/debugging.rst`) tells how a random
  tester with two CPUs met some of them.
* **SimpleMemobj and SimpleCache.** At most one request is on the memory side;
  nobody's packet is lost or sent twice; whoever is refused is asked again;
  and the cache with its memory behaves as one memory. The hard part is who
  may call whom when: a call to the CPU may come back with its next request
  before the handler is done, and either peer may refuse.
* **HelloObject and GoodbyeObject.** The simulation ends at the tick that the
  parameters say, with the buffer full. The hard part is the arithmetic at the
  edges (no firings, a buffer of no byte, ticks added as floats) and two
  objects that share a third.
* **Configurations.** Each port is connected once and to one that exists, each
  address has one owner, every request gets to it and on the way past every
  cache that may hold the line, and the tables handed to Linux describe the
  system that was built. A test boots one system and sees few of the addresses;
  what goes wrong here goes wrong between two scripts, or between a script and
  a table.
* **NMRU.** The victim is never the most recently used block of a full set.

`PROJECT.json` lists the hazards with their lines and the properties aimed at
them.

## Modules

| Module | Models |
| --- | --- |
| `MSIMsg` | messages, virtual networks, delivery; panics |
| `MSICache` | the L1 cache controllers and the Sequencer as they use it |
| `MSIDir` | the directory controller and memory |
| `MSI` | their composition, fairness, the type invariant |
| `MSIProperties` | safety, refinement and liveness properties of `MSI` |
| `CoherentMemory` | the abstract specification: a memory with permissions |
| `MSIProofs` | types; the directory against memory; blocks, TBEs and the Sequencer's requests |
| `MSILineSteps` | the invariant of one line, and what each step does to it |
| `MSICoherenceProofs` | coherence: the handlers, and theorems about messages and permissions |
| `MSIDataProofs` | where the data is; refinement of `CoherentMemory` |
| `MCMSI` | instances of `MSI` for TLC |
| `SimpleMemobj` | the memory object, with CPU and memory as its environment |
| `SimpleMemobjProofs` | theorems about `SimpleMemobj` |
| `SimpleCache` | the cache, with CPU and memory as its environment |
| `AtomicMemory` | the abstract specification: accesses that take effect at once |
| `SimpleCacheProofs` | theorems about `SimpleCache`; that it implements `AtomicMemory` |
| `MCSimpleCache` | instances of `SimpleCache` for TLC |
| `HelloGoodbye` | HelloObject and GoodbyeObject on the event queue, what they promise |
| `HelloGoodbyeProofs` | theorems about `HelloGoodbye` |
| `MCHelloGoodbye` | its instance for TLC |
| `SimObjects` | objects, ports, statements of a script, addresses |
| `ClassicConfigs` | the scripts of parts 1 and 2 |
| `FullSystemConfigs` | the systems of part 4, for one CPU and for several, and their tables |
| `RubyConfigs` | the systems of part 3: controllers, sequencers, network |
| `Configs` | runs a script, then routes requests in the system it has built |
| `ConfigProperties` | what a configuration must get right |
| `ConfigProofs` | theorems about every configuration script |
| `MCConfigs` | the builds for TLC |

### How the MSI modules correspond to the code

Each SLICC `transition` statement is one action, named `<state>_<event>` after
it; a statement for several states or events is one action with sets of them
in its guard. Each SLICC `action` is an operator of the same name, on a line
(`MSICache`), on a directory entry (`MSIDir`) or on a channel; a transition
applies them in the order the statement lists them. The guards `Mandatory`,
`Replacement`, `Forwarded`, `Responded` and `Requested` are the code of the
in_ports. A `stall` is the absence of a step: the message stays at the head of
its queue and blocks what is behind it. A failed assertion, and an event in a
state without a transition (`CacheTransitions`, `DirTransitions`), set
`panicked`, after which nothing happens.

A line's state is kept once: `setState` writes it to TBE and block alike, and
`getState` reads it from whichever is there. Data are members of a small set;
`latest`, the last value stored to a line, is a history variable. Memory's
answer and the step of the directory's `memQueue_in` that takes it are one
action, and memory may answer in any order; this is sound as long as a line
has at most one request there, which `OneMemoryRequest` checks and
`MemoryAlwaysConsistent` proves.

Channels are one FIFO queue per sender, receiver and virtual network, because
every buffer is created with `ordered = True` and the network is
point-to-point. At the receiver, requests of all caches merge into one queue
(`requestFromCache`), whose head may be stalled; response buffers are never
stalled and forwards have one sender, so these need no merged queue.

The Sequencer, `CacheMemory` and the network are gem5's, not in this
repository: they are modelled from how the controllers use them. The Sequencer
issues at most one request for a line. Any block of a full set may be the
victim, whatever the replacement policy.

### How the memory object and the cache correspond to the code

A handler is one action up to its calls to the CPU. The CPU may call back
within those, so what the handler has still to do is a list (`calls`), and its
entries are taken one at a time, with requests of the CPU in between:
`handleResponse` (SimpleMemobj 184-209) and `sendResponse` (SimpleCache
241-263) put there the response and one `trySendRetry` for each port.
`recvTimingReq` may thus run as a request of its own or nested in either call.
CPU and memory follow the timing protocol of `part2/memoryobject.rst:100-136`:
who is refused sends again only when retried, and the CPU has no request
refused and another sent at the same port. The CPU does not send a request
from within a response which it then refuses.

In `SimpleCache` a block has named words so that an access is a whole block or
a part of one, which makes the difference between forwarding and upgrading a
miss (294-329). The victim of an eviction is any block. Memory applies a write
when it accepts it and reads when it answers. Functional writes
(`HandleFunctional`) happen while the cache handles no access.

### How HelloGoodbye corresponds to the code

An action is the processing of one event: `FireAgain`, `SayGoodbye` and
`DoneFiring` are `HelloObject::processEvent` by its branches,
`ProcessGoodbye` is that of the GoodbyeObject, and `fillBuffer` with
`bytes_copied` and `CopiedAt` is the method of that name. The queue gives the
events of one tick in any order, an exit event last, as its priority says.
`curTick() + bandwidth * bytes_copied` is a sum of floats in the code
(`goodbye_object.cc:86`, `:90`), so `Float` rounds to `FloatBits` bits.
Scheduling for a tick that has passed, or an event that is scheduled already,
is gem5's assertion and makes the status `"panic"`. The parameters are chosen
in `Init`. A HelloObject without a GoodbyeObject is that of `part2/events`.

### How the configuration modules correspond to the code

A script is a sequence of statements and `Configs` executes one in a step:
`New`, `Bind` (an assignment of ports), `Link`, `Check` (an `if` that ends in
`fatal`) and `Instantiate`. Each function or constructor of the scripts that
makes objects is an operator of the same name that yields its statements in the
order the code has them; loops over CPUs or caches are `ForEach`. A statement
that names an object that is not made yet, or a port that does not exist, has
the wrong role or is taken, ends the script, as does a port that must be
connected and is not at `Instantiate`, two owners of one address at a crossbar,
or a virtual network that the network does not have. `versionCount` of the
controller classes is the variable `versions`.

Then the system takes one request or message at a time (`SendRequest`,
`SendMessage`), and every object it comes to passes it on (`Travel`): a
crossbar by the address ranges of its ports, a cache, bridge or memory object
to its other side, a sequencer to its controller, a switch over its links to
the controller with the message's class and version. Caches always miss, so a
request goes the whole way. Crossbars, bridges, switches and devices are gem5's
and modelled from how the scripts use them; `Pc` is the platform of x86 with
the devices the scripts give no ranges of their own.

An address is a pair: the number of a 2^60-byte space and a kB in it. Whether
two ranges overlap is decided at the addresses the scripts name (`Addresses`):
the ends of each range, and what is next to them.

`x86_mp.py` has no `MySystem` of its own: the one modelled (`init_fs_mp`)
takes its tables, and makes CPUs, caches and APICs for each CPU in a loop
over what `system.py` does for one.

## What the runs check

| Run | Checks | States |
| --- | --- | --- |
| `coherence` | `TypeOK`; `SWMR`; `OneAnswerPerRequest`, `AcksAccounted`: where requests, puts and acknowledgements are; `DirectoryConsistent`, `OneMemoryRequest`, `CopiesTracked`: the directory against memory and caches; `OnlyPutSPanics`; `DataValue`; `QuietAgreement`: everything agrees when nothing is in flight; `RequestsNeverOnlyCopy`; refinement of `CoherentMemory` | 179,000 |
| `liveness` | `AllocationMatchesState`: blocks, TBEs and waiting requests when lines evict each other; `RequestsAnswered`, `EvictionsEnd` | 37,000 |
| `put_assert`, `put_waiting` | show the two ways a PutS ends the simulation | |
| `memobj_refusing` | `RequestsAccounted`, `RetryOwed`, `OnlyRefusingPortsPanic`, `RetriesSentIfTaken` | 144 |
| `memobj_lost_retry` | shows the lost retry | |
| `cache_data` | `PanicFree`, refinement of `AtomicMemory` | 58,000 |
| `cache_refusals` | `OnePacketAtWork`, `CapacityKept`, `OnlyLostWritebackPanics`, refinement of `AtomicMemory`, `RequestsHandled`, `RetriesSent` | 11,000 |
| `cache_writeback_lost` | shows the lost writeback | |
| `hello` | `ExitsOnTime`, `OnlySharedOrLatePanics`, `Ends` | 128,000 |
| `configs` | `OnlyUnsupportedAbort`: a script ends in an error exactly if what it is asked for cannot work; `RightTarget`, `NoRoundTrip`, `Answered`: where requests end up (the first without the address of which code and comment differ, the others without the hole that `io_hole` is for); `SnoopedByAll`, `PrivatePath`: by which way; `MessagesArrive`: the Ruby network; `TablesDescribeSystem`: E820 and MP tables | 2,700 |
| `io_hole` | shows the request that goes round | |

Every property has a mutant in `PROJECT.json`: an operator beside the original
(marked "seeded fault") that is wrong the way the code might have been, with
which the property fails.

### Bounds

* `coherence`: three caches are what the races need (a writer, a sharer or
  owner it takes the line from, and a third whose request or put overtakes),
  and one line is enough since lines meet only in the queues and in the ways
  of a set. Other lines are present as causes of evictions (`OtherLines`), so a
  block may be replaced at any time. Caches are symmetric.
  Two values tell a stale one from the latest. `MaxUnderWay` = 3 bounds the
  requests and evictions under way at a time (`FewUnderWay`): all three caches
  may ask, or two puts cross a request; without the bound the run holds too,
  with 721,000 states, but takes several times as long.
* `liveness`: two caches and two lines that compete for one way, with the
  requests cut down to two caches that store to one line and load the other,
  crosswise. This is the least that makes each wait for the other's line, with
  evictions in between, and what waits for room.
* No counter needs a bound: the Sequencer's one request per line bounds every
  queue.
* `SimpleMemobj`: `MaxUnanswered` = 2 requests accepted at a port and not
  answered: one held at the port, one more at memory, as the object accepts no
  third.
* `SimpleCache`: two ports, one of which only reads; two blocks and room for
  one, so that every miss after the first evicts; blocks of two words, where
  the CPU accesses one or both. `cache_data` has two values and memory that
  refuses; `cache_refusals` has one value and everyone refuses everything, so
  what it refines of `AtomicMemory` is that each request is answered once and
  by its own packet. A refused response's data is that of the packet the port
  keeps. Neither refinement sees a lost writeback (the first run has none, the
  second has one value): `EvictedWrittenBack` is for that.
* `hello`: two HelloObjects and two GoodbyeObjects, in every way of naming one,
  the same or none. The event is late by 0 or 3 ticks and fires -1, 1 or 3
  times; the message has 2 bytes and buffers 0, 1, 2 or 6, so that a buffer is
  empty, only has its last byte, cuts the message, or takes it several times and
  then cuts it. Floats of 3 bits are exact up to tick 8, which the
  longest goodbyes pass.
* `configs`: each script as it is, `x86.py` with memory up to and below the I/O
  gap, `x86_mp.py` with one and two CPUs, and every Ruby system with what its
  code checks for: a protocol it was not built with, two memory controllers,
  lines of 48 bytes; `ruby_test.py` without the module `ruby_caches` that it
  imports, as in the repository, and with it. More CPUs repeat what the second does.

### Fairness

* MSI: a controller is woken while one of its buffers has a message, so its
  steps on responses, on forwards and on the directory's requests are weakly
  fair, as are memory's answers and delivery. A step on the mandatory queue is
  assumed only while no forward is stalled. A stalled message has no step, so
  nothing is assumed of it.
* SimpleMemobj, SimpleCache: a handler runs to its end, an event that is
  scheduled fires, memory answers what it accepted (weak fairness); whoever
  refuses retries and accepts in the end, however often it refuses again
  (strong fairness of an accepted retry), which is what the timing protocol
  obliges the peers to.
* HelloGoodbye: `simulate()` takes the next event until an exit event (weak
  fairness of `Next`).
* Configs: an object handles what it is sent (weak fairness of `Travel`);
  nothing obliges anyone to send.

Deadlock is not checked where an assertion may end the simulation, where it
ends as it should (`hello`), and in `configs`, where a script may end in an
error.

## What is found

* **A PutS that finds another sharer** (`put_assert`): `MSI-dir.sm:256` asserts
  that the only sharer is the sender of the PutS. A cache invalidated while its
  PutS is under way (`SI_A` to `II_A`) is no sharer when it arrives, and some
  other cache may be the only one.
* **PutSLast while waiting on memory** (`put_waiting`): the stall of
  `MSI-dir.sm:544` is for GetS and GetM, and `SS_m` has no transition for
  `PutSLast`. (Nor has `S_m`, but there the reader is a sharer, so that no PutS
  is the last sharer's: `ReaderIsNotLast`.)
  `OnlyPutSPanics` checks that nothing but these two ends the simulation.
* **A lost retry** (`memobj_lost_retry`): `SimpleMemobj::recvRespRetry` does not
  send the retry that the blocked response held back. (SimpleCache does.)
* **A lost writeback** (`cache_writeback_lost`): `simple_cache.cc:383` ignores
  that memory refused the writeback: the data is gone, and memory's retry fails
  the assertion at line 173.

* **The I/O hole** (`io_hole`): the first MB at 3 GB is in `mem_ranges`
  (`system.py:54`), which the I/O cache takes (`x86.py:85`), and behind the
  bridge, so a request for it goes round between the two buses.

`OnlyRefusingPortsPanic` admits one panic: `SimpleMemobj` accepts a request at a
port that keeps a refused response, and panics at its answer.
`OnlySharedOrLatePanics` admits two: a GoodbyeObject that two HelloObjects share
schedules its event twice, and ticks past what a float holds exactly may be
rounded to one that has passed.

Not checked, but met on the way:

* `forwardEviction` (`MSI-cache.sm:618`) is used by no transition, though
  `part3/MSI/cache-transitions.rst` shows it in four.
* The comment at `x86.py:180` reserves "the last 16kB", the entry 64 kB.
* `AddrRange(0xC0000000, 0xFFFF0000)` includes its end, which the comments
  exclude (`x86.py:48`, `x86.py:174`): the bridge takes the first address of what
  is reserved for m5ops. The model has the range as the code has it;
  `RightTarget` says nothing of that one address.
* `ruby_test.py:43` and `test_caches.py:44` import from `ruby_caches`, a module that
  is not in the repository, so that `ruby_test.py` ends in an ImportError. The
  model has that import as the script's first check, on `ruby_caches` of the
  build: FALSE for the repository as it is, and `OnlyUnsupportedAbort` counts
  such a build as not supported. TRUE stands for a module that gives the
  classes asked for, and lets the rest of both files be checked too.
* The buffer of a GoodbyeObject is never terminated, and its last byte not
  written.

## What is proved

The theorems hold for every value of the constants that the assumptions allow:
any finite set of caches, any sets of lines, data and addresses, any number of
ways, workload, capacity and bound, any objects, parameters, message and number
of bits in a float (`MSIConstants`, `CacheConstants`, `MemobjConstants`,
`HelloAssumption`), a view and a missing block that are no data
(`NothingIsNoData`, `NoneIsNoBlock`), any set of builds of the scripts
(`BuildsAreRecords`: any number of CPUs where the script has a loop, any memory of
more than 1 MB up to the I/O gap, either protocol, any number of memory
controllers, whatever the protocol gem5 was built with and the length of a line).
`PROJECT.json` lists them with the properties of the runs they state; here is how
they go.

### MSI: types, directory and memory (`MSIProofs`)

* `TypeCorrect`: `Spec => []TypeOK`. Each operator on a line or an entry yields
  one, each message sent has the type of its channel, and the head of a channel
  has it too; then every action keeps the types, and every fault is one of
  `Fault`.
* `DirectoryAlwaysConsistent`: `Spec => []DirectoryConsistent`, the assertions
  of `setState` and on the owner among it.
* `MemoryAlwaysConsistent`: `Spec => []OneMemoryRequest`, which is what allows
  memory to be a set.

The last two need each other. When memory answers a read in `M_m` the entry
becomes that of a line in `M`, which holds because the entry had one owner;
and the answer is to that owner, because the directory queued one request
and takes no other while it waits. `OneMemoryRequest` alone is not inductive,
since it names the owner; so `DirInv == DirectoryConsistent /\
OneMemoryRequest` is the inductive invariant.

### MSI: blocks and TBEs (`MSIProofs`)

`AllocationAlwaysMatches`. The inductive invariant `AllocInv` states the
property line by line and adds that the mandatory queue of a cache holds one
request for a line, of the kind that is outstanding (`QueueAgrees`): only so is
the request that a transition takes from the queue the one its callback
answers.

### MSI: coherence (`MSILineSteps`, `MSICoherenceProofs`)

None of `SWMR`, `OneAnswerPerRequest`, `AcksAccounted`, `CopiesTracked` and
`OnlyPutSPanics` is inductive, nor are they together: whether a cache may act
depends on where the line's transactions stand, which no variable says. The
inductive invariant `LinesInv` says that for each line there are values that
describe it:

| Value | Says |
| --- | --- |
| `stage[c]` | where the one request or put of cache `c` is: sent, arrived, at memory, forwarded, answered, acknowledged, or none |
| `by[c]` | who has been asked to answer it, or has answered |
| `chain` | the caches that own the line or will: the first has the data or is to get it, each other waits for the one before it |
| `inv`, `ack` | the caches with an Inv to come for the first of the chain, and those whose InvAck is under way |

`LineInv` is then twenty conditions that each relate a few of these to what the
line sees: the messages to stages (`SentOK` to `InvAckSentOK`), stages to states
(`StageOK`), the chain to owners (`OwnersOK`, `LinksOK`) and to the directory's
entry (`EntryOK`, `MemoryOK`, `ReaderOK`, `SharersOK`), copies to sharers and Invs
(`CopiesOK`), and the count in a TBE to `inv` and `ack` (`AcksOK`). Handoffs of
ownership are what needs the chain: a directory in `M` forwards GetM after GetM
while the first writer still waits for its acks, so any number of caches may
each wait for the one before.

`ChannelInv` is the other half: no channel holds a message twice, so that sets
of messages may stand for queues, and a PutAck is the last message for its line
on its channel, since a cache forgets the line when it takes it.

A step concerns one line and leaves what the others see as it is. `MSILineSteps`
has a lemma for each way in which a step changes what its line sees, stated
about views and independent of the channels; `MSICoherenceProofs` brings each
handler to the lemma for it. Then:

* `SingleWriter`: a cache in `M` is first of the chain, and whoever else might
  read is in `inv`, which only a waiting owner has.
* `CopiesAlwaysTracked`: from `CopiesOK`, `OwnersOK` and `EntryOK`.
* `EveryRequestAnsweredOnce`: the places of a request are in one-to-one
  correspondence with its stage.
* `AcksAlwaysAccounted`: both counts are `Due`, the cardinality of
  `inv \cup ack`.
* `OnlyThePutSPanics`: the stage of a message allows its receiver only states
  that have a transition for it. What is left are the two PutS of the
  directory; in `S_m` the reader is a sharer that waits for its data
  (`MemoryOK`, `CopiesOK`), so a PutS there is never the last sharer's.

### MSI: data (`MSIDataProofs`)

`DataInv` says where the value of the last store is: in every block of a state
in `Copied`, and of an evicting cache that has a forward to answer or no PutAck
yet; in every Data message; in a write that memory has queued; in memory while
the directory is in `I`, `S`, `S_m` or `M_m`; and a PutM of a cache that still owns
the line carries its block. A store keeps it because the writer has the only
copy (`WriterHasOnlyCopy`, from `LinesInv`). Then:

* `ReadersHaveLatest`: `Spec => []DataValue`.
* `DataNeverOnlyInRequests`: the first of the chain has the data or an answer
  with it is under way; without a chain it is at memory or on its way there.
* `QuietMeansAgreed`: without messages all stages are none, `inv` and `ack` are
  empty and the chain is one cache or none. A cache that waits for acks alone
  would have some to wait for (`AcksAwaited`, an invariant of its own, as
  `Waits` depends on what the data messages say).
* `CachesImplementCoherentMemory`: `Spec => ImplementsCoherentMemory`. A step of a
  cache issues a request, answers a load with the latest data, answers a store,
  or changes no line but for one that a CPU then sees as before or not at all
  (`CacheSteps`): the steps `Issue`, `Load`, `Store`, and `Lose` or a stutter. Where
  a store happens no other cache sees the line, by `SWMR` after the step.

### SimpleMemobj (`SimpleMemobjProofs`)

`MemobjTypeCorrect`, `MemobjRequestsAccounted`, `MemobjRetryOwed` and
`MemobjOnlyRefusingPortsPanic`, from one inductive invariant, `MemobjInv`. It adds
to the properties that the calls left are a suffix of those of one
`handleResponse` (`CallsLeft`), so that only the first can be a response; that a
port with a retry to come has room for the request (`RoomForRetry`); and that
only a port that may refuse has a response kept for it.

### SimpleCache (`SimpleCacheProofs`)

`CacheInv` is the inductive invariant. A cache is in one stage (`OneStage`): idle;
about to access; with the packet forwarded as it came; or with an upgraded
packet on the memory side for the one that waits. It adds that only the first
of the calls left is a response and its port is free for it, and that a memory
that refused a packet owes a retry for it, unless it was a writeback that was
lost. From it: `CacheTypeCorrect`, `CacheOnePacketAtWork`, `CacheCapacityKept`,
`CacheOnlyLostWritebackPanics`, and, for a memory that takes every writeback,
`CachePanicFree` and `CacheEvictedWrittenBack`.

`CacheImplementsAtomicMemory` has the same hypothesis, `"WritebackDirty" \notin
MemRefuses`; the run `cache_writeback_lost` shows that it is needed, and
`CacheOnlyLostWritebackPanics` that nothing else is. An access takes effect when
`accessFunctional` hits, when memory accepts a forwarded write or answers a
forwarded read, or when the response to an upgrade is inserted. What each
of these does to the contents is `ContentsInserted` and `BlockRead`; what it does to
the accesses under way is found without search (`UnderWayIs`).

### HelloObject and GoodbyeObject (`HelloGoodbyeProofs`)

`HelloInv` is inductive. Its parts hold of every system: types; a buffer never
holds more than its size but one byte, and there is a message when an event of a
GoodbyeObject fires; no event or exit that is to come is for a tick that has
passed; a HelloObject fires once in every `time_to_wait` ticks until it has fired
as often as it is to. The last part, `StagesKept`, is about systems in which
nobody shares: who has somebody to say goodbye to is `Talking` and has not
begun; `Writing`, with some whole messages in the buffer and the next due when
they are written; or has `Said` it, with the exit to come. `EndingInv` adds the
two properties, and that a simulation which ends did so at the first exit.

Ticks are where this is not plain. A tick that `fillBuffer` computes is only
known to be exact below 2^`FloatBits`; `Matches(tick, t)` says that `tick` stands for
`t`: they are equal if `t` is below, and `tick` is not below if `t` is not. This is kept
when a message is added (`FloatSum`, `MatchesGrow`), though a sum of floats is
not: rounded twice and then rounded again. Powers of two are numbers of
subsets (`Subsets`, from the library's theorem on the cardinality of `SUBSET`),
which gives their growth, the place that `Float` chooses, that it is exact on what
fits and that it never rounds to below 2^`FloatBits` what is not. Induction on
numbers, which the library states with an operator as a parameter, is had for
sets (`LeastNumber`, `AllNumbers`) from the well-foundedness of the naturals.

* `HelloTypeCorrect`, `GoodbyeBuffersKept`, `HelloFiresOnTime`: the first parts.
* `HelloOnlySharedOrLatePanics`: a GoodbyeObject that is its HelloObject's own
  has no event when it is spoken to, and when its event fires.
* `HelloExitsOnTime`: until the first exit that is due nothing can be pending
  before it, so that it is the one taken; and nobody who is due later has an
  exit that a float puts at a tick below.

### Configurations (`ConfigProofs`)

TLC executes the scripts for one and two CPUs; the theorems are about any number
of them. What stands in the way is that a script's statements are concatenated
and its loops are folds, so that what is the third statement is not known. Most
that is to be shown does not depend on the order: `Gives(s, S)` says that the
sequence `s` has the statements of the set `S` and no others; it goes through
concatenation and loops (`GivesThen`, `GivesEach`), and `StatementsOf` is the
set for each script, in which a number of CPUs is just a bound. `ConfigInv` is
inductive: what is made, connected and linked was made, connected and linked by
statements of the set; of the statements executed so far nothing is missing;
no two objects of a class have the same version. `WiresOf`, `RubyLinks` and `CachesOf`
are the tables of what each script connects that follow from it, from which the
rest is read off. `PacketInv` and `AddrInv` are what holds of a packet in any system:
it is where an object is, as is all it has crossed, and its address is one that
its origin asks for.

* `ConfigsSnooped`: a packet came to where it is over a connection, from its
  source or from an object it has passed (`ClassicInv`). What leads to memory is a
  coherent crossbar, and the tables say that it asks every cache.
* `ConfigsPrivate`: `PathInv` says that from a CPU's port on there is one way until
  the caches of its own are behind it. In Ruby systems a controller's version is the number of its CPU
  because the loop over CPUs makes one controller an iteration and nothing else
  of its class (`NumberInv`); this is the one place where the order counts.
* `ConfigsMessagesArrive`: a message is at its sender, the sender's switch, the
  receiver's switch or the receiver (`PhaseInv`), so that it crosses two.
* `ConfigsNoRoundTrip`: every step of a request goes up in an order of the objects
  (`RankInv`), so that nothing is passed twice: one order for addresses behind the
  bridge and another for the rest. The hole is in both, and has no order.
* `ConfigsRightTarget`: whose an address is (`OwnersApart`) decides at each crossbar
  where it goes on (`TargetInv`); at the I/O bus only the platform answers.
* `ConfigsRefuse`: the second half of `OnlyUnsupportedAbort`; what is not supported
  meets a check that fails, the import of `ruby_caches` among them, as all
  statements of the set have been executed.
* `ConfigsTables`: the E820 table is four or five ranges for any size of memory; in the MP
  table every interrupt of the ISA bus has a pin of its own and an APIC id is
  never that of the I/O APIC, for any number of processors (`AssignsPins`).

The attempt at `ConfigsRightTarget` found the property's own fault: the arms of the
CASE in `Target` overlapped for a Ruby system's own port, which leaves open which
of them is meant. They are apart now.

### Model-checked only

* Liveness (`RequestsAnswered`, `EvictionsEnd`, `RequestsHandled`, `RetriesSent`,
  `RetriesSentIfTaken`, `Ends`, `Answered`): fairness and ENABLED are out of the
  prover's reach.
* The first half of `OnlyUnsupportedAbort`: that what is supported is never
  refused. That depends on the order of the statements throughout, since an
  object must be made before it is connected, and the run `configs` executes each
  script to its end.

## What is not modelled

* Functional reads and writes of the MSI controllers and of SimpleMemobj,
  address ranges, statistics, latencies, message sizes.
* In SimpleCache, functional reads, functional writes while an access is
  handled, a capacity of no block at all, and memory that answers a writeback.
* gem5's own parts beyond what the code uses of them.
* In the configurations: sizes, latencies and clocks, processes, kernels and
  disks, statistics and output, `sendEvicts`, `setup_buffers`, and the command
  line of `two_level_opts.py` as far as it only sets sizes. `run_hello.py` makes
  one object without a port.
* The byte after the message in the cause of a goodbye, which is uninitialized.
* The NMRU patch: four functions that move a block within a list. The list, the
  sets and the validity of blocks are `BaseSetAssoc`'s and not in the
  repository, so that nearly all of a model would be of code that is not here.
* The book, its site and their build (`conf.py`).

## Plan

Done: the MSI protocol with its abstract memory, SimpleMemobj, SimpleCache with
its abstract memory, the Hello and Goodbye objects, the configurations; proofs of
every safety property of the first four, of both refinements, and of what the
configurations do once they are built.

Next: `SimpleMemobj` as the memory that `SimpleCache` talks to, composed over one
port, if the composition shows what the two alone do not.
