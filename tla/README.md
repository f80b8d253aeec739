# A TLA+ model of micro_ros for RT-Thread

`micro_ros` is the RT-Thread package that carries the micro-ROS client: three
transports written for RT-Thread, two small utility libraries, example
applications, and a large body of precompiled or generated ROS 2 code. This
directory holds TLA+ modules of the package's own logic, TLC configurations
that check them on small instances, and TLAPS proofs of their most important
properties for every value of the constants.

## 1. The system

| Component | State | Operations | Interacts with |
|---|---|---|---|
| Serial transport, `src/src/rtt_serial_transports.c` | `sem_initialized`, `rx_sem`, `micro_ros_serial`; the device's ring and indication | `rtt_transport_open/close/read/write`, `uart_input` | the XRCE client calls it; the UART interrupt calls `uart_input` between any two of its steps; the tick interrupt ends its waits |
| Clocks, `clock_gettime` in the three transport files | UDP: statics `rollover`, `last_measure`; serial and TCP: none | `clock_gettime` | every thread that asks for the time, through `uxr_millis`, `rcutils_*_time_now` |
| UDP and TCP transports, `src/src/rtt_udp_transport.c`, `src/src/rtt_tcp_transport.c` | `sock`, `host`, `server_addr` | open, close, read, write | the XRCE client calls them; the socket layer and the network may fail |
| String utilities, `src/src/string_utilities.c` | heap blocks behind `rosidl_runtime_c__String` values | init, set, append, remove_tail_chars, destroy | the type utilities pass these strings by value down a recursion |
| Message memory, `src/src/type_utilities.c` | `operation_buffer`, `operation_buffer_index`; the blocks of a message | get_dynamic_size, get_static_size, create, create_static, destroy, type_info | allocators, string utilities |
| Transport registration, `src/src/micro_ros_rtt.h` | `locator` | `set_microros_transports`, `set_microros_udp_transports` | the commands call it; the client keeps the pointer |
| Applications, `src/examples/*.c` | messages, counters, shared command variables, the client's session and node | callbacks, threads, shell commands | the rclc executor calls the callbacks; several threads share variables; all commands run in the shell's thread |
| rcl, rclc, rmw, XRCE client | - | - | headers and prebuilt libraries only: no code to model |
| Generated messages, yaml.h, build scripts | - | - | data |

What is hard here: interrupts between any two instructions of the serial
transport; counters of 32 bits that wrap within the life of a robot; statics
updated by several threads without a lock; sockets that must be given back on
every failing path; message memory taken in two passes that must agree, over a
recursion in which an allocation may fail; application state shared between
an executor thread and a control thread.

What makes each component correct:

- serial transport: the semaphore is only used while it is initialised; no
  wakeup is lost between polling the device and waiting; a read is over by its
  deadline, also across the wrap of the tick counter; bytes come out once and
  in order, or are lost; reads end;
- clocks: time does not go back, and is accurate within a known bound;
- socket transports: every socket opened is closed, results tell the truth;
- strings: every byte written lies in the allocated block;
- message memory: calculated and used sizes agree, blocks are aligned, disjoint
  and within the buffer, every block is released once;
- applications: what one thread is told is at most one command behind and is
  made good; an answer is counted for the ping it answers, and once; a command
  starts its thread only when what the thread uses is there, does not disturb
  the thread of another, and gives back what it took.

## 2. Plan

In this order, the most important behaviour first.

1. `SerialTransport` with its abstract specification `ByteStream`; proofs of
   its invariants. *Done.*
2. `ClockConversion`, `RolloverClock`, `PlainClock`; proofs that one thread sees
   a monotone clock, and an accurate one if it reads it often enough. *Done.*
3. `SocketLayer`, `UdpTransport`, `TcpTransport`; proofs of where descriptors
   go, and of what the results and waits of UDP are. *Done.*
4. `StringUtilities`; proofs of ownership and of the bound on overruns. *Done.*
5. `MessageMemory`, and `TypeInfo`, whose indentation goes down a recursion by
   value like the name tree. *Modelled and checked; the names, the sizes that
   two walks add up to and create then holds, the pieces of a buffer, that a
   message that was made is destroyed safely, what destroy releases, and the
   listing proved.*
6. `PingPong`, `KobukiControl` and `Applications`: several devices and a lossy
   topic; two threads that share a command; the commands of the shell, the
   client's pools and the agent that comes and goes. *Modelled, checked, and
   their safety proved.*

## 3. Modules and code

| Module | Code | State and actions |
|---|---|---|
| `ByteStream` | the promise of the serial transport | bytes arrive, wait, are delivered in order, or are lost |
| `SerialTransport` | `rtt_serial_transports.c` | see below |
| `ClockConversion` | the arithmetic of `clock_gettime` | `Micros`, `Timespec` |
| `RolloverClock` | `rtt_udp_transport.c:22-38` | a call is `Measure`, `Count`, `Store`, `Finish`, for each thread |
| `PlainClock` | `rtt_serial_transports.c:71-80`, `rtt_tcp_transport.c:20-29` | a call is one step: it keeps no state |
| `SocketLayer` | lwIP's sockets, from the calls made | descriptors, `sock`, `server_addr` |
| `UdpTransport`, `TcpTransport` | the socket transports | `OpenSocket`, `Connect`, `Close`, `Write`, `Read` |
| `StringUtilities` | `string_utilities.c` | `init`, `set`, `append`, `remove_tail_chars`, `destroy` |
| `MessageMemory` | `type_utilities.c` | see below |
| `TypeInfo` | `type_utilities.c:85-159` | `Enter`, `PrintMember`, `Return` of each call of `print_type_info` |
| `Applications` | the commands of `examples/*.c`, `micro_ros_rtt.h` | see below |
| `PingPong` | `micro_ros_ping_pong.c` | the three callbacks, on each device |
| `KobukiControl` | `micro_ros_kobuki_control.c` | `Create`, `kobuki_callback`, `Store`, `kobuki_entry` |
| `MC...` | - | constants for TLC; `MCClocks` and `MCSocketTransports` put the clocks, and the socket transports, of the different builds side by side: a firmware has one of them, chosen in the initial state. `MCStringUtilities` and `MCApplications` do the same with the strings and their user, and with the three parts of the examples. What is said of such a whole is proved in a module that extends it |
| `...Proofs` | - | theorems and their proofs |

Operators whose comment begins with "Fault:" are deliberately wrong versions of
the operator that follows them, each with one plausible mistake; no
specification uses them. Replacing the right one by the wrong one makes TLC
report the property that guards against that mistake.

**`SerialTransport`.** The client thread's position is `pc`. `open` is four
steps, `OpenFind`, `OpenSem`, `OpenDev`, `OpenIndicate`; `close` is `CloseDev`
and `CloseSem`; a read is `ReadCall`, then for each byte `ReadByte` (the loop
and the late initialisation of the semaphore), `ReadPoll` (`rt_device_read`),
`ReadTake` (`rt_sem_take`, which may block) and `ReadCheck` (the deadline).
`UartRx` and `Tick` are interrupts and happen between any two steps; `UartRx`
stores a byte in the ring, or drops it when the ring is full, and calls
`uart_input`. The tick counter wraps. A runnable reader waits for at most `Lag`
ticks at a step, which is what makes a deadline statable.

**`MessageMemory`.** `handle_message_memory` is a recursion over the members of
a type; its frames are the sequence `stack`. For each member a frame appends to
its name (`PushName`), takes or counts memory (`Plain`, `Allocate`,
`Preallocate`, `Count`), calls itself (`Descend`), releases (`Release`), and
removes the name (`PopName`); `Return` ends a frame. `Sizes`, `Create`,
`CreateStatic` and `Destroy` are the library's functions, each of which walks
the type once or twice (`Call`, `EndWalk`, `SecondWalk`). Every allocation may
fail. Fields are addressed by the path to them, so a field of an item of a
sequence is lost with the block that holds it. All names have the same length,
`NameLen`, which leaves the growth of the name's block as it is; a rule is the
path it names, and one written with a dot at its end, which the code matches too
(`type_utilities.c:214-215`), is the same rule. The program passes no NULL for a
buffer: `create_static` clears the buffer before it hands out pieces
(`type_utilities.c:404`), so the return at `type_utilities.c:235-237` is reached
only where the size is zero and there is nothing to hand out. The walk is checked against what happens to the heap and to the
buffer, and the two walks against each other.

**`TypeInfo`.** Each frame of `print_type_info` has its own copy of
`indent_buffer`, while all copies point into one block; `tabs` is how many
characters the block holds before its terminator, so a line's indentation is
what `snprintf` finds there. Blocks are numbered in the order they are handed
out, so that one that was given up is never taken for another. The byte past
the block that `append` may write its terminator to (run `string_capacity`;
`type_info` does so in its first call) is taken to stay as written. Which
words a line has is left out.

**`Applications`.** A command is a sequence of creations, each checked (`Must`:
the command gives up) or not (`Try`: it goes on), and then a thread.
`microros_deinitialization` waits for the agent, creates, publishes and destroys
in the shell. That finalising a valid object gives its session or node back, also
while the agent is away, is assumed of rmw, of which the repository has only
headers and libraries. `Give` types a command, which overwrites the line that the
argument of the one before was in. What rclc does is modelled from how the code
uses it and from its headers: a creation needs the object it is given, the agent
unless it is a timer or an executor (`Local`), and a free session or node
(`config.h:53-55` gives the pools); it may fail for other reasons too, and then leaves its object as it was or cleared.
Variables that are not static are one variable for all examples that are linked
together. What a spinning thread does is in the other two modules.

**`PingPong`.** What a device has published is a log, and every device has read
a part of each log; reading on from a later place is how messages are lost. All
draws of `rand()` are given by the constant `Worlds`, and so is where the shell
is used, which overwrites texts that lie on its stack.

**`KobukiControl`.** The two doubles are four words, which the callback stores
in any order, and the control thread, having the higher priority, may run
between any two stores.

## 4. Runs

| Run | Shows |
|---|---|
| `serial_transport` | every interleaving of open, close and read with both interrupts: the semaphore is live whenever it is used, no wakeup is lost, a read is over by its deadline, bytes are conserved and ordered, and the whole implements `ByteStream`; a read with a timeout returns, and one without returns once its bytes are there |
| `clocks` | the UDP clock, read by one thread at least once per wrap, is monotone and loses one microsecond per wrap; the plain clock is exact until the first wrap, and modulo the word after it |
| `rollover_race` (violation) | with two threads the UDP clock counts a wrap that did not happen and jumps ahead by a whole turn |
| `plain_clock_wrap` (violation) | the plain clock goes back to zero |
| `socket_transports` | where each descriptor went; that UDP reports errors as no bytes; that its recv never waits forever; that TCP gives its socket back on every failing path |
| `string_utilities` | a string's block is never leaked or shared, and at most the terminator lies behind it; `type_info` lists every member once and at its depth, and leaves nothing of its indentation; it uses a block that was given up only for a nested type and where `reallocate` moves blocks |
| `string_capacity` (violation) | the terminator of a text as long as the capacity lies behind the block |
| `message_memory` | where `reallocate` does not move blocks: create tells the truth about failed allocations anywhere in the recursion; sizes are predicted exactly; destroy releases everything; rules are looked up under the right name; the pieces of a buffer are aligned, disjoint and inside it |
| `message_names` (violation) | when `reallocate` moves the block, outer frames use and release a name that is gone |
| `message_destroy` (violation) | destroying a message whose creation failed follows a null pointer |
| `applications` | `pong_count` counts answers to the last ping only, each once; a speed is torn between two successive commands at most, and put right; the transport is never opened with another command's argument; an example that checks its creations runs with all of them and is not disturbed by other commands; two examples never run at once; `microros_deinitialization` gives back what it took, and ends if the agent is back |
| `own_ping` (violation) | a device answers its own ping when that arrives after the next one was sent |

*Bounds.* `serial_transport` has a ring of 2 and 3 bytes to come, so that it
overruns, reads of 1 and 2 bytes with timeouts 0, 4 (a wait of one tick), and
none, and a counter that wraps after 13 ticks, which is larger than every
deadline, as 2^32 is. The clocks use a word of 26, a factor of 4 for 1000 and 2
ticks a second: both multiplications and the counter itself wrap at different
times, several times within 60 ticks. Socket pools have 3 descriptors, so that
the UDP transport exhausts its pool; `socket` may fail before that, as it must
for the TCP transport, which never has more than one, to see it fail. Strings have up to 8 characters and two
blocks, as many as a call can hold at once. Messages are three levels deep,
with strings, sequences of basic types, of strings and of messages, embedded
messages and arrays; three configurations, without rules, with rules at each
depth, with two rules for one name and with a rule of size zero; buffers that
are empty, too small, too small only for the padding, and large enough. The
listed types have no members, no nested ones, and nested ones at each place and
four levels deep. Ping pong has two devices with two pings each, so that an
answer can be late, with draws that differ and draws that are the same, and a
device with overwritten texts that answers. The robot gets three commands, so
that words of more than two could meet. The firmwares of `MCBuilds` have each
example at least once, with others that do and do not share its variables; the
pools are those of the library, one session and one node; the ten publications
of `microros_deinitialization` are two. Commands are given without end.

*Deadlock* is checked where the system never stops. Ping pong ends when the
draws are used up, and the robot's model when neither thread could be created.
The socket transports, the strings, the listing and the message memory stop in the state `"fault"`, where the program
has followed a null or a stale pointer.

*Fairness.* `FairSpec` of `SerialTransport` assumes that a runnable reader is
scheduled and that ticks keep coming, which RT-Thread's preemptive scheduler and
the SysTick interrupt give a thread that nobody of higher priority starves. It
does not assume that the client calls anything or that a byte arrives.
`KobukiControl` assumes that the callback, once called, goes on storing and that
the control thread gets its turns: both threads sleep in their loops, and it has
the higher priority. `Applications` assumes that the shell's thread is
scheduled, and that an agent that stays reachable answers a ping in the end; not
that anybody gives a command, or that the agent is reachable, which
`DeinitializationEnds` has as a premise.

*Seen in the code, and not a run of their own*, because each follows from a
line as it stands:

- `rtt_transport_open` ignores the result of `rt_device_open`
  (`rtt_serial_transports.c:102`);
- `close` of both socket transports returns `closesocket`'s 0 as a bool, false
  (`rtt_udp_transport.c:69`, `rtt_tcp_transport.c:76`);
- the TCP transport returns the -1 of `recv` and `send` as a `size_t`, and its
  read does not use its timeout (`rtt_tcp_transport.c:81,84,86`);
- a sequence of strings gets one byte for each item, and of an array of strings
  only the first gets memory (`type_utilities.c:193-224`);
- a command that gives up after `rclc_support_init` keeps the only session
  (`micro_ros_ping_pong.c:117`), so that no command can be given after it;
- `rand()` is not seeded: boards with the same image may draw the same
  `device_id` and `seq_no`, and then cannot tell their pings apart
  (`micro_ros_ping_pong.c:45,156`);
- the texts of ping pong lie in arrays of a function that has returned
  (`micro_ros_ping_pong.c:144-154`);
- the robot keeps its last speed when no command arrives any more
  (`micro_ros_kobuki_control.c:39`);
- when `microros_deinitialization` is linked with an example that shares its
  variables, it finalises what that example's thread uses
  (`micro_ros_deinitialization.c:66-68`); the properties leave such firmwares
  out where they say so (`Shares`).

## 5. Proofs

TLAPS proves each of these as `Spec => []P`, for the specification of the run
that checks `P`, and for every value of the constants that the modules'
assumptions and the conditions in the last column allow.

| Theorem | States | If |
|---|---|---|
| `SerialTransportProofs!TypeCorrect` | `TypeOK` | |
| `SerialTransportProofs!SemaphoreIsLive` | `SemaphoreLive` | |
| `SerialTransportProofs!NoWakeupIsLost` | `NoLostWakeup` | |
| `SerialTransportProofs!BytesAreConserved` | `ByteConservation` | |
| `SerialTransportProofs!ReadsAreBounded` | `ReadBounded` | |
| `SerialTransportProofs!TransportIsByteStream` | `ImplementsByteStream` | |
| `SerialTransportProofs!BytesStayInOrder` | `ByteOrder` | |
| `ClocksProofs!TypeCorrect` | `TypeOK` | |
| `ClocksProofs!MonotoneForOneThread` | `Monotone` | one thread |
| `ClocksProofs!AccurateForOneThread` | `Accurate` | one thread, `WholeTicks`, `ReadOften` |
| `ClocksProofs!PlainIsAccurate` | `PlainAccurate` | `WholeTicks` |
| `SocketTransportsProofs!DescriptorsAccounted` | `SocketsAccounted` | |
| `SocketTransportsProofs!ResultsAreHonest` | `HonestResult` | |
| `SocketTransportsProofs!ReadsWaitAsAsked` | `ReadWaits` | |
| `SocketTransportsProofs!BuiltTypeCorrect` | `BuiltTypeOK` | |
| `SocketTransportsProofs!TcpNeverLeaks` | `TcpNoSocketLeak` | |
| `StringUtilitiesProofs!StringOwnsItsBlock` | `OwnsItsBlock` | |
| `StringUtilitiesProofs!OverrunIsOneByte` | `AtMostTerminatorPast` | |
| `StringUtilitiesProofs!UsedTypeCorrect` | `UsedTypeOK` | |
| `StringUtilitiesProofs!StaleNeedsNesting` | `StaleOnlyNested` | |
| `StringUtilitiesProofs!ListsEveryMember` | `ListingIsTree` | `Acyclic` |
| `MessageMemoryProofs!TypeCorrect` | `TypeOK` | |
| `MessageMemoryProofs!PiecesStayApart` | `PiecesApart`, a part of `ArenaSound` | |
| `MessageMemoryProofs!CreateTruthful` | `CreateHonest` | `~Moves`, `Acyclic` |
| `MessageMemoryProofs!ArenaStaysSound` | `ArenaSound` | `~Moves`, `Acyclic` |
| `MessageMemoryProofs!StaticTruthful` | `StaticHonest`, an action property | `~Moves`, `Acyclic` |
| `MessageTreeProofs!MadeStaysSafe` | `MadeIsSafe` | `~Moves`, `Acyclic` |
| `MessageTreeProofs!DestroyReleasesAll` | `DestroyReleases` | `~Moves`, `Acyclic` |
| `MessageTreeProofs!SizeStaysPredicted` | `SizePredicted` | `~Moves`, `Acyclic` |
| `MessageMemoryProofs!RulesSeePath` | `NameIsPath` | `~Moves` |
| `MessageMemoryProofs!NamesStayLive` | `NamesLive` | `~Moves` |
| `ExamplesProofs!CountedPongsWereSent` | `PongsWereSent` | |
| `ExamplesProofs!ThreadsHaveSessions` | no more threads than sessions, where no examples share variables | `Configured` |
| `ExamplesProofs!AddressIsLive` | `AddressLive` | `Configured` |
| `ExamplesProofs!RunsComplete` | `RunningIsComplete` | `Configured` |
| `ExamplesProofs!OnlyOneRuns` | `OneRuns` | `Configured`, `MaxSessions = 1` |
| `ExamplesProofs!DeinitializationReturnsAll` | `DeinitializationGivesBack`, an action property | `Configured` |
| `ExamplesProofs!TearsByOneCommand` | `TornByOne` | |
| `ExamplesProofs!RunTypeCorrect` | `RunTypeOK` | `Configured`, `MaxTwists \in Nat` |

The conditions: `WholeTicks` is that the tick rate divides 1000, as RT-Thread's
100 and 1000 do; `ReadOften`, that the clock is read before it can wrap twice;
`Configured`, that firmwares are made of the examples there are and that pools
have a size; one session is what the library is built with (`config.h:53`);
`~Moves`, that `reallocate` grows blocks where they are, without which
`message_names` refutes what is said of names, and so of the rules that the
sizes depend on; `Acyclic`, that no type contains itself and that there is a
bound on the number of members: a rosidl definition names only definitions that
come before it. The runs' constants meet them all.

The arguments:

- *Serial transport.* `SemaphoreLive` is not inductive: `SemaphoreInv` adds what
  each step of open and close knows of the flag, the semaphore and the device.
  `NoLostWakeup` rests on `WakeupInv`: between the failed poll and the take,
  a byte in the ring has left a token, so that the take does not block.
  `ReadBounded` rests on `DeadlineInv`, which bounds the time used at each step
  (`Used`), and on `LocalsInv`; that the tick counter does not lap a read is
  the assumption `TickAssumption`. For the refinement every step of the
  interrupts and of the client is matched with one of `ByteStream`, or with
  none; `ByteOrder` follows from what each of those does to the sequence of
  delivered and waiting bytes.
- *Clocks.* `MonotoneInv` says that the time a thread will return next is at
  least that of the last measure under the current count of wraps. It holds for
  one thread however many wraps it missed. Accuracy does need the reads to be
  frequent: `AccurateInv` says that `rollover` and `last_measure` are the
  quotient and the remainder, by the word, of the microseconds shown at the
  last read (`Shown`), and `ShownOrder` that less than a word of them passes
  between two reads. With two threads both fail, as `rollover_race` shows.
- *Sockets.* `SocketsAccounted` needs that a transport that is not closed holds a
  descriptor that is in use (`HoldsSocket`), so that close gives one back. The
  TCP transport's invariant `TcpInv` is its promise itself. `BuiltInv` is that
  of the transport that was built in, and a step leaves the other one alone.
- *Strings.* The invariants are inductive together: a write that is not
  preceded by growth ends within one byte of the block because capacity is the
  block's size. All of this is of callers that remove no more characters than the
  string has (the guard of `remove_tail_chars`): the code does not look, and its
  callers in `type_utilities.c` remove what they have appended.
- *Listing.* `ListInv` says that call `k` of `print_type_info` has `k`
  characters of indentation, or one less before it has begun; `BlockInv`,
  that without moves, or without members of message types, all calls point to
  the one block there is, and that the outermost never grows it. `OutInv` says that the lines printed,
  followed by what each call has still to print, the innermost first, are the
  whole listing. That rest is some function on the depths of the calls, not a
  recursive operator: a step replaces its last value, or adds or drops one, so
  no induction is needed.
- *Message memory.* `TypeInv` says what every frame of the recursion, and every
  block and field, can be. `ArenaInv` adds that all pieces end at or below
  `operation_buffer_index` while a walk hands them out. For the names, `OwnInv`
  says that fields own distinct live blocks, none of them the name's, so that a
  release never takes the name away; `NameInv`, that each frame's copy of the
  name is as long as the frame is deep, and that the block holds at least the
  names of the frames above. `PopName` and `PushName` then change only what lies
  behind them.
  For the sizes, `NestInv` says that the frames are nested as the types are, each
  at the place in the whole that the path of names leads to, so that the rules
  give each member the same capacity in every walk. The reference is `Measured`:
  a size for every place that satisfies the equation of the recursion. That
  there is one is shown below (recursion). `BalInv` is then a balance for each frame: what it
  has added up, and what it and the frames it calls have still to add, is at
  most the size of its place; exactly that if nothing failed; and less if memory
  of that place is missing. For the
  buffer a size is not enough, because padding depends on where a structure
  begins: the reference `Lays` gives for every place and every beginning where the
  walk ends, and `LayInv` says that what the frames have still to do, the
  innermost first, takes the index from where it is to the end that the first
  walk has found.
  `MessageTreeProofs` has the rest, about what the walks leave in the heap.
  For destroy, what a subtree already walked has left behind is not in any frame.
  `TreeInv` therefore says that there is a map `T` of the message: the type and the
  path of every structure that create has visited and destroy has not yet left.
  Every structure but the message itself hangs, as some item of some member, from
  another (`Backed`), every assigned field is a member of one (`Filled`), and each
  points to a block of its own (`Heaped`), so that two structures at the same
  address are the same one (`PutSame`). A block of the heap is the name's or a
  field's (`Owned`). destroy takes a structure off the map when it returns from it,
  and its own members are released by then; what is left when the message itself
  is off the map is nothing (`Emptied`). Nothing of this needs create to have
  succeeded. If it has, nothing with bytes is missing on the map (`Linked`: either
  `BalInv`'s balance is short, or nothing is missing), and a frame of destroy is at
  a structure of the map, or at one without bytes embedded in one (`Firm`); both
  are in memory. `SafeInv` says the same of the frames of create.
  `WeightInv` ties the blocks to the count: in create either the balance is short,
  or the blocks weigh what the frames have counted between them (`AddsUp`). A
  subtree that is given up without leaving the balance short needed no bytes at
  all, so that it had counted none. The sum is the library's, over a set in an
  order nobody knows: `WeighsRemove` shows that any element may be taken out
  first, and `WeightAdds`, `WeightSame` what a new block and a rewritten name do
  to it.
- *Recursion.* The library's induction theorems cannot be instantiated, but that
  every set of numbers has a least one can be cited (`LeastExists`). From it
  `RecursionProofs` shows that two functions agree if they do wherever they agree
  on lower ranks (`Agree`), and that an operator on functions whose values
  depend only on values of lower rank has a fixed point (`Fixpoint`). `MemberRank`
  ranks the places in types that do not contain themselves. So the reference of
  the listing (`AcyclicLines`) and the two of the sizes (`AcyclicMeasured`,
  `AcyclicLaid`) are defined, and so is the library's sum over a finite set
  (`WeighsExists`).
- *Ping pong.* `PingInv` and `EchoInv` say where every text came from. Where the
  draws tell pings apart, a device has answered a ping once at most
  (`OnceInv`), its own last ping never (`OwnInv`), and the count is at most the
  number of devices whose answer it has taken (`CountInv`).
- *Commands.* `ControlInv`, `PoolInv`, `AddressInv` and `ThreadInv` are inductive
  together. `CompleteInv` says that a command that checks has made all objects
  before the one it is at, and that objects of its own are out of reach of the
  others; `DeinitInv`, that the pools differ from what `microros_deinitialization`
  has found by the objects it holds; `HeldInv`, that every thread, every command
  past its first creation and the deinitialization have a session each.
  They are proved for the commands alone, without fairness (`CommandsSpec`), and
  carried over to the specification of the runs, whose steps of the other parts
  leave the commands' variables alone (`CommandsPart`).
- *Robot.* `StoreInv`: while the callback of command `n` stores, the words still
  to be stored are from command `n - 1` and the others from `n`. What the other
  thread copies is therefore of two successive commands at most (`RobotInv`).

*Only model-checked:* liveness under fairness (`ReadReturns`,
`UntimedReadServed`, `Settles`, `DeinitializationEnds`), which is out of the
prover's reach. Every safety property of a passing run has a theorem.

## 6. Not modelled

- `rtt_transport_write` passes its buffer to `rt_device_write` and keeps no
  state; `micro_ros_string_utilities_get_c_str` returns a pointer.
- The callbacks of the other examples print, set a pin, add two numbers or
  count up a message that nobody else touches.
- rcl, rclc, rmw and the XRCE client come as headers and libraries without
  source. The transports assume of the client what the headers and its use in
  the examples show: one thread, open before read and write, close after a
  successful open, and another open whenever one failed.
- The repository's C and C++ files have about 158000 lines, of which some 2000
  are the package's own code: `src/src/*.c`, `micro_ros_rtt.h` and
  `src/examples`. All of that is modelled, but for the lines named here. The
  rest are headers of the libraries above, nearly all of them declarations and
  comments; the few with function bodies (`rcutils/logging_macros.h`, the
  `sensor_msgs` helpers, `stdatomic_helper.h`) are vendored, and nothing in the
  package calls them.
- Generated messages, `yaml.h`, `identifier.c`, and the build scripts have no
  run-time behaviour of their own.
- The statics of `type_utilities.c` are shared between threads; its header
  declares the functions not thread-safe, and `MessageMemory` has one caller.
