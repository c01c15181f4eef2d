# procnanny in TLA+

A verification project for the repository's program **procnanny**: a nanny that
kills processes of a user which outlive a configured time. Version 3
(`src/379_assign3_procnanny`) is distributed: one server, one client process per
machine, and a pool of forked children per client. Version 2 (`src/procnanny`) runs
on one host and is driven by two signals. Version 1 (`src/procnanny-assign2`) forks its
children once and waits for them; it introduced `killPrevious`, with which a new
procnanny ends the older ones, and which all versions keep. The same repository holds simulators of
networks; of these the medium access simulator PSIM (`src/313-Assign2/PSIM`) is
modelled too. The rest of the repository is in the inventory, with the reason why it is
not modelled.

## 1. Inventory

| component | source | state it keeps | operations |
|---|---|---|---|
| client, parent process | `clientFunctions.c`, `client.c` | `childPool` with `m_pid` per child, `childCount`, `idleChildCount`, `killCount`, `monitorProcs`, `procCount`, the socket | `receiveConfig`, `initChildren`, then for ever: `readChildMessages`, `readServerMessages`, `rescanProcs`; at the end `cleanExit` with `waitForChildren`; `killPrevious` at the start |
| client, child | `child.c` | the request it works on | `childExec`: read a message; `monitorProcess`: sleep, check, kill, report; `childExit` |
| pipes | `pipeMessage.c` | one pipe in each direction per child | `write_message`, `read_message` (blocking) |
| server | `serverFunctions.c`, `server.c` | `clients[]`, `clientCount`, `monitorProcs`, `procCount`, `killCount` | `serverLoop`, `readClientMessages`, `sendConfig`, `readFile`, `signalHandler` for SIGHUP and SIGINT, `waitForClients` |
| version 2 | `src/procnanny` | as the client, without sockets | `initChildren`, then for ever `readChildMessages` and `rescanProcs`; `signalHandler` inside any of them: SIGHUP runs `readFile`, SIGINT asks the children to exit, runs `waitForChildren` and never returns |
| version 1 | `src/procnanny-assign2` | `childpid`, `childCount`, `arraySize`, `status`; the processes named `procnanny`, as `ps` lists them | `killPrevious`: list, kill, list again; `initChildren`: a fork per process found; `parentFinish`: `waitpid` for each child, count kills from the exit statuses; `childExec`: sleep, check, kill, exit |
| PSIM | `src/313-Assign2/PSIM` | per station: list and count of waiting frames, array of delays, retry counter `tryingToTx`, exponent `intExp` | `main` resets for every trial, `runSim` does R slots: `generateFrames`, `increaseDelay`, then one of four protocols, which may `transmitFrame` |
| ESIM | `src/313-Assign1/ESIM` | counters of one trial | retransmission of blocks with error correction |
| socket test | `src/socket test` | - | a trial of the listening loop |
| memwatch | vendored | - | allocation checker |

How the parts of version 3 interact:

- server and client: a TCP connection. To the client go `config` (header, array of
  names, their count) and `exit`; to the server go `output` (header, text) and
  `exit` (header, kill count, node name if the count is positive).
- client and child: two pipes. To the child go `monitor name pid time` and `exit`; to
  the parent go `output` with a text, `available 0`, `available 1` and
  `exit complete`.
- client and the machine: `ps` is read by name (`getPidList`), and by process id in
  the child before it kills.
- operator and server: the configuration file, SIGHUP, SIGINT.
- a procnanny and the others of the same user, in every version: `killPrevious`, SIGKILL
  for every other process of the name, children included.

What is hard: parent, children, the user's processes and the server run
concurrently and look at each other through snapshots (`ps`), counters and messages
under way; the handlers of the server run on top of any statement, including each
other; exiting is a two-level termination detection (server waits for clients,
clients wait for children) whose result, the number of kills, has to be exact;
forks fail, process ids are given out again, processes stay as zombies, clients and
servers die. In version 2 the handlers change the configuration and the counters under
the loops that walk them, reads are interrupted in the middle of a message, and a
child runs its parent's handlers until it has replaced them. Several procnannys started
together run `killPrevious` against each other. PSIM is sequential; its
difficulty is that the same facts are kept in several places (list, counters, array,
retry state) over long sequences of slots. What makes each part correct:

- client: the hand-kept counters agree with the pool; a struct's `m_pid` says the
  truth about its child; no kill is lost or counted twice; no struct outside the
  allocation is written; a wanted process does not live for ever; an exit request
  is answered, with the exact count;
- server: it stops after all confirmations and only then, adds them up exactly, keeps
  the framing of every connection, enters no client twice, and brings a re-read
  configuration to everybody;
- version 2: the pool stays consistent under the handlers, the final message comes
  after the last child and its tally is right but for interrupted messages, a wanted
  process does not live for ever however the configuration changes under the scan,
  and SIGINT ends the program;
- version 1: of several procnannys never two go on; the final count is right; what an
  ended one watched is watched again by the one that ended it;
- PSIM: no frame is lost or sent out of turn, the delays that are averaged are the
  delays that were had, a retry belongs to a frame, a wait to the interval it was drawn
  from.

Every place where this can go wrong and a test would hardly notice is listed under
`hazards` in `PROJECT.json`, at its line, with the properties that cover it.

## 2. Modules

| module | models | state and actions |
|---|---|---|
| `Nanny` | what a node promises to the server | `phase`, `kills`, `report`; it may kill, is asked once, answers once with the exact number of kills, or is lost |
| `ClientNode` | a client process, its children, pipes, the user's processes and the server's messages | `pc` is the function the parent is in, `idx` its loop counter; the source's counters keep their names; `m_pid`, `p2c`, `c2p`, `cpc` are per child |
| `MCClientNode` | configurations and command lines a `.cfg` cannot write | |
| `ClientNodeProofs` | theorems about `ClientNode` | |
| `ClientPidProofs` | theorems about the process ids of `ClientNode` | |
| `Server` | the server, its signal handlers and the clients behind their sockets | `stack` holds the active frames, `pc` and `at` their place and loop counter; one action per read or write |
| `ServerProofs` | theorems about `Server` | |
| `ServerTallyProofs` | theorems about what `Server` prints at its end | |
| `Procnanny2` | version 2: parent, children, the halves of their messages, both handlers | `pc` is the statement the parent has reached, `phase` the function (`initChildren` or `rescanProcs`); `from` says where SIGINT found it |
| `MCProcnanny2` | command lines and configuration files a `.cfg` cannot write | |
| `Procnanny2Proofs` | theorems about `Procnanny2` | |
| `Procnanny2TallyProofs` | theorems about the final message of `Procnanny2` | |
| `Procnanny1` | version 1: several procnannys of one user with their children, `killPrevious`, `waitpid` | `st` is every process named procnanny as `ps` and `kill` see it, parents `<<n, 0>>` and children `<<n, k>>`; `list` is what is left of the `pidList` of `killPrevious` |
| `MCProcnanny1` | names and configurations a `.cfg` cannot write | |
| `Procnanny1Proofs` | theorems about `Procnanny1` | |
| `Psim` | PSIM, all four protocols | the fields of a station keep their names, as functions of the station; two steps per slot, `Arrive` and `Access` |
| `PsimProofs` | theorems about `Psim` | |

`ClientNode` has one action per step another process can observe. `getPidList` is one
step (a snapshot of `ps`), each process id taken from the list is one step
(`RescanPid`, `InitFork`), and each message read or written is one step. A child is
four steps: `ChildRead` (`childExec`), `ChildCheck` (`getPidList` after the sleep),
`ChildKill` (`kill`), `ChildReport` (`available`). `read_message` blocks until a message
is whole, so a pipe is a sequence of messages. At end of file `read` returns 0 and
leaves the header buffer as it was: the parent may then see any header
(`Readable`). An `m_pid` nobody wrote is `Junk`, as memwatch fills memory
with 0xFE.

`Server` keeps the three writes of `sendConfig` and the two or three of a client's
message apart, so that a handler can run between them. A signal blocks itself only
while its handler runs: the stacks are main, main-hup, main-int, main-hup-int and
main-int-hup. The handlers are installed with `sa_flags` 0, so a call that a SIGHUP
interrupts while it finds nothing returns -1 (`Waiting`, `eintr`), and the code goes on:

- a read of the rest of a message leaves whatever the buffer held;
- `select` only polls, but its -1 passes `if(ret)`, so the server goes on to a blocking
  `accept` (`Accept`) or to a blocking read of a header (`ReadHeader`);
- when another SIGHUP interrupts that, a failed `accept` ends the server, and a header
  that was not read is whatever the buffer held, a stale `exit` included.

`failedReads` remembers where a read has failed. A client is the order of its reads and
writes, with kills at any time from its first configuration to its confirmation. It is
written after the client's code and says no more of the node behind the socket than
what `ClientNode` says of it: that an exit request is answered once, with a count.
`ClientNode` is shown to implement `Nanny`; no module puts the two processes together.

`exitedClients` is entered at `++exited` without a check, so that with as many clients as
the array has entries the last write goes past it. `MarkExited` then lets the write go
unnoticed or change something else, after which nothing is claimed (`overrun`).

`Procnanny2` splits the parent at every statement that a handler could tell apart:
between `childCount++` and `fork`, between the two writes and the two reads of a
message, between reading an answer and acting on it. A pipe holds halves of messages,
header and body. SIGHUP may come between any two of these steps, in the SIGINT handler too,
and finds a configuration file of `Files`: it re-reads it, or ends the parent when the
file names `procnanny`. Because the handlers are installed without `SA_RESTART`, it may
also interrupt a call (`Interrupted`): cut short the listing of `ps` or the read of a
body that has not arrived, or make `select` return -1, which `if(ret)` takes for
readable. The parent then blocks in `read_message` (`header`, `hHeader`) until the child
writes, for good if it has nothing more to say, since the parent holds the write end of
the pipe itself; a second SIGHUP there leaves the length of the message unwritten, and
the parent crashes. When instead the read of a body was cut short, the body arrives
later and is taken for a header, a length of over a gigabyte: the allocation
fails and the parent dies, or the read takes what the pipe holds (`Misread`). SIGINT
forgets what the interrupted function held in local variables, and sends `exit` to
every child. With `ToGroup` it also reaches the children, as from a terminal: one that
has not got to `signal(SIGINT, SIG_IGN)` runs the handler it inherited, asks its elder
siblings and itself to exit and takes answers meant for the parent.

In `Procnanny1` a listing of `ps` is one step, a `waitpid` is one step, a `kill` of
`killPrevious` is two, the call (`Aim`) and its effect (`Hit`), and a new procnanny may start
between any two of them. The effect comes although the caller has been ended meanwhile:
two procnannys on two processors, both inside `kill`, end each other. A process that was killed
or has ended is a zombie, listed by `ps` and a target of `kill`, until its parent waits
for it or, when the parent is no more, until `init` does. The exit status of a child is
kept where `waitpid` finds it, `Signal` if it was killed. A failed fork leaves its entry
of `childpid` as memwatch filled it, `waitpid` for that returns at once, and the entry of
`status` stays unwritten. `killPrevious` is the same function in all versions but for the
name it looks for and the number it compares the second listing with (`Limit`; 1 in the
client of version 3).

`Psim` takes what `rand` returns as a choice: any set of stations gets a frame, any
waiting station tries again, any offset `txSlotOffset` can return is drawn,
`RAND_MAX` included. Two history variables remember when frames came and went. That a
slot's decrement follows in the slot that set the offset, and that `intExp` is raised
after the offset is drawn, is as in `runSim`.

## 3. Runs

| run | question | bounds |
|---|---|---|
| `ClientPool` | do the counters, the pool, the pipes and the kills agree in every interleaving, and does a child kill only what was listed? | 2 names, 2 process ids, 3 children, 1 failed fork, 2 configurations |
| `ClientPromise` | under fair scheduling: does the inductive invariant hold, does a node implement `Nanny`, do wanted processes end, are exit requests answered? | 1 name, 2 children, 2 processes started later, 2 configurations, with zombies, re-used process ids and a server that may go away |
| `ClientNoConfig` (violation) | does a client start only with a configuration? | |
| `ClientForkFail` (violation) | is an exit request answered after a failed fork? | |
| `ServerExit` | SIGINT at any step, a client killed at any step: when does the server stop, with which tally, with which lines lost, and what is written past `exitedClients`? | 2 clients and arrays of 2, 1 line and 1 kill each, 1 killed client |
| `ServerReload` | SIGHUP and SIGINT on top of each other: do the ends of a connection stay in step, and does a configuration arrive? | 2 clients, arrays of 3, 1 SIGHUP, 1 kill each |
| `ServerWindow` (violation) | do all clients have the newest configuration whenever the server is back in its loop? | 1 client |
| `ServerDeadClient` (violation) | does SIGINT stop the server although a client was killed? | 1 client |
| `Procnanny2` | SIGHUP and SIGINT between the steps of version 2 and inside its calls: does the pool stay consistent, when does the program stop and with which tally, are processes still killed? | 2 names, 2 processes, 2 structs, 1 process started later, 1 SIGHUP with 3 possible files, SIGINT to the group |
| `Procnanny1` | several procnannys started at any time: does no more than one go on, is its count right, is everything watched again? | 2 procnannys, 1 process id, a name listed twice, 2 children each, 1 process started later, 1 failed fork |
| `Cleanup` (violation) | does `killPrevious` report success only if nothing else runs? | 2 procnannys, 1 child each |
| `Psim` | do list, counters, delays and retries agree under all four protocols? | 2 stations, 5 slots, 2 trials |

Why the bounds are enough. A rescan treats process ids one by one and a child is
touched only through its own struct and pipes, so the interesting conflicts have two
parties: two children and one process id, two process ids and one idle child, a
configuration replaced between two rounds. Two names, two ids and up to three
structs contain them all. With a second configuration in the socket behind the
first, and the exit request behind that, every order of configuration, rescan and
exit occurs. The server treats clients one by one; two are the least for which one is
counted while the other is being accepted, or has confirmed while the other has
not. One SIGHUP is enough for every nesting of the handlers, because SIGHUP is
blocked in its own handler; a second one after the first has returned meets the
same frames with newer versions, and can also interrupt the `accept` or the read that
the first one led into, which the runs leave to the proofs: `StopsAfterAll`, `TallyExact`,
`InStep` and `OverrunOnlyWhenFull` are proved for any number of signals. `ServerExit` has
as many clients as entries in the arrays, the 32 of the program, so the last confirmation
overruns `exitedClients` (`serverFunctions.c:449`); `ServerReload` has one entry more, the case of
fewer clients. In `Procnanny2` two children
are enough for a handler to find one of them half made while the other has an answer
under way, and two names for a scan to be interrupted between them by a longer, a
different or a forbidden list. There too one SIGHUP leaves a second one, on the read
that the first one led into, to the proofs. In `Procnanny1` two procnannys are what a race to
be the only one needs (`OneNanny` speaks of pairs), and listing a name twice gives two children for one process, one of which finds it gone or a
zombie. In `Psim` `ArraySize` is 1, so that the
array of delays grows, twice in a trial, and `MaxExp` is 3, so that the largest exponent
is reached within five slots; the second trial shows that everything is reset. The
proofs in section 5 do without these bounds.

Deadlock is checked in every run of the client and the server. `Finished` is the state
after the end of the process. `Procnanny1`, `Cleanup`, `Procnanny2` and `Psim` say
`CHECK_DEADLOCK FALSE`: PSIM ends after its last trial, version 1 after its last child,
and version 2 may end or hang, as section 4 describes.
For `ClientNode` that check has a meaning of its own: `ReuseChild` is possible only
if an idle struct exists, so a parent with a positive idle count and no idle child, who
would write `childPool[-1]`, would be stuck.

## 4. Properties and what the runs show

Client. `IdleCountExact`, `JobAccounting`, `KillsAccounted`, `PoolInBounds` and
`ReportExact` hold, and are proved. `NoDoubleMonitor` and `PoolBounded` hold: two
children never wait for the same process and idle children are used up before a new
one is forked. The first needs process ids that are not given out twice and command
lines with one configured name; the second holds with re-used ids too.
`KillsWhatWasListed` holds as long as process ids are not given out twice, and the run
excludes that: what it checks is the hand-over of the id from `ps` through the pipe to the
child. A child looks for the id only (`child.c:75`), so it cannot hold when ids are re-used. `NannyPromise` holds: even a process under a re-used id is found again, because
`m_pid` is always released. `ExitAnswered` holds unless a fork failed.

Server. `StopsAfterAll`, `TallyExact`, `LogLosesOne`, `InStep`, `OverrunOnlyWhenFull`,
`ServerStops`, `ReloadReaches` hold under the conditions each of them states. These
conditions are the places where the program does not keep them, and are part of the
result: a killed client (`crashes`), a read that a SIGHUP made fail (`failedReads`),
SIGINT on top of a SIGHUP that was sending. `StopsAfterAll` fails, for instance, when one
SIGHUP interrupts the `select` of `waitForClients` and a second the read that follows over a
buffer that still holds `exit`. `OverrunOnlyWhenFull` says how far the overrun of
`exitedClients` goes: with fewer clients than entries there is none, with as many there is one
write, for the last of them, although a client that has closed its connection stays
readable for as long as the loop runs. `LogLosesOne` is as strong as possible: the
line whose header had been read when SIGINT came is lost.

Version 2. Before SIGINT `PoolConsistent` holds whatever a SIGHUP interrupts: messages
cut in two lose answers, but never make a busy struct look idle. `PoolInBounds` needs
the condition it states: `childPool` is allocated for the names of the first
configuration, and `initChildren` reads `procCount` again in every round, so a SIGHUP
during `initChildren` that lengthens the list lets it write behind the allocation.
`DoneMeansGone` has no condition: when the final message comes every counted child has
ended. `TallyClose` bounds how wrong that message can be: one kill for the answer that
SIGINT found in the parent's hands, one for each message a SIGHUP cut. `ExitCompletes`
is the report of version 2 (`src/procnanny/report:13`, "waits for every child to send back an exit complete
acknowledgement"), under the conditions without which it fails: SIGINT between
`childCount++` and `fork` waits for a child that does not exist, SIGINT between the two
halves of a request leaves a child that takes `exit` for the rest of it, SIGINT while
an answer's body is awaited takes that body for a header, a failed fork is counted,
a child in the inherited handler never confirms, and one SIGHUP in the `select` on a
child that has confirmed already freezes the parent (`Stuck`). `Promise` says that scanning a
list that changes does not starve a process: `initChildren` and `rescanProcs` may visit
a name twice or not at all in the round a SIGHUP falls into, the next round is whole.
Only `Stuck` ends it: a SIGHUP in the `select` on an idle child freezes the parent for
good, and nothing is killed any more. A
SIGHUP that finds `procnanny` in the file ends the parent and leaves its children
blocked in `read`: `pc` is `dead`, and nothing is claimed.

Version 1. `OneNanny` holds although nothing locks: whoever lists `ps` is in `ps` itself,
so of two that have listed and are alive one has seen the other, and gets past
`killPrevious` only when its own kill of it has had its effect. Nothing says that somebody
is left: of two that are both inside `kill` none is, and the user has no procnanny until
the next is started (`NobodyLeft`). `TallyExact` says that neither
failed forks, nor unwritten entries of `status`, nor children ended by somebody else
change the final count into anything but the kills of the children that ended by
themselves; it is the number of all kills unless another procnanny has begun to kill.
`Takeover` says that ending a procnanny does not leave its processes unwatched in any
other case.
`CleanedUp` does not hold: a child that the older procnanny forks after `ps` was read and
before its parent is killed is on no list, goes on for its whole sleep, and is not enough
for the comparison with 2.

PSIM. `Conservation`, `OldestFirst` and `RetriesHaveFrames` hold; the last is what lets
protocol P transmit for a retrying station without looking at `frameQ` again.
`BackoffBounded` shows that the extra slot `txSlotOffset` can return (for `RAND_MAX`,
against the comment on line 285) is hidden by the decrement in the same slot.
`TurnsComeRound` bounds the wait of the frame at the head under T by N slots.

The five runs that end in a violation each compare the program with a sentence of its
own documents; `findings` in `PROJECT.json` quotes them.

Fairness. `ClientNode!Fairness` is weak fairness of the parent and of every child,
which is what the scheduler of the machine gives to processes that do not block for
ever; nothing is assumed about the user's processes, the server, zombies being
reaped, or messages being sent. `Server!Fairness` is weak fairness of the server and
of each connected client's duties (reading, finishing a line, confirming) as long as
the server lives; signals, kills and lines may come or not. `ClientNode` checks that
duty: `ExitAnswered`. `Procnanny2!FairSpec` is weak fairness of the parent, its handlers
included, and of each child; no signal has to come, no process has to start or end.
`Procnanny1!FairSpec` is weak fairness of every started procnanny and of every child;
none has to start, and zombies need not be reaped. `Psim` makes no progress claims and states no fairness.

## 5. Proofs

`ClientNodeProofs` proves, for every set of names and process ids, all configurations
and all bounds, from the named assumptions of `ClientNode` (process ids are a finite
set of positive numbers, command lines and configurations are made of the names, a
configuration has no name twice - `readFile` drops duplicates -, the bounds are
natural numbers):

| theorem | states |
|---|---|
| `Inductive` | `Spec => []IndInv` |
| `TypeCorrect` | `Spec => []TypeOK` |
| `IdleCountCorrect` | `Spec => []IdleCountExact` |
| `JobsCorrect` | `Spec => []JobAccounting` |
| `KillsCorrect` | `Spec => []KillsAccounted` |
| `ReportCorrect` | `Spec => []ReportExact` |
| `PoolCorrect` | `Spec => []PoolInBounds` |
| `ImplementsNannySafety` | every step of a node is a step of `Nanny` or leaves it alone |

The argument. `ReportExact` is about the last step only and is far from inductive. It
holds because when the parent is done all children have said "exit complete" and
nothing is left in a pipe (`ExitedExact`), and because the kills not yet in `killCount`
are those of children that still owe an answer (`KillsAccounted`). The first needs
the shape of the pipes: "exit complete" is the last message a child ever writes, it
is written once, and only after "exit" was read, which is the last message the parent
ever writes (`PipeShape`: `RequestPipe`, `AnswerPipe`, `Lifetime`). The second needs
that a child owes at most one answer at a time (`JobAccounting`), which in turn holds
because a struct is given work only when `m_pid` is 0, that is, when its pipes hold no
request and no answer and the child is not at work. `IdleCountExact` then shows that
a struct to re-use exists whenever the counter says so. `PoolRoom` is the
strengthening of `PoolInBounds`: `initChildren` allocates one struct per name and adds
room only for names with several processes, so while it runs there must be room for
the processes found under the current name and for one process of every name to
come. Preservation is proved action by action; the facts about cardinalities of `Idle`,
`Unreported` and `Drained` when one child changes are lemmas.

`ClientPidProofs`, from the same assumptions and the conditions named:

| theorem | states | condition |
|---|---|---|
| `KillsListedOnly` | `Spec => KillsWhatWasListed` | `~ReusePids` |
| `NoDoubleMonitorCorrect` | `Spec => []NoDoubleMonitor` | `~ReusePids`, `OneNameEach` |
| `PoolBoundedCorrect` | `Spec => []PoolBounded` | `~ReusePids`, `OneNameEach` |

The conditions are those the program itself relies on: an id in a list read from `ps`
still means the same process when the child acts on it, and a command line matches one
configured name (`OneNameEach`); without them the properties are false, which TLC shows
when the constants are changed. `KillsListedOnly` is an action property about
the moment of the kill; the invariant carries the name of the process from `ps` to that
moment: `RequestsBear` says that a request names a process by a word of its command line
in the list just read, in the pipe, and with the child. The other two need `PidInv`. Once
`rescanProcs` runs, no process is given to a second child since it skips the monitored
ones, but `initChildren` looks at none: there a process is not given out twice because
every name is met once and a process is found under one name only (`InitialPool`,
`GivenOut`: the processes given out are those of earlier names, and those crossed off the
current list). The bound on the pool follows because children other than
those of failed forks have different processes when a new one is made: none is idle.

`ServerProofs`, for any number of clients, signals, lines, kills and crashes
(from `SizesAssumption` of `Server`):

| theorem | states |
|---|---|
| `Typed` | `Spec => []TypeOK` |
| `StopsCorrect` | `Spec => []StopsAfterAll` |
| `ArrayCorrect` | `Spec => []OverrunOnlyWhenFull` |
| `FramingCorrect` | `Spec => []InStep` |

`Base` says which of the five stacks the server is in, where each frame is and which
client it deals with: the accept window (from `accept` to `clientCount++`) with client
`clientCount + 1`, everything else with a counted one. `StopsAfterAll` then follows from
`Tally`: `exitedClients[1..exited]` holds different counted clients, the one being dealt
with is not among them (`Array`), and an `exit` in a stream, or a marked client,
means that the client has reported unless somebody was killed (`Honest`). Since the
array can hold a counted client only once, a full count leaves nobody out. With as many
clients as entries the last confirmation is not in the array: `Full` is the state from
then on, in which every client has confirmed and nothing is left to do but to end, and the
invariant is `Tally \/ Full`. `ArrayCorrect` is read off it: only the step to `Full` writes past
the array. None of these theorems has a condition beyond `NClients <= MaxClients`, which
the array `clients` needs. `InStep` is not inductive, because the head of a stream is only known to be right if
everything behind it is in order: `Synced` says that for every listening client the
types in the stream are consecutive, start with what the client waits for, and end where
the frames that are sending to it will go on; two frames never send to the same client
at once, since SIGHUP sends only to counted clients and blocks itself.

`ServerTallyProofs`, from the same assumption:

| theorem | states |
|---|---|
| `TallyCorrect` | `Spec => []TallyExact` |
| `LogCorrect` | `Spec => []LogLosesOne` |

Both speak of the state at the end and need the framing of every connection towards
the server. `Stream` says that the messages on their way from a client follow on one
another (`output`, `text`, `output`, ...; `exit`, `kills`, `name`), start with what the
server reads next, and end where the client goes on writing. When SIGINT comes after
`main` has read the header of a line, `waitForClients` finds the text where it expects a
header and passes over it: that line is not in the log. `Lost` counts it, and since it is
the one `main` was reading there is one at most. `HalfTold`, `TrueCounts` and `Added` follow the count and the name of
one client from its report to `killCount` and `nodenames`. `Exact` is
their conjunction for as long as no read failed and no client was killed (`Calm`), and
`Result` what is left of it behind a full array (`Full`).
`Total` is defined as the number of the things that are counted, so that the sums are
cardinalities and no induction is needed.

`Procnanny2Proofs`, for any names, processes, command lines, files and bounds:

| theorem | states |
|---|---|
| `Invariant` | `Spec => []Inv` |
| `PoolCorrect` | `Spec => []PoolInBounds` |
| `DoneCorrect` | `Spec => []DoneMeansGone` |
| `PoolConsistency` | `Spec => []PoolConsistent` |
| `TypeCorrect` | `Spec => []TypeOK` |

`Inv` has four parts. `Places`: types, and nothing lives behind `childCount`. `Pool`: as
long as no SIGHUP has lengthened the list there is room for the rest of the current
scan and one child for every name to come. `Pipes`: headers and bodies alternate, the
last half tells where the child is, and `exit complete` is last. `Ends`: `exited` is at
most the number of children whose `exit complete` has left the pipe, so `done` means that
all are gone. `PoolConsistency` needs one more, `Jobs`, which holds until SIGINT: every
slot is without a child, idle with empty pipes, or busy with exactly one trace of its
request, wherever it is: half written, in the pipe, in the child, half answered, in the
parent's hands, or cut in two by a SIGHUP and lost, in which case the struct stays busy
for good. `TypeCorrect` needs `Jobs` too, since a process is given out only if it was
listed, and `Ranges`: SIGHUP may replace the names while `idx` walks them, so what bounds
`idx` is not `procCount` but the number of names a file can have, which is why the names
are assumed to be finitely many. `exited <= childCount` is `Ends` again.

`Procnanny2TallyProofs`, from the same assumptions:

| theorem | states |
|---|---|
| `TallyCorrect` | `Spec => []TallyClose` |

`Jobs` ends with SIGINT, when children take one another's answers and `exit` is written
behind requests half sent. What is left of it afterwards is `Fresh`: a child that works has
an empty pipe to the parent (`Answer`), of `available1` there is at most one body in a
pipe, `exit complete` is last, and a request not yet answered is at the head of its pipe
(`Ask`). On this stands the account of the kills, `Tally`. `Owing` are the children whose kill
is not in `killCount` yet: they have still to say so, or the body is in the pipe. `Whole` are
those of them whose header is still to be written, in the pipe too, or in the parent's
hands; only these will the parent come to read right. Then `AtLeast` says that `killCount`, `Owing` and the message being
handled are no more than `kills`, and `AtMost` that `kills` is no more than `killCount`,
`Whole`, the message being handled, the bodies cut by SIGHUP and the one that SIGINT
dropped. A cut or a SIGINT between header and body takes a child out of `Whole` and adds one
to the second sum. A body taken for a header empties the pipe of a child that has left
`Whole` already, so nothing is counted twice. While a child is in the inherited handler
the second sum may be wrong, but then that child never ends and the final message is
never given.

`Procnanny1Proofs`, for any number of procnannys, processes, names and configurations:

| theorem | states |
|---|---|
| `MutualExclusion` | `Spec => []OneNanny` |
| `TallyCorrect` | `Spec => []TallyExact` |
| `RoomForAll` | in every reachable state `childCount <= arraySize` |

`OneNanny` speaks of the procnannys past `killPrevious` only and is not inductive.
`Rivals` is: of any two that have listed and are up, one has the other among its
`Targets`, on what is left of its list or in the `kill` it is in. Listing keeps it, because two
processes in `ps` make `NoPrevious` false; the effect of a `kill` keeps it, because who
ceases to be a target is not up any more. Past `killPrevious` there are no targets. For `TallyExact`, `Family` says where each child is, how it ended and what its
parent has read of that, and `Blame` that a child ended by SIGKILL was a target of some
other procnanny, which therefore is past its own listing. `Room` is the same idea as
`PoolRoom` of the client, for the array `childpid`.

`PsimProofs`, for any numbers of stations, slots and trials, all protocols:

| theorem | states |
|---|---|
| `Typed` | `Spec => []TypeOK` |
| `FramesConserved` | `Spec => []Conservation` |
| `DelaysExact` | `Spec => []OldestFirst` |
| `RetriesWithFrames` | `Spec => []RetriesHaveFrames` |
| `TurnsCorrect` | `Spec => []TurnsComeRound` |
| `BackoffCorrect` | `Spec => []BackoffBounded`, if `MaxExp <= 10` |

The invariant is `Control` (places and ranges), `Frames` (list, counters, histories and
array agree, position by position) and `Retries` (who may be retrying under which
protocol); none of the parts needs a bound on the number of slots.

For the turns, `NextTurnModulo` shows that the index `runSim` steps by hand is the slot
modulo `N`. A frame next in line since slot `d` can then have waited no longer than the
slots since the station's last turn, fewer than `N`; the strengthening adds, at every
slot, the slots still to go until the turn of the station (`Turns`, with `Gap`). For the
backoff, the solver knows powers of two of literals only: hence the condition, with which
the program's value, 10, is covered.

Every invariant and action property of a passing run is stated by one of these theorems. What
stays with TLC is liveness (`NannyPromise`, `ExitAnswered`, the fairness part of
`ImplementsNanny`, `ServerStops`, `ReloadReaches`, `ExitCompletes`, `Promise`, `Takeover`), since the
prover has neither fairness nor `ENABLED`. No module that is proved about uses `RECURSIVE`.

## 6. Abstractions and what is not modelled

- Sleep times, timestamps, texts and the log files' contents. At end of file `ntohl`
  is applied again to the sleep times; nothing modelled depends on them.
- `ps` output is a set: its order is any order. A child asks `ps` for a process id,
  which can also match a number in another command line; it then tries to kill a
  process that is gone, an outcome `ChildKill` has anyway.
- Zombies are listed by `ps` and `kill` succeeds on them: they are counted again, in the
  program and in the model.
- Children inherit the write ends of their siblings' pipes: when the parent is killed
  they block in `read` for good. The model leaves them where they are.
- `killPrevious` in client, server and version 2: it is the function of version 1, which
  `Procnanny1` models with the procnannys it meets, and it is over before the program has
  children or connections. That a newer procnanny ends an older one later in its life is
  shown only as a killed client in `Server`.
- The configuration is one send of 16896 bytes; `recv` may return a part of it. `Server`
  and `ClientNode` deliver it whole.
- What clients do after the server's end is in `ClientNode`, not in `Server`.
- More than 32 clients or 128 names overrun arrays of the server without a check.
- `cleanup` of the client reads `childPool` after it was freed.
- Stdio and allocation inside signal handlers.

- In version 2: process ids given out twice and zombies (`ClientNode` has both, and the
  child is nearly the same), a second signal while the first is being delivered, a
  signal inside `popen`, the children's copies of the descriptors.
- In version 1: `readFile`, process ids given out twice, a `procnanny` of another name
  that `grep -w` matches too. An observation from reading, not from a run: `readFile`
  compares the line as `fgets` returned it with `procnanny` (`mainFunctions.c:38`), newline
  included, so it refuses that name on a last line without a newline only; versions 2
  and 3 compare the word `sscanf` made of the line.
- In PSIM: the command line, the logs, and the floating-point statistics; `printCI`
  divides by `T - 1` and `main` by counters that may be 0.

Not modelled at all:

- ESIM (`src/313-Assign1/ESIM/esim.c`): one sequential loop that resends blocks with random
  bit errors. Nothing runs concurrently, nothing is queued, and its results are averages.
- The socket test: a trial of the server's listening loop.
- Copies: `src/313-Assign2/psim.c` is PSIM before a macro was commented out, the frame
  lists of both directories are equal, and so are the two `esim.c`.
- `memwatch`: five identical copies of a vendored allocation checker, about three
  quarters of all lines of C in the repository. One fact of it is used: fresh memory is
  filled with 0xFE.

## 7. Plan

Done, in this order: `Nanny`, `ClientNode` and its proofs, `Server` and its proofs,
`Procnanny2` and its proofs, `Psim` and its proofs, `Procnanny1` with `killPrevious` and its
proofs. What could follow:

1. A byte-level connection for short reads of the configuration
   (`clientFunctions.c:338`).
2. `Esim`, if its averages are reduced to the integers they are made of.
