# Verification of dev-lang-sample

`dev-lang-sample` is a collection of libraries and samples in C++, Go, Java,
Kotlin, shell and SQL. It is not one system with one state, but its parts
have state, processes, threads, files and signals of their own. This
directory holds TLA+ modules of the parts where something can go wrong that a
test would hardly reach, the TLC configurations that check them on small
instances, and proofs of what matters most for every value of the constants.

`PROJECT.json` has the machine-readable side: the components with their
sources, the runs, for each property a mutated definition that breaks it, the
source lines of every definition, the findings, the hazards and the theorems.

Contents: [inventory](#1-inventory), [modules](#2-modules-and-code),
[runs](#3-runs), [findings](#4-findings), [fairness](#5-fairness),
[proofs](#6-proofs), [what is only model-checked and what is not
modelled](#7-limits), [plan](#8-plan), [how to run](#9-how-to-run).

## 1. Inventory

State, operations, interactions, hard behaviours and correctness of each
part. *M* marks what a module covers.

| Part (source) | State | Operations | Interacts with | Hard behaviours | Correct means |
|---|---|---|---|---|---|
| *M* `util::process` execute, wait, wait_for (`cxx/src/util/process.cc:41-209`) | signal mask, pending SIGCHLD, children in the kernel | execute, wait, wait_for | children, kernel, signal handlers | a signal lost before it is blocked; one signal for several children; EINTR; stops | bounded wait, status of the right process, mask restored |
| *M* `kill_pstree` (`process.cc:275-302`, `proc_pids`, `ppidof`) | snapshot of /proc, list of pids | stop root, list, read ppids, build list, kill | all processes of the machine | forks, exits and reaps during the scan; an uninitialised ppid; a name with a space and a number that is read as one | the tree is dead if nothing disturbed it, nobody else is, the call ends |
| *M* `util::hash::MD5` (`md5.cc`, `md5.h`) | bit count, block buffer, chaining values, digest text | update, final, digest | caller | message cut anywhere; block boundaries; update after the digest | digest of the padded message for every cut |
| *M* `FileBackupUtil.backupFiles` (`java/.../util/FileBackupUtil.java:101-167, 275-304`) | backup directory, renamed ones | rename, create, copy, delete | file system, clock, writers of the sources | crash between steps; swallowed exceptions; a source written to while it is copied; unique name by the second | the last copy of a file is not lost; what returned is saved; calls end |
| *M* `util::path` mkdir, rmdir, readdir (`cxx/src/util/path.cc:53-104`) | directory tree | mkdir, rmdir, queries | other processes on the tree | another process between test and act | somebody succeeds, calls end |
| *M* `FileUtil` directories (`java/.../util/FileUtil.java:144-264`) | directory tree | createDirectory, moveFile, deleteFiles, deleteDirectory | the same | the same; a test of the source two calls before its rename; results of mkdirs/delete ignored | directory created; file kept; tree emptied |
| *M* `CompletableFutureTests.concurrentAndPararrel` | shared LinkedList, pool | submit, isEmpty, poll, process, join | main thread and workers | isEmpty outside of the monitor | each task once, the join returns |
| *M* `slicehelper` (`go/util/collection/slice/slice.go`) | the caller's arrays | all 23 functions, on slices | slices that share arrays | aliasing; in-place removal; zero value; search bounds | set semantics; only Remove changes arrays that are there, and only behind the first `v` of its operand |
| *M* Go samples on channels, select, contexts (`go/test/channel_test.go, select_default_test.go, context_test.go, contextwithcancel_test.go`) | channels, goroutines, WaitGroup, contexts | send, receive, close, select, cancel | goroutines | choice of select, blocked senders, cancel during a send | no panic, tests return, no leaks beyond the documented samples |
| *M* `util::process` pidof, pidofcmd, pidofexe (`process.cc:18-68, 205-246`) | none; /proc is the machine's | list the identifiers, read each entry | every process of the machine | exits, execs, reaps and reused identifiers between list and read; zombies that keep their name; entries that may not be read | who ran the program throughout is found, nobody is mistaken for it |
| *M* `set_stdio` of execute (`process.cc:94-104`), `util::pipe` (`pipe.cc`) | table of descriptors; a command's output | dup2, close; read to the end | child | a descriptor that is needed later is replaced first; a character 0 | descriptors as asked for; the whole output |
| *M* `util::net::firewall` (`firewall.cc`) | iptables rules | check, add | other callers, iptables, `execute` and `wait` | check-then-add; a command that fails; a child without a program that goes on as its parent | TRUE means open; one rule |
| *M* `util::string`, names of `util::path`, `util::net`, `util::time` (C++), `PagenationUtil` (Java) | the C library's time zone | functions that take texts and times apart and make them | caller | separators at the ends, greedy groups, times before 1970, the first call before tzset, daylight saving, overflow | what was put in can be read back |
| *M* `SyncObjectTests`, `ThreadStopTests` (Java) | a monitor, a flag, an interrupt status | wait, notifyAll, sleep, interrupt, join | main thread and workers | a notification before the wait; an interrupt that a sleep consumes | join returns |
| *M* Go `CmdStdoutPipe` (`cmdexecutor.go:25-54`) | a pipe, a scanner's buffer | start, scan lines, wait | the command | the reader stops, the pipe is full | the lines are the command's; the call returns |
| *M* shell `runbg.sh` | a job, PID, two traps | start, forward a signal, wait | job, senders of signals | a signal before PID is set, a trap within a trap, `set -e` | no job stays behind; the status tells how the job ended |
| other Java thread samples (`CountDownLatchTests`, `ThreadPoolTests`, `VirtualThreadTests`), C++ ones (`mutex_recursive_test.cc`, `thread_test.cc`, `wait_test.cc`) | objects of the library | tasks handed to a pool, a lock taken again | library | none of their own | not modelled, see section 7 |
| `Ip4Util`, `StringUtil`, `ByteUtil`, `FileUtil` streams (Java), `fib` (Go) | none | functions of one or two lines | - | - | not modelled |
| SQL upserts (`sql/upsert.sql`), `killandwait.sh`, other scripts | tables; none | insert on conflict; loops around commands | - | - | not modelled |
| crypto (Go), zip/tar, logger, `err`, json, map | none of their own | library calls | - | - | not modelled |
| algorithm exercises, language samples, containers, builds, Kotlin | none | print | - | - | not modelled |

The libraries do not call each other across languages. Within one language
the interactions are: `kill_pstree` works on what `execute` forks (the two
modules share the view of a process as alive, zombie or reaped, but not a
state: `kill_pstree` never waits); `util::path` and `FileUtil` meet on one file
system, which is why `FileTree` composes them over one tree; `open_tcp_port`
runs its commands by `execute` and `wait`, whose ways out (a status, an
exception, a copy of the caller) are steps of `Firewall`; the Go samples
use channels and contexts only.

## 2. Modules and code

| Module | Lines it models | EXTENDED by |
|---|---|---|
| `ProcessWait` | execute, wait, wait_for | `ProcessWaitProofs` |
| `KillTree` | kill_pstree, proc_pids, ppidof | `KillTreeProofs` |
| `Md5` = `Md5Buffer` (refines `HashSpec`) and `Md5Round` | MD5 update, stream, final, digest; round | `Md5Proofs` (of `Md5Buffer`) |
| `Backup` | backupFiles and its helpers | `MCBackup`, `BackupProofs` |
| `FileTree` | path.cc and FileUtil.java on directories | `MCFileTree`, `FileTreeProofs` |
| `TaskQueue` | concurrentAndPararrel | `PartsProofs` |
| `GoSamples` | four files of go/test | `GoSamplesProofs` |
| `Slices` | slice.go | `MCParts`, `LibraryProofs` |
| `Library` over `Text`, `Uri`, `Time`, `Stdio`, `Paging` | functions of the C++ library and PagenationUtil | `MCParts`, `LibraryProofs`, `PartsProofs` |
| `Pidof` | proc_pids, pidof, pidofcmd, pidofexe, readlink | `MCParts`, `PartsProofs` |
| `Firewall` | firewall.cc, with what execute and wait may do | `MCParts`, `PartsProofs` |
| `CmdPipe` | CmdStdoutPipe | `MCParts`, `PartsProofs` |
| `RunBg` | runbg.sh | `MCParts`, `PartsProofs` |
| `JavaThreads` | SyncObjectTests, ThreadStopTests | `MCParts` |

In every module `pc` (or a component of a record) is the place in the code;
one action is one system call or one statement that others can see. Variables
whose comment says *history* do not exist in the code: they remember what the
properties speak about. Operators that no action uses and that stand
directly before the one they resemble (`TickPastZero`, `PollRacing`, ...)
are deliberately wrong variants, named in `PROJECT.json` under `mutants`: each
property is broken when such a variant takes the place of its neighbour.

### ProcessWait

One thread of the parent calls `execute`, `wait` and `wait_for`. The children
fork, exec (or throw and unwind, `process.cc:41-90`), exit, are killed, stop and
continue. `Send` is the kernel's treatment of SIGCHLD with its default
disposition: discarded while unblocked, merged with a pending one while
blocked; `info` is siginfo. `wait_for` is `CallWaitFor` (block SIGCHLD, note
the time), `Loop` (the while condition and the time left), `TakeSignal` /
`NoSignal` (sigtimedwait), `Restore` (mask, timeout_error) and `Reap` /
`WaitFails` (the final `wait(pid)`, which has no bound). `left` is the time left;
`Tick` may come between any two steps. Calls with invalid arguments change
nothing and are left out. One process has one calling thread: the code keeps
no lock, and a mask belongs to a thread.

### KillTree

Every process is unborn, running, stopped, zombie or gone; `parent` is the
kernel's. `StopRoot` and `List` are one step each; the ppids are then read one
by one (`Scan`), in any order, while others `Fork`, `Exit` and are `Reap`ed.
`Ppidof` returns what the code returns: the parent, or **any** pid in the two cases of
`Misreads`. When the stat file has vanished the variable is not initialised; and a space in
the name shifts the fields of `stat`, so that the fourth is what the name holds there: the number of
"copy (2)", which may be a process of the machine or the one asked about, and 0 if it
is none (`InitProc` stands for every number that is no process of the model). `misread` is the history of those that were
read as children of a process that is not their parent. The root may descend from a foreign process
(`RootParent`), so a misread above the root is in reach. The other processes go on until the call ends. `Build` is the breadth-first list (it
never ends if the root is below itself), `Kill` sends the signals from the
youngest generation up.

### Md5Buffer, HashSpec, Md5Round and Md5

`HashSpec` says what a hash object promises: bytes are appended, then the
digest of the padded message is fixed. `Md5Buffer` has the block buffer, the
count and the rounds; `hashed` of the abstract specification is the
concatenation of the blocks given to `round` once `final` was called. The i-th
byte of a message is the number i, so loss, repetition and reordering show.
`ReadStream` is one read of the
constructor on a stream, of BUFSIZ bytes or of what is left, given to `update` (`Feed`). `Md5Round` is
the mixing, on words of two halves, and `Md5` puts the two together: a block is
decoded to the bytes of a text, and `shift` is what a build makes of the
undefined shift in `rotleft`.

### Backup

A directory is a function from files to the version it holds, `Nothing`,
`Partial`, or `Mixed`. `Files.copy` reads a source that others write to in place: `copying` has
the versions that the copy under way may have read, `Rewrite` adds one during a copy, and `CopyEnd` leaves one of them
or, if there were several, parts of several (`Mixed`), which is a copy of none. `CheckExisting` .. `DeleteDirectory` are the file-system operations in
order; a copy is two steps, so a crash may leave a partial file. `Crash` is
possible at each step, and the next call finds what is on disk. `CopyFails`
is the `catch (Exception e) { continue; }`. Names are seconds: a second backup
within one second turns in the loop of
`getUniqueBackupNameWithTimeSeconds` until the clock has moved.
`CopyNeverLost` and `FreshBackup` count whole copies of one version only. A mixture makes an exception of its own in
both: `FreshBackup` allows it of a file that was written to since the call began, `CopyNeverLost` says that
with removeOldBackup such a mixture may be all that is left of a file.

### FileTree

`fs` maps paths to nothing, a directory or a file with its content. `stack[w]` is
the recursion of the call of process w, each frame with the directory it works on
and the entries it has listed and not yet seen: these may be stale. One action is
one system call. A directory is listed in any order. `Rename` is renameTo alone (`CanRename` is what the kernel
tests): it moves whatever has the name by then, though `isFile` looked at `FileUtil.java:172`, system calls before. `MovedFileKept` is
two promises: `FileSomewhere`, the file that was there is at the source or at the target, and `SourceStaysFile`, what is moved is
no directory unless some call makes directories where files are moved from. Calls of the model do not use a path below
a source that is to be moved. `MCFileTree` has the trees and the calls of the run;
which process makes which call makes no difference.

### TaskQueue

The queue holds `head .. NTasks`. `view[w]` is the head worker w saw when it last
held the monitor: the unsynchronised `isEmpty` may read any size from then to now
(`Loop`), while `Poll` is atomic (synchronized). The pool has fewer threads than
there are runs, so a run may start after others have finished.

### Slices

A slice is `[array, off, len, cap]` over a heap of arrays; `Pop` and `Shift` return
parts of their operand's array, `Remove` works in it, all others copy. `slice.go:4` promises "no side-effects",
which `Remove` does not keep. `ChangedInside` says how far its effect goes: a slice of the caller reads differently after
a call only if the call was a `Remove`, of a slice in the same array, from the first `v` of that slice to its end, and
a slice that holds all of the operand loses no element but `v`. `last` is the
last call with the elements of its operands when it was made. `sort.Slice` is a library
function: `Sort` is the sorted sequence, by the rank of each element. The loops of the package are
functions of the round (`SortedUnique`, `Compare` with `Round` and `RestRound`, `Keep` for the
loops that append what they keep, `Search` for `sort.Search`, `RemoveLoop`): what the variables of the loop hold after it.

### GoSamples

Each test is a program (`CASE` over goroutine and statement) whose statements are
interpreted by `Run`: communicate, take the default, park, close, go, wait. The
channel semantics is Go's: a parked sender or receiver is served in order
(`earlier` is the order in which those in `parked` came), a
send to a waiting receiver bypasses the buffer, a receive from a full buffer
releases a sender, close wakes every receiver, and a select takes any case that
is ready and its default only if none is. A context is a channel that is only ever
closed; cancelling a parent closes its children as well. Only contexts (`Contexts`) may be closed twice: a second close of
another channel panics, as a send on a closed one does, and `NoPanic` excludes both. `Expire` is a timeout
at any moment. Sleeps are arbitrary delays: no property relies on their length.
`seen` is history: what was received from each channel, in order.

### Library, Text, Uri, Time, Stdio and Paging

The functions are operators of the names they have in the code; a text is a
sequence of a few characters (in `Stdio` and `Text` the character 0 is one of
them). `Uri` is the expression of `net.cc` as sets of ends that a group may
have, the greedier first. `Time` has units of a few parts (4 milliseconds in a
second, 3 hours in a day) and counts of days that wrap at 16: the functions
are in terms of the units, not of their sizes. `Library` calls them on every small
input; only `GetUtcTime` and the printers share a state, which is whether
`tzset` was called. The ints of `Paging` go up to
`IntMax` and wrap; the tables of `Stdio` go up to `MaxFd`.

### Pidof

`table[p]` is the program process p runs, `zombies` those that were not reaped. The
reader lists the identifiers one by one, in ascending order, and then reads each:
`ReadText` for comm and cmdline, `IsSymlink` and `Readlink` for exe, since
`path::readlink` is two system calls. Others exec, exit and are reaped at any
moment, and an identifier is used again. A zombie keeps its comm, which `nameof` reads (`process.cc:44-49`): `pidof` may
return a process that had exited before the call, which is what `unreaped` stands for; `ran` has those that were running at the call or
began a program during it. `FoundRanIt` allows the former (`MayBeFound`) for `pidof` only. A program is what its entries show:
comm, argv[0], its file name, the link exe, and whether it may be read.

### Firewall

`open_tcp_port` is at its `-C` or its `-A` command or out of the call; `status[c]` is
what `wait` makes of its child. `iptables` is what the initializer made of two files:
one that is executable, or what follows the array. Each command may fail or be
killed, having done its work or not; `ExecuteThrows` is the exception in the
caller, `Copy` the one in the child, which is caught by the same handler there.

### CmdPipe

The command writes one character at a time and blocks at `Capacity`; the scanner reads
as much as it likes, up to `MaxToken`, cuts lines and stops at an empty one; `Wait`
waits for the command and reads nothing. What is to be returned is said by the places of the
newlines in the output (`LineStarts`, `LineEndFrom`), not by running a scanner again.

### RunBg

`line` is the next command of the script, `traps` the handlers under way, innermost
last. A handler is a `kill` and a `wait`; a handler that interrupts a wait makes
it return 128 and the number of its signal, which ends the script by `set -e`. The job ends by the
signals or ignores them, as `command` says.

### JavaThreads

`demo` is the test. A monitor has at most one owner and a wait set, and a waiting worker
may wake without a reason; the interrupt status is set by the main thread, consumed by
sleep and restored by the handler of one test.

## 3. Runs

Twelve runs, each finished within five minutes on two workers. Distinct states of the
passing runs: wait 98817, kill_tree 722099, backup 1318368, md5 396, task_queue
5475, file_tree 249034 from 880 initial states, go_samples 1148, parts 374155.

`parts` puts seven modules into one run: `MCParts` chooses a part at the start, the
others keep the one initial state that they are given, and the parts that have fairness keep it.
A property is often a conjunction of named parts; each part has its own
comment and mutant.

| Run | Bounds | Shows |
|---|---|---|
| `wait` | 2 children, durations 0..2, stops and handlers | `BlocksOnlyAfterForeignSignal`: when wait_for may block beyond its duration; `StatusIsTargets`; `CallersMask`; `ReturnsUnlessForeignSignal` |
| `wait_lost_signal` | 1 child, durations 0..3, no stops or handlers | violation, finding 1 |
| `wait_overrun` | 2 children, durations 0..2, no stops or handlers | violation, finding 2 |
| `kill_tree` | 4 processes: the root, two that it or its descendants may fork, a foreign one that is the root's parent; a space in the name of one of the last two | `CompleteIfUndisturbed`, `OnlyTreeKilled`, `Terminates` |
| `backup` | 2 files, all four option pairs, one rewrite per file (before, during or after its copy), clock 1..2, crashes, failures | `CopyNeverLost`, `FreshBackup`, `Terminates` |
| `md5` | the real sizes, messages of 0..130 bytes in all cuts, count modulo 128, a build that masks the shift | `BufferOK`, refinement `ImplementsHash`, and the test suite of RFC 1321 in `DigestIsMD5` |
| `md5_rotation` | a build that drops the shift | violation, finding 3 |
| `task_queue` | 3 workers, 2 threads, 4 tasks | `NoTaskTwice`, `CompletedMeansAllOnce`, `EventuallyCompleted` |
| `file_tree` | 3 processes, 6 paths, 4 trees, every three of 10 calls | `TypeOK`, `CallsSucceed` (mkdir, rmdir, createDirectory, and the removals that nobody disturbs), `MovedFileKept`, `CallsEnd` |
| `go_samples` | 18 tests; 6 rounds for 10..1000000, buffer 2 for 100 | `ChannelsOK`, `TestSawAll`, `NothingAfterDone`, `EverythingEnds` |
| `slice_remove` | 3 values, length 0..3, 2 calls | violation, finding 4 |
| `parts`: slices | 3 values with the zero value, length 0..3, spare capacity 0..1, 2 calls in sequence | `ResultsRight` (sets, search, ends, removal of one), `ChangedInside` |
| `parts`: library | texts of up to 4 of the characters that matter, 3 time zones, durations up to 700 units, descriptors 0..4, ints up to 15 and lists of up to as many | `TextsReadBack`, `TimesReadBack`, `UtcTimeRight`, `StdioAsAsked`, `PagesPartition` |
| `parts`: pidof | 3 identifiers, 3 programs, 4 events | `FoundRanIt`, `FindsAll` |
| `parts`: firewall | 2 callers, 4 calls, 2 faults | `PortOpenOnce` |
| `parts`: cmdpipe | output of up to 6 characters, pipe of 2, buffer of 3 | `LinesBeforeEmpty`, `ReturnsIfRestFits` |
| `parts`: runbg | 3 signals, a job that ends by them with 0, 3 or 138 or ignores them | `ExitMeansEnded`, `TermEnds` |
| `parts`: javathreads | 2 workers | `JoinReturns` |

Why the bounds are enough:

- `wait`: SIGCHLD merges as soon as two children are involved, and wait_for
  speaks of its own child and "another". Three steps of time tell "expired",
  "one more turn" and "two more turns" apart. Children are not symmetric in the cfg
  because the temporal properties are checked.
- `kill_tree`: with two descendants there is every tree that matters (a chain, two
  children, an orphan handed to init), and with one foreign process a branch that a
  misread ppid can hang below the root, or, since it is the root's parent, a cycle that it can close.
- `backup`: one rewrite per file is enough for a mixture. Losing a copy takes a call that fails and one before it; two files let
  one fail and the other succeed. The clock allows a call in the first second,
  a renaming in it, and the wait for the next.
- `md5`: the branches depend on the offset in the block, on the length of the
  bytes against the block's remainder, and on the boundary at B-L. With the real sizes of
  64, 8 and BUFSIZ 64 all offsets and all lengths up to two blocks occur, and the count wraps (at
  128 instead of 2^61). The test suite has a text of each number of blocks.
- `task_queue`: a worker that sees a stale size, one that polls null and one that
  starts late occur with three workers on two threads; it is also proved for all sizes.
- `file_tree`: recursion two levels deep, an empty directory, a file in the way, a
  file below; three processes let two disturb the third at once.
- `slices`: an alias needs one call (Pop or Shift), a change through it another. Three
  values and length three contain all equalities, orders and positions of one and of
  two repetitions, and the missing element below, between and above.
- library: a separator at both ends with a field between takes three characters, two lines within
  a text four; the sets of characters have one of each class that an expression tells
  apart. Every number of each unit, and all carries, occur below 700.
- pidof: one identifier before the reader's place, one at it and one behind; four events let a
  process exit, be reaped and its identifier be taken twice.
- firewall: two callers overlap in every way; each fault kills one command of one call.
- cmdpipe: a line that fits, one that does not, an empty one and a rest that is longer than
  the pipe fit in six characters.
- runbg: the traps nest twice, and a third signal is merged with a pending one.
- javathreads: notifyAll wakes both, one or none; loops have no bound.
- go_samples: the samples repeat one step; six rounds fill a buffer of two, block
  a sender and drain it. Channels without a bound in the code keep their capacities.

`CHECK_DEADLOCK FALSE` is set where the modelled code ends (kill_pstree returns, the
clock of Backup stands still at its bound, the queue is drained, the calls of FileTree
are over, the sequence of slice calls has its bound, a test, script or call has returned). In
`ProcessWait` and `Md5` the caller can always call again, and deadlock is checked.

## 4. Findings

1. **wait_for misses an exit before it starts** (`process.cc:161`): SIGCHLD is
   blocked only on entry and the process never polled, so a child that has
   exited is reported by timeout_error, although `process.h:59` says "is not
   terminated normally within given duration", and stays a zombie.
2. **wait_for may block for ever** (`process.cc:168`): sigtimedwait returns the
   signal number, which is not 0, so the first SIGCHLD, another child's
   included, leaves the loop for a `waitpid` without bound.
   `BlocksOnlyAfterForeignSignal` and `ReturnsUnlessForeignSignal` say that this
   is the only way it can happen.
3. **rotleft does not rotate in a release build** (`md5.cc:28`): the right shift counts
   `(sizeof(T) >> 3) - n`, which is negative and so undefined. A debug build masks it
   to the right count; g++ 12 with `-O` (`src/cxx/makefile:68`) drops it, and the digests are not MD5.
4. **Remove panics or leaves elements** (`slice.go:168`) when the value occurs
   more than once; `RemovesOne` says that it is right otherwise. That it changes the array of its operand, against
   "no side-effects" at line 4, is stated by `ChangedInside`.

What properties say beside, as exceptions of their own. Each exempts exactly the case named, so the property does
not catch that case; it says that there is no other:

- A fork of a member, or an exit that orphans a child, during `kill_pstree`, and a name with a space, leave members alive
  (`CompleteIfUndisturbed`); a process read by a misread ppid may be killed or close a cycle (`OnlyTreeKilled`, `Terminates`).
- A backup of a file that is written to while it is copied may be a mixture (`FreshBackup`, `CopyNeverLost`).
- A directory that takes the place of a source is moved for it (`SourceStaysFile`).
- A zombie is found by its name (`FoundRanIt`).
- A page whose bounds overflow an int has not the items it should (`PagesPartition`).

- The old backup is removed after an incomplete one (`FileBackupUtil.java:138`): line 90 says
  "after backup complete", but exceptions of copies are swallowed (`CopyNeverLost`).
- The first `GetUtcTime` of a process takes local time for UTC unless something has called
  tzset, and in daylight saving it is wrong by one or two hours (`UtcTimeRight`).
- The text of an instant before 1970 with milliseconds reads a second late (`InstantReadsBack`).
- `pidofexe` throws when a process vanishes under it (`FindsAll`); the empty name finds what cannot be
  read (`FoundRanIt`).
- `set_stdio` gives a stdout of 0 what stdin has become (`StdioAsAsked`).
- `CmdStdoutPipe` drops what follows an empty line, and never returns if that does not fit
  the pipe (`ReturnsIfRestFits`).
- runbg leaves its job behind if SIGTERM comes before `PID=$!`; it exits with the status of the job,
  with 1 or with 138 where its last line says 143 (`NoOrphan`, `StatusSays`).
- A worker that comes to `wait` after `notifyAll` is joined in vain (`JoinReturns`).
- Two overlapping calls of `open_tcp_port` add the rule twice (`NoDuplicate`).
- Of several rmdirs of one directory all may throw: each meets what another has removed (`OneRmdirSucceeds`
  says that at most one succeeds).

## 5. Fairness

| Module | Assumed | Because |
|---|---|---|
| `ProcessWait` (`FairSpec`) | `WF(Progress)`, `WF(Tick)` | the thread is scheduled, time passes. Nothing of the children, which may run for ever, and nothing of handlers: EINTR is not in `Progress` |
| `KillTree` | `WF(Step)` | kill_pstree never waits for another process; nothing is assumed of these |
| `Backup` | `WF(Step)`, `WF(Tick)` | the process is scheduled, the clock goes on; a crash is never fair |
| `TaskQueue` | `WF` of the main thread and of each worker's thread | threads of a pool are scheduled; a thread that finds no room in the pool is not enabled |
| `FileTree` | `WF` per process | each process is scheduled; system calls return |
| `GoSamples` | `WF` per goroutine and of `Expire` | the Go scheduler runs every runnable goroutine; a deadline passes. No fairness between the cases of a select: the samples' promises hold for every choice |
| `CmdPipe` | `WF` of the command and of its reader | both are scheduled; the command blocks only at the full pipe |
| `RunBg` | `WF` of the script, of each trap, and of a job that a signal is to end | nothing is assumed of a job that ignores the signals |
| `JavaThreads` | `WF` per thread | threads are scheduled, sleeps end; no notification is assumed, and no wakeup without one. The monitor is taken so rarely that weak fairness gets everyone in |

Strong fairness is assumed nowhere. `Pidof`, `Firewall`, `Slices` and `Library` promise nothing that needs fairness.

## 6. Proofs

All proofs are for every value of the constants under the named assumptions of the
modules: any number of children, files, workers and processes, any tree, any block
size, any width of an int. Safety only: fairness plays no part in them. Each
invariant was checked by TLC on the instance of the run before it was proved. The
step that preserves it is proved action by action, a lemma each.

**`ProcessWaitProofs`** - assumptions `DurationAssumption`, `FlagAssumption`,
`PidAssumption` (the null pid is no child). `BlocksOnlyAfterForeignSignal` is not
inductive: it says nothing of what the loop learned before `waitpid`. The invariant is

    Inv == TypeOK /\ Locals /\ Terminations /\ Reported /\ StatusIsTargets

`Locals` ties `pc`, `fn`, `info` and `wait_result` to each other (in particular:
`wait_for` reaches its `waitpid` only with a SIGCHLD in `info`); `Terminations`
says that a pending or taken SIGCHLD about a termination is of a process that is a
zombie or reaped; `Reported` that a reported status names a child.
Theorems: `TypeCorrect`, `BlocksOnlyAfterForeign`, `StatusSound`; `MaskRestored`
(`CallersMask`, a temporal property) uses in addition that between calls `blocked`,
and during wait_for `sigold`, is the caller's mask.

**`BackupProofs`** - assumption `BackupAssumption`. `Inv == TypeOK /\ CallInv /\ DirsInv`:
`CallInv` relates `pc`, `renamed`, `copying` and `todo` (a name is chosen only
where no directory is, so the move overwrites nothing; during a copy, `Copying(f)`: every version it may have read is
one that the source had since the call began, and there are two only if the source was written to), `DirsInv` what has been
copied so far in a call without exceptions, and that a directory that does not exist
holds nothing. `NextInv` proves `Inv'` together with `NoLoss`, action by action, since
the two need the same cases. Theorems: `CopiesKept` (`CopyNeverLost`) and
`BackupIsFresh` (`FreshBackup`).

**`KillTreeProofs`** - assumption `ProcsAssumption` (finitely many processes, init
not among those that are modelled). The invariant is

    IInv == TypeOK /\ KernelTree /\ TreeInv /\ ReadInv /\ LiveBelow /\ SnapshotInv

`KernelTree` is what the kernel keeps up (a parent other than init is alive), `TreeInv`
that `tree` has the children of its members, `ReadInv` that but for `misread` processes
nothing was read that hangs a stranger below the tree (so who is listed and not of the tree hangs below a misread
stranger, `Hung`), `LiveBelow` and
`SnapshotInv` that while nothing disturbs the scan the members that live hang below the
root, were read as they hang, and are on the list until they are killed. The descendants are used as the smallest set that holds the root and is
closed under children (`DescendantsClosed`), so no induction over generations is
needed. Theorems: `OnlyTreeTheorem` and `CompleteTheorem`.

**`Md5Proofs`** - assumption `SizeAssumption` on the sizes. `Md5Inv` says that the
blocks hashed and the filled part of the buffer are, put together, the message so far
(`Holds`), and that the count is its length modulo 2^w. The lemmas on `Absorb` follow the three
places of `update` that copy: fill the rest of a block, hash whole blocks from the
input, keep what is left. That the blocks of a text, put one behind the other, are the
text (`FlattenBlocks`) is proved by the least number of blocks for which it would be false.
Theorems: `BufferOKTheorem`, and `ImplementsTheorem`, the refinement of `HashSpec`:
`FeedExtends` maps an update to `Extend` or a stutter, `FinalStep` the digest to `Finalize`.

**`FileTreeProofs`** - assumptions `TreesAssumption` (the given trees are trees, of paths of
any depth) and `ProcsAssumption`. The first invariant is

    FileTreeInv == LocalInv /\ IsTree(fs) /\ MoveInv

`LocalInv` says of each frame of the recursion that it is next to the one before it and that its
label belongs to its operation. `Changes(w)` sums up what one step may do to the tree: nothing, make, remove
or rename one entry, under the conditions that the kernel checks; a rename may be of a directory that took the place of
the file. `StepKeepsTree` needs no more. That what is moved is no directory (`SourceStaysFile`) holds by what the other calls
can make there. Theorems: `TreeTheorem` (`TypeOK`), `MovedTheorem` (`MovedFileKept`).
`CallsTheorem` (`CallsSucceed`) rests on a second one,

    CallsInv == IsTree(before) /\ CreateInv /\ RootInv /\ MkdirInv /\ RmdirInv /\ WalkInv

one part per kind of call. `MkdirInv`: of processes that make one directory there is one that finds what it is to make
missing (`InTime`), until one has made all of it. `RmdirInv`: the directory is gone once one has
removed it, which alone returns true. `WalkInv` is the traversal of a removal that is apart from the others: what is not yet
removed is ahead of it (`Ahead`: in a directory of the stack that is still to be listed, or below an entry
that has been listed), and what it has passed is as it leaves it (`Leaves`). `ApartStep` says that a step of a process
elsewhere changes none of that.

**`LibraryProofs`** - assumptions `IntMaxAssumption`, `MaxFdAssumption`; for Slices `ElemsAssumption` (the elements are
integers, 0 is the zero value) and `MaxLenAssumption`. `PagesTheorem`
(`PagesPartition`) is arithmetic of ints that wrap: an item is on one page unless the bounds of its page overflow.
`StdioTheorem` (`StdioAsAsked`) follows three replacements in a table of any size. `UtcTheorem` (`UtcTimeRight`) holds in any zone: the
value of three digits (`ThreeDigits`) is below 1000, so `GetUtcTime` does not throw. All are about the
last call (`PageCalls`, `StdioCalls`, `UtcCalls`), which holds what the function returns. `ChangedInsideTheorem`
(`ChangedInside` of Slices, an action property): every function but `Remove` appends at most an array and a handle
(`NewArray`, `NewHandle`), so what any older slice reads as is what it was. The loop of `Remove` writes only from the first `v` on and
inside its operand, and no element but `v` disappears, wherever the loop stops or panics (`Moved`, kept by a round in `RemoveMoves`);
`ReadsMoved` carries that to every slice that shares the array, whichever part of it. `ResultsRightTheorem` (`ResultsRight`) says
what each function returns, for slices of any length. Its invariant is

    WithinInv /\ CallRight

`CallRight` is what `ResultsRight` says of the last call. `WithinInv` (the arrays hold elements, and every slice is nil or ends
where its array ends) is what makes it inductive: only of a slice that lies within its array is it known what it reads
as, and the functions are right only of sequences of elements. Each loop is done in three steps. `LoopExists`: a
function of the round that is given by the round before exists, for any number of rounds. `LoopStays`: what holds before
the first round and is kept by a round holds after the last; both are inductions over a *set* of
rounds (`Induct`), which needs no operator as a parameter. Then one lemma per loop has its invariant: the merge of
`Compare` has logged exactly the elements below both of its counters, once each and in order (`MergeStep`,
`CompareIs`); the binary search has smaller elements before its interval and no smaller one after it, and halves it
in fewer rounds than there are elements (`SearchIs`); `Remove` has changed nothing before it meets `v`, and after
that there is no other (`RemoveRight`).

`TimesTheorem` (`TimesReadBack`), with `UnitAssumption`, is about five functions of time.h and time.cc. `TimeCalls` says
that the last call has the result of its function; the rest says what that is.

- `DurationIs`: `ReadFields` is a loop over the fields, so one more field reads as what was read before it and itself
  (`ReadMore`); `FieldsMakeUp` says that the quotients and remainders of the fields are the duration, whichever fields are left out.
- `InstantIs` and `AmountIs` are arithmetic: the truncation towards the epoch, and the counts that fit their word.
- `PlainIs`: `PaddedMore` says that a number with `w` digits is its quotient with `w - 1` and the remainder, so texts of the same
  length are in the order of their numbers; `LexConcat`, that what is written behind decides only where those before are
  equal. `TextsNext` adds one field of the date after the other. The digits are a recursive function, of which two with
  the same rule are one (`OneRule`).
- `HourMinuteIs`: `ExtractIs` gives the one number that is behind a position, `GetTimeIs` what get_time reads.
  `FallbackRead` says that what the regular expression accepts get_time has read already: the second attempt
  of the function never adds a result.

**`GoSamplesProofs`** - assumptions `SamplesAssumption` (any of the eighteen samples), `ManyAssumption` (an even
number of rounds, at least two: 10, 140, 1000 and 1000000 are) and `BufferedAssumption`. The invariant is

    GoInv == GoType /\ ChannelInv /\ SampleInv

`GoType` has the types, and that `earlier` is a strict order of the parked goroutines, so that somebody is the first
of those who wait (`FirstIn`). `ChannelInv` says that a buffer is within its capacity, that nothing lies in
it while somebody waits to receive, and that no case of a parked goroutine is ready. A step may move two
goroutines at once, or all that a close wakes; the lemmas on the steps of the channels therefore end in `Views`,
what one goroutine, or one channel, sees of any step: a sender that moved has put its value at the end of
`Stream(ch) == seen[ch] \o buf[ch]`, whoever received it, and a reader that moved has what it was next to read.
`SampleInv` then has one conjunct per sample whose test relies on something, each an induction over one sender and one
reader: how far the sender is says what the stream holds and whether the channel is closed, how far the reader
is says what it has seen. The goroutine that closes a channel is its only sender (`OwnerSafe`), which is why nobody
sends to a closed one. Theorems: `GoInvariant`, `ChannelsAreOK`, `TestsSeeAll` (`TestSawAll`) and, from the same
invariant, the action property `NothingIsPrinted` (`NothingAfterDone`): the worker never waits at the printing channel, so
no send meets it there, and main is never parked at a send once the context is done, so the worker finds nothing there either.

**`PartsProofs`** (extends `LibraryProofs`) - the small protocols of `MCParts`, `TaskQueue`, and the record of a URI:

- `FirewallInv == FirewallType /\ StatusInv /\ TrueMeansOpen /\ RulesInv`, with
  `CallersAssumption` (finitely many callers). `RulesInv` counts: the rules that are there and those about to be
  added (`Adders`) are at most the callers and the faults together, and one more than the faults while no calls have overlapped. `PortOpenOnceTheorem`.
- `PidofInv == PidofType /\ TableInv /\ StayedInv /\ FoundInv /\ VanishedInv`, with `MaxPidAssumption`,
  `AtStartAssumption`, `FileAssumption` (what basename makes of an empty text), `NoProgramAssumption`. `TableInv`: who
  is listed as running is in `ran`, a zombie in `ran` or `unreaped`. `StayedInv`: who ran
  the program throughout is still to be listed, still to be examined, or found; `FoundInv`: who is found
  ran it at some moment of the call, or is a zombie of before and found by its comm. `FoundRanItTheorem`, `FindsAllTheorem`.
- `RunBgInv == RunBgType /\ LineInv /\ TrapInv /\ EndInv /\ NoOrphan /\ StatusSays`, with `StatusAssumption`.
  `TrapInv` says which handlers can be under way at which line. `ExitMeansEndedTheorem`.
- `CmdInv` of `CmdPipe`, with `SizesAssumption`. Its core is `ScansAt(p)`: the next line to be taken starts at `p`,
  none that starts before `p` ends the scan, and the list has exactly those lines (`Lists(scanResult, p)`). `p`
  is the character after what is consumed, or one further at the end of an output without a newline at its end.
  A step of the scanner either takes the line at `p`, and `ListGrows` to the next start, or finds that `p` is `StopAt`:
  the line is empty, does not fit the full buffer, or there is none. `LinesBeforeEmptyTheorem`.
- `IInv == QueueTypeOK /\ PolledOnce /\ NothingDropped /\ DoneAtEnd` of `TaskQueue`, with `QueueAssumption`: a task below
  `head` is either processed once or in the hands of exactly one worker, one from `head` on is untouched, and a
  worker that is done has seen the queue empty (`head = NTasks + 1`: sizes only fall, so a size of 0 that is read
  is still true). `OnceTheorem` (`NoTaskTwice`), `CompletedTheorem` (`CompletedMeansAllOnce`).
- `UriTheorem` (`UriRejoins` of `Library`), for texts of any length over any characters. `MatchHas`: every match of the expression ends each
  group where the group may end, given where the ones before it ended. `BetweenJoins`: neighbouring parts of a text put
  together are the part between the outer ends. `RecordRejoins` takes the seven parts from left to right.

`TypeOK` of `Backup`, `QueueTypeOK` of `TaskQueue`, and the type invariants of the parts, are not listed in their
runs because they are proved as conjuncts of these invariants.

## 7. Limits

*Only model-checked*:

- all liveness (`ReturnsUnlessForeignSignal`, `Terminates`, `EventuallyCompleted`, `CallsEnd`, `EverythingEnds`,
  `ReturnsIfRestFits`, `TermEnds`, `JoinReturns`): fairness and `ENABLED` are outside the prover's reach;
- `DigestIsMD5`: the mixing uses `Bitwise`, and the test suite is a table of texts;
- `TextsReadBack` but for the record of a URI (`UriRejoins`, proved as `UriTheorem`): splitting, trimming, paths, queries and bytes are
  a fold each over a text, or several. Each would need what the texts of times needed, an invariant of its own for any length;
  that is not done. The run has all texts of up to
  four of the characters that the functions tell apart.

*Abstracted*: reuse of pids in `ProcessWait` and `KillTree`; two processes that back up at once (nothing in
the code runs two); the hex text of a digest; the contents of files beyond
"which version"; symbolic links and permissions in `FileTree`; the printed text of samples; the
length of sleeps; the calendar; a name with blanks in comm, of which `nameof` reads the first word; weak memory
except for the stale `isEmpty` of TaskQueue; signals before `runbg.sh` has set its traps.

*Not modelled*: cryptography (calls of a library, whose mathematics is what
matters), zip and tar (formats of a library), JSON and map wrappers, logging, the error
class, containers and builds, the Kotlin greeting, and exercises that only print. The other thread
samples hand their tasks to a library and wait for it: no order of their own steps can go
wrong. The remaining utilities are one-line wrappers, which a unit test covers as well as a model would;
`killandwait.sh` is one loop, and the SQL upserts take a maximum.

*Hazards outside of the list in `PROJECT.json`*, which keeps those that matter most:

- outside any model: the dereferenced end iterator in `firewall.cc:17` beyond its outcomes "null" and
  "garbage", the data race in `closure_test.go:37` whose result is only printed, the reads beyond a short
  string in `string.cc:36`, the bounded pool of `ThreadPoolTests.java:178`;
- outside the bounds of a module: a pid reused before its SIGKILL (`process.cc:298`), two
  backups at once (`FileBackupUtil.java:302`), an append by the caller to what `Pop` returns
  (`slice.go:328`), the senders that `select_default_test.go:17` leaves blocked, `BlockingFnD`, which polls
  for ever (`context_test.go:132`);
- covered by a property beside another hazard: the stale type of an entry in rmdir (`path.cc:93`), days
  that wrap (`time.h:119`), update after the digest (`md5.h:35`), the cycle of ppids (`process.cc:289`), empty directories (`FileUtil.java:254`);
- not modelled: the sum of `fib.go:14` that wraps, the short read of `FileUtil.java:87`, the target of
  `killandwait.sh:7` that ignores SIGTERM, the retry count of `check-db-size.sh:101`.

## 8. Plan

Ordered by what it adds:

1. Proofs: the other parts of `TextsReadBack`, once their folds are functions like the loops of Slices.
2. Larger instances: three callers of `open_tcp_port`, four identifiers in `Pidof`.

A violation run is removed when its finding is fixed in the code, and the promise it
shows broken then becomes a property of the passing run beside it.

## 9. How to run

    tlc -workers 2 -config Wait.cfg ProcessWait      # model-check
    tlapm ProcessWaitProofs.tla                      # prove

The module of each cfg is in `PROJECT.json` under `runs`. The proofs are in `ProcessWaitProofs`, `BackupProofs`,
`KillTreeProofs`, `Md5Proofs`, `FileTreeProofs`, `GoSamplesProofs`, `PartsProofs` (a few
minutes each) and `LibraryProofs` (the longest, a quarter of an hour).
