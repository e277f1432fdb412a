# A verification project for `dsh` and the listings beside it

The repository is the course work of an operating systems class. Its program is
`dsh`, a "diagnostic shell" in C (`src/prog2`), written on top of a first
version (`src/prog1`). Beside it lie the listings of the textbook the class used
(`src/ALP-listings`, "Advanced Linux Programming"), among them an HTTP server,
job queues, semaphores and a socket server, and a few demonstrations. This
directory holds TLA+ models of them, the TLC runs that check the models, and
TLAPS proofs of the safety properties: of the parsers, the line reader, the main
loop, the pipeline runner and its refinement of an abstract pipeline, the built-in
commands, the HTTP server, the job queues and most of the other listings.

Line numbers are of the files in `src/`. `dsh.c`, `run.c` and `special.c` without
a directory are those of `src/prog2`; `prog2.tex` is its documentation;
`server.c` and the other sources of the HTTP server are in
`ALP-listings/chapter-11`.

## 1. Inventory

### The shell, `src/prog2`

| Component | State | Operations | Modelled by |
|---|---|---|---|
| Line reader: `dsh_prompt` (dsh.c:34) and the `scanf` in `main` (dsh.c:265) | standard input, a buffer that grows by 256 bytes, `num_read` | read a block, grow, fail, return a line, "nothing" or "exit"; skip one character | `Prompt` |
| Tokenizer: `parse_input` (dsh.c:106) | the line, cursor, quote parity, the argument vector | a counting loop that writes NULs into the line, two early returns, a storing loop | `ParseInput` |
| Operator parser: `parse_special`, `pipeBuilder`, `parse_set_free` (special.c) | the vector, the mode, the `parse_set` and its structs | one branch per operator `< > >> \| )) ((`, errors, allocations, cutting into argument lists | `ParseSpecial` |
| Pipeline runner: `run_special` (special.c:490) | two processes, their descriptor tables, `p[2]`, `fd_in`, the pipes | pipe, fork, the child's redirections, exec, wait, close | `RunSpecial`, specified by `Pipeline` |
| Remote pipes: `dserver`, `dclient` (special.c:396-485) | a port, its queue of connections, the two ends of each | bind, listen, accept, write; resolve, connect, read | `RemotePipe`; the child's descriptors in `RunSpecial` |
| Main loop, `run_command`, `Run`, `New_Process` (dsh.c, run.c) | `main`'s variables, the heap, stdio's buffer, one child | a round of the loop, dispatch, fork, exec, wait3 | `Shell` |
| Heartbeat: `hb`, `hb_ticker` (run.c:290-413) | two threads, a ring of 1024 times, `buffer_pos`, `complete`, all without a lock | tick, busy wait, copy out, join | `Heartbeat` |
| `systat` (four threads) and `cmdnm` (one) (run.c:20-230) | buffers on the caller's stack | create, open, read, join, print | `Systat` |
| `signal`, `cd`, `pwd` (run.c:66-275) | the working directory, files others change | kill with its arguments swapped or not; stat, then chdir; getcwd | `Intrinsics` |
| The first version (`src/prog1`) | a line, standard input with stdio's buffer, one child | prompt, parse, dispatch, fork, exec, wait | `FirstShell` |

How they interact. `main` calls `dsh_prompt`, `parse_input` and `parse_special`
in turn, hands them its pointers, and by the mode calls `run_command` (no
operator) or `run_special` (a pipeline, a redirect or a remote pipe).
`parse_special` cuts the vector `parse_input` made, in place, and hands
`run_special` a set of pointers into it. `run_special` and `New_Process` fork;
parent and child share pipes, descriptors and, as a copy, what stdio has not
written. `hb`, `systat` and `cmdnm` start threads that write into a struct or
buffers on the stack of the calling thread. Two shells on one network meet at
the port of a remote pipe.

### The listings, `src/ALP-listings`

| Component | State | Operations | Modelled by |
|---|---|---|---|
| HTTP server, `server_run` and its SIGCHLD handler (server.c:66-302) | the listening socket, a child per connection, at most one pending signal, descriptors | socket, bind, listen, accept, fork, close; the handler's one `wait` | `HttpServer` |
| A connection: `handle_connection`, `handle_get` (server.c:80-222), `module.c` | a buffer that reads overwrite, the words found in it, a loaded module | read, sscanf, strstr, answer, `dlopen`, `dlsym`, `dlclose` | `HttpRequest` |
| The page modules `time.c`, `issue.c`, `diskfree.c`, `processes.c`, with `common.c` | what was sent, `df`'s status, the vector of rows | open, fork, waitpid, realloc, sendfile, write, writev | `Pages` |
| Command lines: the server's `main.c`, `chapter-2/getopt_long.c` | `argv`, `optind`, the settings | one per option, the leftovers, the exit | `Options` |
| Job queues (`job-queue1.c` to `3.c`) | a list, a mutex, a semaphore, threads | enqueue, lock, wait, unlink, process, free, post | `JobQueue` |
| Thread flags (`condvar.c`, `spin-condvar.c`) | a flag, its mutex, a condition variable | test, sleep, wake, work; set and signal | `ThreadFlag` |
| Cancellation (`critical-section.c`) | account balances, the cancel state | check, load and store each balance, cancel | `Transfer` |
| Ends of threads (`tsd.c`, `cleanup.c`, `cxx-exit.cpp`, `thread-create2.c`, `detached.c`) | what each thread holds, the frame of `main` | create, return, exit, throw, cancel, join, release | `ThreadEnds` |
| `socket-server.c`, `socket-client.c` | the backlog, a connection, a text in flight | bind, accept, read a length, read a text, close, unlink | `SocketServer` |
| Semaphores (`sem_all_deall.c`, `sem_init.c`, `sem_pv.c`) | the value, each process's undo | allocate, initialise, wait, post, killed | `Semaphore` |
| `pipe.c`, `dup2.c` | a pipe, the parent's stdio buffer, both processes | fork, close, print, flush, read, exec, wait | `ForkedPipe` |
| Calculator (`appendix-a`) | a stack of unary numbers, the heap | a word of the line, an operator, the two ends of a line | `Calculator` |
| `write_all`, `better_sleep`, `random_number` | what is left to do | a system call that does all, a part or nothing | `WholeLoops` |

The server's `main` sets the module directory and calls `server_run`; that forks
a child per connection, which inherits the SIGCHLD handler and runs
`handle_connection`; that loads a page module, whose `module_generate` writes to
the connection and may fork a child of its own (`df`), whose death the inherited
handler sees first. The listings of the other chapters stand alone.

### What is hard about it, and where it is looked at

- *Two passes that must agree.* The tokenizer counts slots with one loop and
  fills them with another, over bytes the first has changed. The operator parser
  counts commands by one rule and cuts them by another, with no check for the
  end. An error of one is an overrun of the heap by the other.
- *Processes and pipes.* A reader ends only when all copies of the write end are
  closed, the shell's and its own included; the shell waits for each command
  before it starts the next; descriptors leak and `pipe` is not checked. The
  HTTP server and its child each hold the connection, and the child the
  listening socket.
- *Signals.* SIGCHLDs coalesce, and the server's handler waits for one child per
  signal with a call that blocks when there is none to take.
- *Threads without locks.* `hb` passes two-word times through a ring with plain
  loads and stores; `job-queue1.c` shares a list; `critical-section.c` keeps out
  cancellation and nothing else.
- *Threads with locks.* A wake-up may be lost, a semaphore posted too often or
  too early.
- *Partial reads and writes.* A request comes in any number of reads into one
  buffer; `writev` and `write` may do a part, or nothing.
- *Failures.* Each allocation, `fork`, `pthread_create`, `fopen` and `accept` may
  fail; some of those results are not looked at, others are asserted. Processes
  are killed while they hold a semaphore, threads cancelled while they hold a
  buffer.
- *Reuse.* stdio's buffer is copied by `fork`, the file offset of the standard
  input is shared with every child, and one and the same exit status means "not
  found" and "the program said so".

### Not modelled

| Part | Why |
|---|---|
| `src/prog2/prog2`, `src/prog1/prog1submit`, `*.c~` | copies of what is modelled. `prog2/prog2/special.c` waits without looking at the status, which is the mutation `NoFailure` of `RunSpecial`; where `prog1/prog1/dsh.c` differs (it does not look at the number of arguments) it is in `FirstShell` as `version = "submitted"` |
| `simple.c`, `redirect.c`, `funcpointer.c`, `remotehost.c`, `hello.c`, `token2.c` | demonstrations, one library call each |
| `src/prog4` | a simulator that was never written: empty files and seven lines of practice |
| `thread-create.c`, `primes.c`, `thread-pid.c` (chapter 4) | the pattern of `thread-create2.c`, and two numbers printed |
| `mmap-read.c`, `mmap-write.c`, `shm.c`, `popen.c`, `socket-inet.c` (chapter 5) | one process and a file or a segment; `dup2.c` in one call; a client of a server that is not here |
| the rest of chapters 2, 3, 6 to 10 and the appendices | one system call each, printed. The handler of `sigchld.c` is the HTTP server's |

## 2. The modules

Each component is a module with one action per step another process, thread or
failure can come between; where nothing can, an action is a whole block of the
code. Beside some definitions stands a *mutation*: the same definition with a
bug such code could have, which the property it is meant for is seen to catch.

### The shell

**`ParseInput`** is `parse_input` byte by byte: `ScanChar` and `ScanEnd` are a
round of the counting loop, `Separates` is its decision to write a NUL, `Check`
the two early returns and the allocation, `Store` a round of the second loop. A
byte is a word's, a space or a quote. The argument vector is the sequence of the
positions stored in it. What the arguments *should* be (`Kept`, `ArgStarts`) is
defined from the line alone, without a cursor.

**`ParseSpecial`** is `parse_special` (`Redirect`, `RedirectIn`, `RedirectOut`,
`RedirectAppend`, `Pipe`, `LocalHost`, `RemoteHost`, `Word`, each a branch of its
loop with its errors and allocations), `pipeBuilder` (`BuildCommand`) and
`parse_set_free`. A token is an operator, a word, or `"|word"`: a word that
begins with a bar, which the scan does not take for a pipe and `pipeBuilder`
does. A field of the `parse_set` is the position of its operand, `NULL`, or
`Junk` when `malloc` left anything there. `Documented` defines the lines the
documentation describes.

**`RunSpecial`** is `run_special` with its child, step by step, and the part of
the kernel it relies on: descriptor tables, the lowest-free-descriptor rule of
`pipe`, `dup2`, bounded pipes, end of file. A program is known by whether it is
found, whether it reads its input to the end, how many blocks it writes and its
exit code. **`Pipeline`** is what a user has in mind: programs run one after the
other, each fed all that the one before it wrote, up to the first that exits
with 1. `RunSpecial` implements it while descriptors last (`KeepsItsPromise` in
`MCSessions`, with `done` mapped to what was logged and `phase` to the shell's
place).

**`RemotePipe`** is `dserver` and `dclient`: shells that run lines with `)) port`
(bind, listen, accept, write) and lines with `((` (connect once, read), all of
them on one port. A port in use sends the listener "astray", to a port of the
kernel's choice; a connection made before `listen` is refused; a reader may be
queued behind another, reset when the writer ends, or leave early.

**`Heartbeat`** is `hb` and `hb_ticker`, a step for each access to what they
share; a time is stored and fetched as two words. The clock advances between any
two steps. The int arithmetic wraps (`Wrap`).

**`Prompt`** is `dsh_prompt` and the character `main` skips, over whole sessions
of lines; a character is its line and its column, and `stdin` is the place of the
next one, so that a lost, repeated or misplaced one is seen. `starved` remembers
the lines an allocation failed on. The places from which on a line reads `exit`
(`typed.exits`) may be inside a line: `strncmp` looks at what is in the buffer,
and that is the rest of a line when an allocation failed before.

**`Shell`** is `main`, `run_command`, `Run` and `New_Process`. Of the components
above it keeps what they return, allocate and free. The heap is the set of the
objects alive; `lost` what earlier rounds left, such as the line whose `realloc`
failed (dsh.c:62). `unflushed` follows the output stdio holds into the forked
child. `faults` is which calls may fail in a session: allocations, forks and the
threads whose creation `cmdnm`, `systat` and `hb` assert (`Asserts`). A command
need not come back: a pipeline when its commands do (`SpecialReturns`, for which
no fairness is assumed), an `hb` without a positive interval never, nor a shell
that sends itself a signal (`effect`, which is what the words of such a line come
to).

**`FirstShell`** is the whole of prog1, as it stands and as it was submitted.
Lines are numbers, and what a line is comes out when it is read. A program it
runs has the shell's standard input and may read lines from it (`ProgramReads`,
`taken`). When the input is a file, stdio reads ahead and a forked child shares
the file's offset with the shell: a program may seek, and a child whose `execvp`
failed calls `exit`, which moves the offset back by what its copy of the buffer
holds, to any line before (`ChildExits`). When an allocation fails the rest of
the line is the next one, or there is no rest (`PromptFails`).

**`Systat`** is `systat` and `cmdnm` with their threads. **`Intrinsics`** is
`signal`, `cd` and `pwd`, with other processes making and removing the paths
between the `stat` and the `chdir` of `cd`.

### The listings

**`HttpServer`** is `server_run`: setup, `accept` (interrupted by the handler),
`fork`, `close`; the handler in two steps, entered (`Deliver`) and done with its
`wait` (`Wait`); the children from the copy of every descriptor to the zombie;
stopping and continuing one. A connection is let go when nobody holds it
(`holders`), a queued one refused when nobody holds the listening socket.

**`HttpRequest`** extends **`Pages`**: what a child does with its connection. A
word of the request is two cells, so that a read may end inside it; the buffer
keeps what a shorter read leaves of the one before it, and only the first read
puts a NUL behind itself. `Answer` is `handle_connection`'s order of tests,
`HandleGet` what `handle_get` and `module_open` make of the url. The pages are
`Time`, `Issue`, the four steps of diskfree with `df` as a child of the child and
the inherited handler that may take its status first, and `ListProcess`,
`WritePage`, `FreeRows`.

**`Options`** is the server's `main` up to its call of `server_run`, and
`getopt_long.c`: GNU `getopt_long` moves words that are no options behind those
that are (`PassOver`), `--` ends them, and an abbreviated long option makes it
read past the table of `main.c:25`, which lacks its last entry (`PastTheTable`).

**`JobQueue`** is the three queues of chapter 4 with one set of actions: a look
at the list is a step of its own (`Test`, `Load`, `Advance`, `Store`), so that
without the mutex two threads get in each other's way, and `variant` says which
locks are taken. **`ThreadFlag`** is `condvar.c` and `spin-condvar.c`, with
wake-ups for no reason. **`Transfer`** is the critical section against
cancellation. Balances and amounts are floats: whole numbers of a smallest unit
that keep so many leading digits (`Precision`, `Round`), and an amount may be
negative, since nothing but `balance < dollars` is asked of it. `overlapped`
remembers that two threads were past their checks at once, `exact` that no sum had
to be rounded, and `books` keeps the balances as they would be if each whole
transaction were one step. **`ThreadEnds`**
is five listings in one: what each thread holds, every way it may end, and
whether `main` waits for it.

**`SocketServer`**, **`Semaphore`**, **`ForkedPipe`**, **`WholeLoops`** and
**`Calculator`** are as in the table above. `socket-server.c` tells `accept` of
room for a name by a variable nobody has set (line 61): `accept` may fail, nobody
looks, and `read` of -1 gives -1, which is not the 0 that ends the loop. The server
is then `adrift` (`Drifts`): it prints what `malloc` gives it for ever, crashes on
a NULL, or finds "quit" there. In `Semaphore` any process may be
killed at any step and the kernel adds back what `SEM_UNDO` recorded (`adj`). In
`Calculator` a unary number is its length and `live` counts the cells in use.

### Composition

TLC runs several modules side by side: `MCCommands`, `MCShell`, `MCHttp`,
`MCThreads` and `MCListings` declare the variables of all of their modules and a
variable `program` that says which of them this behaviour is of; the others rest
in a fixed state (`...Rests`). That is a disjoint union of state machines, and
nothing is shared between them. What the components do to each other is in the
modules: `Shell` has the results of the parsers and runners, `RunSpecial` the
shell, its children and their pipes, `HttpServer` the server, its children and
their clients, `HttpRequest` a child with its page and the page's `df`.

## 3. The runs

| Run | Modules and bounds | What it shows |
|---|---|---|
| `MCParseInput` | `ParseInput`; every line of up to seven bytes | The arguments are the maximal runs of kept bytes, in order (`ParsesTheLine`), and the vector is filled exactly (`ExactlyEnough`). |
| `MCParseSpecial` | `ParseSpecial`; every vector of up to five tokens, and documented lines of up to eleven; any allocation fails | The scan and `pipeBuilder` stay inside the vector (`InBounds`); each mode bit has its struct, filled from its own operator (`FieldsMatchMode`); documented lines come out as their pipeline and redirects (`DocumentedLinesParse`). |
| `MCSessions` | `RunSpecial`; two pipelines of up to three programs, with sockets of up to two, 12 descriptors, pipes of two blocks, forks that fail; or one pipeline when six or seven descriptors have leaked | The shell never closes its standard descriptors, and while pipes can be had no reader waits for an end that is still open and no writer is killed (`DescriptorsInOrder`); `run_special` comes back (`Returns`); it implements `Pipeline` (`KeepsItsPromise`). |
| `MCCommands` | `Heartbeat` with five calls, a ring of two, ints of four bits, a clock of five; `Systat` with its four threads; `Intrinsics` with two paths and four numbers on either side of 32; `RemotePipe` with three shells of two lines each | The lines of `hb` are the ticks, in order and never torn, unless the reader was lapped or misled by what was on the stack (`PrintsTheTicks`); ticks keep their schedule however late the thread (`TicksOnTime`); `hb` ends (`Returns`). Only finished buffers are printed and no thread outlives the frame it writes to (`PrintsFinishedBuffers`), and whatever is in `/proc` the threads that are joined exist and end, so the shell gets its command back (`SystatReturns`). `cd` moved if and only if it said so, and a process above 32 gets its signal in either order (`MovesAndSignals`). Both ends of a remote pipe come back (`BothReturn`). |
| `MCShell` | `Shell` with lines of every kind, any number of them, with and without failing allocations, forks and threads; `Prompt` with two lines of every length up to three blocks of two, or of one more, or three lines of up to a block and one, the last with or without its newline, any character the beginning of an exit; `FirstShell` with no line, one or four of any kinds, three read ahead, and six reads | `main` frees each object once and leaves behind only the line of a failed allocation (`FreesItsOwn`), never lets a child repeat its output (`NoOutputTwice`), ends only at an exit (`OnlyExitEnds`), dies otherwise only where a parser's failure goes unnoticed, of what fails, of `systat`'s closed streams, of an `hb` that never ends or of its own signal (`OnlyBadLinesCrash`), and whatever fails comes back to its prompt after every other line that is no pipeline (`BackToPrompt`). Lines reach the parser whole and once, two are never mixed, and the shell ends where a line reads exit, at its beginning or where it was taken up again after a failed allocation (`DeliversTheLines`). prog1 takes its lines in turn, skips none but those its programs read, and repeats one only when a file's offset was moved back (`LinesInTurn`). |
| `MCHttp` | `HttpServer` with three clients, one of them slow, any call failing; `HttpRequest` with twelve requests cut into reads of up to nine cells, `Pages` with up to five processes, a vector of two, an `IOV_MAX` of six | The handler's `wait` finds a dead child (`WaitNeverBlocks`); every client is let go (`LetGo`). The request gets the answer it deserves however it is cut (`AnswersTheRequest`); pages come whole or not at all and the vector has room (`PageWhole`); a blank line that no read cuts ends the loop (`EndsAtBlankLine`). |
| `MCThreads` | `JobQueue` with three jobs, two workers, two producers; `ThreadFlag` with two waiters and three calls of `set_thread_flag` | With the mutex, or with one thread, each job is processed and freed once, and a thread the semaphore lets through finds one (`EachJobOnce`); none is left behind (`NoneLeft`). Work begins only when the flag was seen set (`WorksWhenSet`) and goes on while it is (`WorkGoesOn`). |
| `MCListings` | `Calculator` with lines of up to five words, the numerals 0 and 11, and three-bit numbers; `SocketServer` and `Semaphore` with three processes; `ForkedPipe` with three lines and a pipe of two; `WholeLoops` with three bytes and five calls; `Transfer` with two accounts, two threads, floats of two digits and a negative amount; `ThreadEnds` with three threads; `Options` with up to three words | The answer is the line's value and every cell is freed (`RightAnswer`). Two processes are never inside (`MutualExclusion`) and who waits gets in (`WaitersGetIn`), whoever is killed. Texts are printed whoever dies, unless `accept` failed (`TextsPrinted`); every line passes the pipe and both ends end (`EveryLinePrinted`). A loop without an error did it all (`WholeOrError`). Under cancellation a transfer happens as a whole or not at all, and money is conserved where no sum is rounded (`MoneyConserved`). What a thread held is released once (`LeavesNothing`). Options do as they say (`DoesAsTold`). |

Runs that end in a counterexample, each a disagreement between the code and what
it says of itself:

| Run | Property | What happens |
|---|---|---|
| `MCRunSpecialBig` | `Returns` | A command that writes more than a pipe holds blocks for ever, since its reader is started after it has ended (special.c:550); "nearly unlimited piping" (prog2.tex:31). |
| `MCHeartbeatLost` | `EveryTickPrinted` | The reader leaves on `complete` without another look at `buffer_pos`: the last ticks are lost (run.c:387); "until `<tend>`" (prog2.tex:295). |
| `MCHttpGivesUp` | `GivesUp` | The loop over the headers does not look at what `read` returned, so a client that goes away in the middle of them leaves a child that reads for ever (server.c:152); "If it did, there's a problem with the connection, so give up" (server.c:154). |
| `MCWholeLoops` | `WritesAll` | `write_all` hands `write` the start of the buffer and the whole count each time: after a short write bytes are repeated and others lost (write-all.c:17); "Write all of COUNT bytes from BUFFER" (write-all.c:10). |

Other behaviours the models reproduce and the passing properties are stated
around, for a reader who wants to change the code. In the shell:

- a line of exactly 256, 512, ... characters is lost (`Fits` in `Prompt`), and
  the NUL `scanf` writes after 256 characters is one byte past the buffer; at
  end of file the loop prompts for ever;
- a line without arguments, or with an odd quote, reaches `parse_special` with a
  NULL vector (`ParseSpecial` in `Shell`); prog1 tested for it, the copy of prog1
  that was submitted did not and crashes on it;
- `parse_set_free` frees fields nobody has set, and not the set itself
  (`ParseSetFree` in `ParseSpecial`, `FreesJunk` in `Shell`);
- `a )) 5000 | b` and `a )) 5000 > f` are accepted, and so is `a | | b`, with an
  empty command (`Pipe`, `Redirect` in `ParseSpecial`);
- an exit status of 1 in a pipeline (special.c:551), or of 255 on its own
  (run.c:503), is reported as "command not found";
- `p[0]` is never closed; once `pipe` fails, unnoticed (special.c:564), a command
  does not get what the one before it wrote, and `Pipeline` is no longer
  implemented (`Scarce` in `MCSessions`). When not even the first can be made, `p`
  is garbage and `close` may hit any descriptor;
- a failed fork ends the shell if it is not a pipeline's first (special.c:514),
  and counts as success or not, as it happens, in `New_Process` (`ForkFails`);
- `hb` prints unwritten slots when `buffer_pos` starts above 0 (`clean` in
  `Heartbeat`), and never ends when `tinc` is 0 or less (hence the positive
  increments of the run);
- `cmdnm`, `systat` and `signal` return 0 whatever happened; both versions of
  `systat` call `clearerr` on streams they have closed; a thread that cannot be
  created aborts the shell, on a line there is nothing wrong with (`Asserts` in
  `Shell`);
- a `realloc` that fails in the middle of a line loses the block it had, and the
  rest of the line is taken for a line, or for an exit (`Prompt` in `Shell`,
  `BeginsWithExit` in `Prompt`);
- a listener whose port is in use, and one nobody connects to, wait for ever, and
  their shells with them; so `BothReturn` begins where somebody has connected;
- in prog1, with a file as standard input, a command that is not found moves the
  file's offset back, and lines are run again (`rewound` in `FirstShell`); a
  program that reads its standard input takes lines from the shell (`taken`).

In the listings:

- a stopped child (`^Z`, `SIGSTOP`) raises SIGCHLD with nobody dead, and the
  handler's `wait` blocks the server until some child ends (`stopped` in
  `HttpServer`); coalesced signals leave zombies, one for each signal that was lost;
- of the answer to a bad request `sizeof` a pointer is sent: eight bytes
  (`Respond` in `HttpRequest`);
- a blank line cut by two reads is never found, and reads after the first are
  searched without a NUL of their own (`cuts`, `Strays`);
- diskfree's `waitpid` fails when the inherited handler was faster, and the page
  lacks its end (`Waitpid` in `Pages`); a client that closes early gets no more;
- processes frees a literal for each process that vanished while it was looked
  at (`FreeRows`), and writes nothing at all with more rows than `writev` takes;
- a port above 65535 is cut to 16 bits without a word (`Port` in `Options`);
- without a lock, `job-queue1.c` processes a job twice or walks off the end of
  the list (`variant = "unlocked"`, which `EachJobOnce` excepts);
- one `pthread_cond_signal` wakes one waiter: `WorkGoesOn` promises that somebody
  works, not that everybody does;
- a semaphore whose maker dies before it gave it a value lets nobody in
  (`WaitersGetIn` begins at `ready`);
- `socket-server.c` serves one client at a time and waits for a slow one
  (`Stuck`), looks at a text it has freed (`ReadText`), and never comes back from a
  connection `accept` failed to give it (`Lost`);
- `random_number` steps back over a byte when `read` is interrupted;
- `critical-section.c` keeps no other thread out (`overlapped` in `Transfer`), takes
  a negative amount, and loses cents where floats cannot hold the sum (`exact`).

### Why these bounds

The parsers treat all words alike and look at most two tokens ahead and one
back, and the proofs below hold for every length anyway. A pipeline of three has
a first, a middle and a last command, the three cases the code has; two
pipelines show what one leaves to the next; a pipe of two blocks is filled,
half full and empty. With six and seven descriptors leaked out of twelve it is
the third and the second pipe that fail. A ring of two and four-bit ints let the
reader be lapped and `buffer_pos` wrap within the clock's five milliseconds,
which are more than any `tend` in the run and so never cut a call short. A block
of two makes lines below, at and above one, two and three blocks. The main loop
keeps nothing from line to line but `spec_res`, `mode`, `lost` and stdio's buffer,
so `Shell` needs no bound on the number of lines. Four lines with three read ahead
are a buffer, what is behind it and a second fill; six reads let two of them come
again.

Three shells on one port are a listener, its reader and one too many, in either
role. Three clients are what it takes to have one being handled, one pending and
one more dead: the case where SIGCHLDs coalesce. The longest request is longer
than a read, and every way to cut it into reads of one to nine cells is taken.
Five processes make the vector of two grow twice; six buffers is an `IOV_MAX`
that five processes exceed. Two workers race for each of three jobs, and two
producers push in between. Two waiters and three calls set, clear and set the
flag with one asleep and one awake. Five words make the calculator's deepest
operand, a binary operator under another; three-bit numbers overflow in one
multiplication. Three threads are a first, a middle and a last of `main`'s loops. With floats of
two binary digits and an amount of 3 a sum of 5 or 7 is rounded, one of 4 is not.

`MaxJobs`, `FdLimit`, `Capacity`, `MaxClock`, `MaxBlocks`, `MaxLen`, `MaxReads`,
`MaxLines`, `Inputs`, `ReadAhead`, `Precision`, `Chunks`, `MaxProcesses`,
`MaxSets`, `MaxTokens`, `MaxCalls`, `MaxThreads` and `MaxWords` are all the bounds there are.

Deadlock is not checked where the program does end or stop: after `exit`, at the
end of a call, when a session is over, while nobody types or connects.

### Fairness

Weak fairness of whole processes or threads, never of a branch: the scheduler
runs the shell, its child, each thread, the server and each of its children; a
program that is neither waiting for input nor for room in its pipe goes on; the
clock advances. Strong fairness only where a lock or a semaphore is handed out:
a mutex or semaphore that becomes free again and again goes to each of those
who want it (`JobQueue`, `ThreadFlag`, `Semaphore`: all of them few). Not
assumed: that anyone types, connects or asks; that a peer connects
(`Accept` of `RemotePipe` waits); that the commands of a pipeline end, seen from
`Shell` (`SpecialReturns` is in nobody's fairness; when they do end is
`RunSpecial`'s `Returns`); that an `hb` with an interval of 0 or less ends, or a
stopped shell is continued; that a slow client (`Slow`) ever comes to its
end; that a failure happens, or does not; that a file opens or memory is found.

## 4. What is proved

Every safety property that a passing run checks is also a theorem, and so is the
refinement of `Pipeline` by `RunSpecial`. Each proof module EXTENDS the module it
is about, or the MC module that puts a component beside others. The theorems hold
for every value of the constants that satisfies the named assumptions, the sets of inputs included: those are constants too, and
the `.cfg` gives them small values (`Sessions <- TypedSessions`,
`Inputs <- ShortInputs`, `Requests <- SampleRequests`, `Jobs <- AllJobs`).

**`ParseInputProofs`** — for lines of any length: `TypeCorrect`, `NoOverrun`
(`ExactlyEnough`: the vector is neither overrun nor left with a hole) and
`ParsesCorrectly` (`ParsesTheLine`). The invariant says how far the counting loop
has come: the bytes behind the cursor are as they should be at the end, those
before it untouched, and the count is the cardinality of the set of arguments
that begin behind it. For the storing loop, the positions stored are that set in
ascending order. The two loops agree because both are tied to the same set,
defined on the line alone.

**`ParseSpecialProofs`** — for vectors of any length: `TypeCorrect`,
`StaysInBounds` (`InBounds`), `ModeIsTruthful` (`FieldsMatchMode`) and
`DocumentedLinesAccepted` (`DocumentedLinesParse`). The scan has counted no command
without having stepped over a bar (`Ahead`), every bar is a separator to
`pipeBuilder` (`StopsFrom`), and cutting a command uses up exactly one separator
(`StopsLeft`): so there is one left as long as there is a command to cut.
`Recorded` carries, for each mode bit, the operator its struct came from. For a
line in the documented form the scan's count is the number of command starts it
has reached (`Scanned`), and the lists cut so far are exactly the starts behind
`pipeBuilder` (`Listed`); what can stand where in such a line comes from the
definition of `Documented`.

**`SessionsProofs`** — for any pipelines, any number of lines and any capacity of
a pipe: `SessionsOrdered` (`DescriptorsInOrder`) and `SessionsImplement`
(`KeepsItsPromise`), the step simulation of `Pipeline`. The shell's open
descriptors are always the lowest n (`Layout`), the pipe of the current command at
the top (`OwnPipe`), the read end of the one before below it (`InputInv`); each
command leaves one more open and the line another (`Room`). So `pipe` never
returns a standard descriptor, and the write end the shell closes is the only one
outside the child. `OutInv`, `InInv` and `EndInv` add what is in the pipes: the
output pipe holds the blocks the child has written so far, in order, and the
input pipe what the command before it wrote, less what the child has got.
`RoomAssumption` says that the session is short enough for the descriptors there
are, since each line leaks some; what happens after that is the run's second kind
of session (`Scarce`), which the theorem covers as far as the standard
descriptors go.

**`ShellProofs`** — of `Shell`, for any set of lines and any faults:
`TypeCorrect`, `OwnershipHolds` (`FreesItsOwn`), `PrintsOnce` (`NoOutputTwice`),
`ExitOnly` (`OnlyExitEnds`) and `CrashesExplained` (`OnlyBadLinesCrash`). What has to be added to make those
inductive: a vector of this round is alive only if `main` still points to it, a
line too unless an allocation may fail, and nothing is alive at the prompt; nothing
is unflushed between the `fflush` and the fork; and `status` reaches 2 on the way
out of the loop only. `CrashesExplained` follows from where a crash can come from:
the assertions need a thread that is not to be had (`LacksThread`), and the commands
that die on a good line are named (`DiesAlone`).

Of `Prompt`, for any number of lines of any length, blocks of any size and any
failing allocation: `ReadsItsLines` (`DeliversTheLines`, with `EndsAtExit`). The buffer holds the
current line from some column on (`HeldFrom`), from the first unless an allocation
failed or the line is longer than memory (`Broken`); while blocks keep coming they
are full (`FullBlocks`), so that a block that is not is the end of the line;
everything delivered lies before the place of the next character (`AllBehind`),
and each line behind it that fits was delivered whole (`NoneLost`, `Whole`).

Of `FirstShell`, for inputs of any length and any read-ahead: `TakesLinesInTurn`
(`LinesInTurn`). A line is passed when the shell or a program has read it
(`Passed`). What stdio has read ahead is a stretch of consecutive lines with
everything before it passed (`Stretch`); what lies before the file's offset is
passed or in the buffer (`NoneSkipped`), wherever programs and children have moved
the offset; and as long as none moved it back, all that was read lies before what
stdio holds, and that before the offset (`InOrder`).

**`CommandsProofs`** — of `Heartbeat`, for any arguments, ring size and width of
an int that the ring divides: `PrintsInOrder` (`PrintsTheTicks`). As long as the
reader was neither lapped nor misled, `buffer_pos` is the number of ticks it
counts, wrapped round (`Counted`), and the ring holds every tick not printed yet,
whole (`Handed`): a store goes to a slot none of them is in, for two ticks less
than a ring apart are in different slots (`SlotsDiffer`). That the ticker's slot is
its tick's own even after `buffer_pos` has overflown is `SlotOf`, and needs
`WidthAssumption`; that the reader never goes for a slot because of a wrapped
`buffer_pos` is `Ahead`. `KeepsTheSchedule` (`TicksOnTime`): `next` is always a
multiple of the increment, that of the tick awaited (`Awaited`), the clock read
last is not before the tick it was read for (`Latest`), and the ticks stored so far
are in time (`InTime`).

Of `Systat`, for any number of files: `BuffersFinal` (`PrintsFinishedBuffers`). The
caller has printed the buffers of the threads it has joined (`Finished`); none
that was not created runs (`Uncreated`), and a buffer is partly filled only
between two reads (`Whole`). Of `Intrinsics`, for any numbers, processes and paths
that others make and remove: `MovesAsSaid` (`MovesAndSignals`).

**`HttpServerProofs`** — of `HttpServer`, for any set of clients and any faults:
`HandlerReturns` (`WaitNeverBlocks`). As long as no child was stopped, a pending
signal comes with a dead child, one being handled too, and when there are both
there are two of them: the invariant has to count, because a handler that is
about to take a child must leave one for the signal that waits behind it.

Of `Pages`, for any number of processes and any sizes of `vec` and of what
`writev` takes: `PagesAreWhole` (`PageWhole`). What was sent is told by the place
the child is at (`PageSoFar`), `df` runs only while the child is about to wait for
it, and the vector keeps room for two. `PageAssumption` gives the vector its first
two places. Of `HttpRequest`, for any set of requests and any size of the buffer:
`AnswersAsDeserved` (`AnswersTheRequest`). The words are those of a first part of
the request (`Begun`) and the first thing sent is the answer to them (`Replied`),
whatever the reads after it overwrite. The rest is about words: the n-th of them
is the one with n - 1 before it, in the part as in the whole (`PlaceTaken`,
`PlaceOnce`, `NthIs`), so a part that has as many words, none of them cut, has the
same (`WordsOfAPart`).

**`ThreadsProofs`** — of `JobQueue`, for any finite sets of jobs and workers and
any producers: `JobsOnce` (`EachJobOnce`), for the locked queues and for the
unlocked one while a single thread works. A job is at one place: in the list, with
one thread or done (`Distinct`, `Undone`, `Taken`, `Alone`); one thread at a time
touches the list (`Modes`), so what it knows of it stays true until it lets go
(`Knows`). That a thread the semaphore lets through finds a job is a matter of
counting (`Counted`): the jobs in the list are the semaphore's count, the workers
that were let through and have not taken theirs yet, and the job just pushed for
which the semaphore was not posted yet. Of `ThreadFlag`, for any set of waiters
that contains neither "setter" nor "nobody", the other values `lock` has:
`SeesTheFlag` (`WorksWhenSet`). Who is between its lock and its unlock holds the
mutex, so the flag it tested is the flag there is.

**`ListingsProofs`** — of `Semaphore`, for any set of processes: `Excludes`
(`MutualExclusion`). The value is 0 or 1, and 0 while somebody is inside or the
semaphore has no value yet; and what the kernel would add back for a process,
`adj`, is 1 for the one inside and 0 for all others (`Undone`), so that a death
gives back exactly what that process had taken.

Of `WholeLoops`, for any count and any width of `size_t` (`LoopAssumption`):
`LoopsDoAll` (`WholeOrError`); what is done and what is left add up to the count
(`DoneSoFar`). Of `Transfer`, for any finite set of accounts (`BankAssumption`):
`MoneyStays` (`MoneyConserved`). While no two transactions overlap, at most one
teller is inside; the balances are those of `books` but for what it has stored
already (`Moving`, `Books`), and nobody else changes what it has loaded. Nothing is
used of `Round`, so this holds for any arithmetic. As long as every sum was exact
the total is the money there was plus the dollars added and not yet taken. A total
is a sum over a set, computed by a recursive function: that it changes by what one
account changes is shown on the least set of accounts for which it would not
(`SumsUpTo`). Of `ThreadEnds`, for
any number of threads (`EndAssumption`): `NothingIsLeft` (`LeavesNothing`); what a
thread held is released as it exits and once only (`Released`), and `main` has
joined those before the one it waits for (`Joined`). Of `Options`, for command
lines of any length (`PortAssumption`): `ObeysTheOptions` (`DoesAsTold`); the
settings are those of the last options of each kind before `optind`, and the words
moved behind are the arguments before it, in order (`Followed`).

Of `Calculator`, for any numerals, any width of `unsigned int` and lines of any
length (`CalcAssumption`): `CalculatesRight` (`RightAnswer`). The stack holds, from
the top, the values of the expressions the line ends with, each read from where
the one above it begins (`Ends`), and until the next prompt the cells in use are
those of its numbers (`Cells`). What a line means and what `product`, `even` and
`odd` compute are recursive functions: that they are what they should be is shown
on the least argument for which they would not (`ProductIs`, `ParityIs`,
`ValuesAre`), and that a word more leaves the readings before it alone is
`ValuesGrow`.

Only model-checked is everything that must eventually happen: `Returns` of
`run_special` and of `hb`, `SystatReturns`, `BothReturn` (all there is about `RemotePipe`),
`BackToPrompt`, `LetGo`, `EndsAtBlankLine`, `NoneLeft`, `WorkGoesOn`,
`TextsPrinted`, `WaitersGetIn` and `EveryLinePrinted`. Liveness under fairness is
beyond the prover.

## 5. What is abstracted

- Text: what a word, a path, a line of `/proc`, a page or a message says.
- Undefined behaviour is a choice: an uninitialised `p[2]`, `buffer_pos`, status
  word or `parse_set` field holds anything; freeing junk or a literal, `clearerr` on
  a closed stream, or reading past the table of options crashes the process or
  does one of the things that may come of it.
- Writing to a pipe without a reader would kill the program by SIGPIPE;
  `DescriptorsInOrder` shows it cannot come to that while pipes can be had.
- The clock of `hb` is not set back while it runs.
- Floats are finite, and sums are rounded to the nearest: no NaN, no infinity.
- What `accept` of `socket-server.c` may do is in `SocketServer`; that its socket
  cannot be bound, because a file of that name is there, is not.
- A length and its text come in one read each.
- `semop`, and the `pipe` of `pipe.c`, do not fail.
- That `exit` in a forked child may rewind the standard input it shares with the
  shell, when that is a file and not a terminal, is in `FirstShell` only: it is
  the same in prog2.
- `accept` may wait for ever; no property promises that a listening line ends.
- `malloc` fails where the shell is concerned; in the listings that do not look
  at what it returns (`enqueue_job`, the calculator, `processes.c`, whose `xmalloc`
  ends the program) it does not.
- In `FirstShell` the tokenizer is what it returns: it is byte for byte that of
  `ParseInput`.

## 6. What is left

- An HTTP connection inside the server: `HttpServer` keeps of a child that it
  comes to its end, `HttpRequest` says when it does. A refinement that joined
  them would need `GivesUp`, which fails.
