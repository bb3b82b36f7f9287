# A verification project for DaBUS

DaBUS collects the projects of a computer-systems course: data paths and
assemblers for a small processor, a virtual memory simulator, a cache
simulator, a multithreaded operating-system simulator with its scheduler, and a
reliable transport protocol over UDP.  This directory holds TLA+ models of the
projects that keep state and make decisions at run time, configurations with
which TLC checks them on small instances, and proofs that TLAPS checks for
every instance.

## 1. The system

### Operating-system simulator and scheduler (project 6)

*Code.* `os-sim.c` (simulator), `process.c` (the processes), `student.c` (the
scheduler).  *State.* For every CPU its simulated state, process and preemption
timer (`simulator_cpu_data`), under `simulator_mutex`; the scheduler's
`current[]` under `current_mutex`; the linked ready queue under
`ready_queue_mutex`; the I/O queue, the counts of processes created and
terminated; and `student_lock`, an inverted readers-writers lock which lets many
writers (the threads in scheduler code) or one reader (the thread that prints
the Gantt line) in.  *Threads.* One supervisor, which in each tick prints, moves
every CPU on by one step, then the head I/O request, and creates a process every
ten ticks; and one thread per CPU, which waits for an event of its CPU and calls
the handler `idle`, `preempt`, `yield` or `terminate`.  *Interaction.* The
supervisor sets the event of a CPU, signals its thread, and waits for a signal
back; the handlers call `schedule` and `context_switch`, which write the CPU's
data; the supervisor itself calls `wake_up`, which may preempt a CPU by
`force_preempt`.

*Hard.* Five locks and three condition variables, waits without loops, locks
given up inside calls, two copies of the truth (`current[]` and
`simulator_cpu_data`), and a scheduler that decides under one lock and acts
under another.  *Correct means.* Each process is in one place and its state says
which; the ready queue is FIFO; no process waits while a CPU sleeps; a process
goes through its life cycle edge by edge; I/O requests match the program
counters; nothing exits early; everything ends.

### Condition-variable exercise (project 6)

`problem_0.c`: two threads that count to a limit, and a main thread that waits
for them on a condition variable.  *State.* The counter, the flag `finished`,
one mutex and one condition variable.  *Hard.* The counting loops read the
counter without the mutex, and the main thread unlocks the mutex at the end of
its loop, so that a second wait is one without the mutex, which may release the
mutex of a counting thread.  *Correct means.* No increment is lost, the signal,
given once, is not missed, and the main thread goes on only at the limit.

### Reliable transport protocol (project 7)

*Code.* `client.c` and `rtp.c` (the client), `prj7-server.py` (the server, which
also plays the corrupting network).  *State.* On each side the message being
sent or collected, and the packet it has reached; the datagrams on their way.
*Operations.* Cut a message into packets, send one and wait for its ACK or NACK,
receive packets and answer them, turn the text into pig latin and send it back.
*Hard.* Corruption in both directions at any time, retransmission, a change of
roles in the middle, a buffer that grows; datagrams may be lost and nothing
waits with a timeout.  *Correct means.* Packets are stored once and in order,
replies are printed in order, corruption alone never stops the exchange.

### Virtual memory simulator (project 4)

*Code.* `simulator-src/` (commands, processes, memory, swap file, TLB clearing)
and `student-src/` (TLB lookup, page table lookup, page fault handler,
replacement).  *State.* Page tables, the reverse lookup table from frames to
pages, the TLB, the frames, the swap file, the current process.  *Operations.*
Fork, load and store; each of the last two switches to the process and
translates the address by TLB, page table or page fault.  *Hard.* Five tables
that have to agree, changed in different files, when pages are evicted, come
back, and are evicted again.  *Correct means.* A load gives what was stored
last; the reverse table names the page of every frame; the TLB agrees with the
page table; a page is in the swap file at most once and not while it is in
memory.

### Cache simulator (project 5)

*Code.* `cachesim.c` and its driver.  *State.* The blocks of each way, for each
line a list of the ways from the least to the most recently used, the
statistics.  *Operation.* One access.  *Hard.* The list is shifted in place on
every access, in hits and misses.  *Correct means.* The cache holds the blocks
used last.

The counters of `statistics.c` (page faults, TLB hits, reads, writes, disk
accesses) are moved in four other files.  *Correct means.* They account for what
the tables show to have happened.

### Interrupt handlers and factorial program (project 2)

*Code.* `prj2.s`, a program for the LC-2200 that computes a factorial by
recursion while a timer interrupt handler counts seconds, minutes and hours, and
`prj2-keyboard.s`, the same program with a keyboard interrupt handler that
stores the characters typed one after the other.  *State.* The registers,
memory (stack, vector table, clock, characters), the interrupt enable bit.
*Hard.* Both handlers enable interrupts early and so are interrupted
themselves, by the other or by their own kind, between any two instructions;
every register that is live and not saved is a race, and so is `k0`, the return
address.  *Correct means.* The factorial is right whatever interrupts it; a
handler returns to where it came from; it stores the character it was called
for; the clock counts the ticks.

### Assemblers (projects 1 and 2)

*Code.* `assemble32.c` (C, two passes, labels) and `core.clj` (Clojure, one line
at a time).  *State.* The first: the symbol table, the program counter, the
count of errors, the word made last.  The second: its output file, to which
every run appends.  *Hard.* Two passes that count on their own, words that stay
from the line before, three notations of numbers, offsets that are relative for
one mnemonic only; fields that are put together as strings of digits.  *Correct
means.* The passes agree, so that labels have the addresses of their words; a
success has a right word for every instruction.

### Data paths (projects 1, 2, 3)

Logisim drawings with microcode.

## 2. The modules

| module | what it is |
| --- | --- |
| `ReadyQueue` | the linked list of `student.c`: its contents, enqueue, dequeue |
| `FifoQueue` | abstract: a queue that holds no process twice |
| `ProcessLife` | abstract: the life cycle of the processes of an operating system |
| `OsSim` | supervisor, CPU threads, scheduler, locks; EXTENDS `ReadyQueue` |
| `OsSimProperties` | its invariants, and the instances of `FifoQueue` and `ProcessLife` |
| `OsSimOrder` | `OsSim` with a history variable that tells when the simulator overtakes the scheduler; what holds until then: places, states, both refinements, liveness |
| `OsSimProofs` | theorems about `OsSim` |
| `OsSimPlaceProofs` | theorems about `ReadyQueue` and `OsSimOrder`: where the processes are, what their states say, and both refinements |
| `Rtp`, `RtpProperties` | client, server and datagrams; what they must do |
| `RtpProofs` | theorems about `Rtp` |
| `Vm`, `VmProperties` | the virtual memory simulator; how its tables must agree |
| `VmProofs` | theorems about `Vm` and `VmStats` |
| `Cache`, `LruCache`, `CacheProperties` | the cache; abstract LRU cache; the refinement |
| `CacheProofs` | theorems about `Cache`, and that it implements `LruCache` |
| `VmStats` | the counters of `statistics.c` beside `Vm`, and how they must agree with its tables and with each other |
| `Problem0` | the condition-variable exercise and its properties |
| `Problem0Proofs` | theorems about it |
| `Lc2200`, `Lc2200Properties` | the program with its two handlers on an LC-2200; what it must do |
| `Lc2200Proofs` | theorems about it |
| `Assembler`, `AssemblerProperties` | the two passes of `assemble32.c`; what they must do |
| `AssemblerProofs` | theorems about it, about the numbers of `Lexer` and about `Prj1Assembler` |
| `Lexer`, `LexerProperties` | its lines, tokens and numbers; the reference definitions |
| `Prj1Assembler` | `core.clj` and the words it must make |
| `MC...` | instances for TLC |

A definition that begins with a comment "Mistake:" is a plausible error in the
definition after it; no specification uses it.  It shows that a property can
fail: with the mistake in place of the right definition, TLC finds the property
violated.

### How `OsSim` corresponds to the code

`cpuPc[c]` and `supPc` are the points the threads have reached.  Between two
labels lies what the code does between two lock operations:

| label of a CPU thread | code |
| --- | --- |
| `top`, `runWait`, `runWoken` | `simulator_cpu_thread`, its signal and its wait for a state other than RUNNING |
| `terminating` | `processes_terminated++` |
| `enter` ... `leave` | `IRWL_WRITER_LOCK` to `IRWL_WRITER_UNLOCK` around a handler |
| `idle`, `idleWait` | `idle()` and its wait for `idle_cond` |
| `dequeue`, `setCurrent` | `schedule()`: under `ready_queue_mutex`, then `current_mutex` |
| `switchUnlock`, `switchStore`, `switchLock` | `context_switch()` |

| label of the supervisor | code |
| --- | --- |
| `sleep`, `gantt`, `ganttWait`, `reading` | the loop, `print_gantt_line()` under the reader lock |
| `cpus`, `eventWait`, `eventWoken` | `simulate_cpus()`, `simulate_process()` and its wait |
| `io`, `creat` | `simulate_io()`, `simulate_creat()` |
| `wakeLock` ... `wakeReturn` | `wake_up()` |
| `fpUnlock` ... `fpLock` | `force_preempt()` |

Only the supervisor holds a mutex (`simulator_mutex`) across labels, so its
owner is read off `supPc`; a CPU thread needs it free in each step that takes
it.  The critical sections of the other mutexes are a step each.

The model is the code as it is built.  The supervisor may start a tick while a
CPU thread is anywhere (the comment says it sleeps for 100 ms, the code sleeps
1 µs), and its waits in `simulate_process()` and `force_preempt()` end with any
signal of that CPU thread (`simulator_cpu_data[c].wakeup` is one condition for
both directions), with no test in a loop.  The one constant that widens or
narrows behaviours is `SpuriousWakeups`: a wait may return without a signal, as
POSIX allows.

"Ensure the scheduler gets run before the simulator", says `os-sim.c` at each of
those waits.  The code does not ensure it, and what depends on it is stated in
`OsSimOrder` as a property of every behaviour of the code, up to the first time
that the simulator overtakes the scheduler.  The history variable `overtaken`
becomes true with the step that does, of which there are two kinds: the
supervisor posts an event to a CPU whose thread is not blocked in `CPU_RUNNING`
(`PostsEarly`), or it goes on from its wait for a CPU whose event is still
pending (`LeavesEarly`).  No guard of the code is changed: all other
interleavings, the spurious wakeups that end no wait early and sleeps of any
length are explored before that step.

Abstractions: `current[]` starts as NULL, which is what a fresh heap holds (the
code does not initialise it); `simulator_time` counts modulo the creation
period, as nothing else reads it; a preemption timer below zero stays −1, as it
never expires; what a PCB's `state` says and where statistics count states is
printing and left out, with `context_switches` and the waiting times; `exit()`
and a segmentation fault stop all threads.

### How `Rtp` corresponds to the code

Each action is one turn of a loop: the client sends a packet
(`rtp_send_message`), reads the answer, receives a packet of the response
(`rtp_receive_message`) and answers it; the server receives a packet, sends a
packet of its reply, reads the answer.  A checksum is the sum of the
characters; corruption is a choice of the server at every packet, as its
probability is a command-line argument.  Characters are ASCII, where the
client's signed and the server's unsigned sum agree.  The pig latin and the
server's `strip()` are modelled by what they do, because the number of packets
of a reply and what a packet contributes depend on them.  `Lose` takes a
datagram of either direction.

### How `Vm` corresponds to the code

`Load` and `Store` are the commands of a references file, with the process
switch, `tlb_lookup`, `page_lookup`, `pagefault_handler` and `get_free_frame`
they call.  The page tables of the processes are one function of pages.
`stored` is what the references file expects, and `mismatch` the ERROR line of
`sim.c`.  In `tlb_lookup` the write to `tlb[tlb_size].used`, behind the array,
is left out: it falls in the padding of the heap block.  A process is
forked once, as in all references files.

### How `Cache` corresponds to the code

`Access` is `cache_access`: a hit or a miss, with the move of the way to the end
of its line's list in both.  The masks are taken arithmetically but for the one
of `tag_decode()`, an `int` shifted by 64 bits less those of index and offset,
which C leaves undefined.  On the machine it is right for 1 to 31 bits of index
and offset; with none of them, one line of one-byte blocks, it is empty, and
every address has the tag 0 (`TagOf`).  32 and more, where it is empty as well,
are excluded by `MaskLimit`.  `stats` holds
the counters of `cache_stats_t`; the averages that `cache_cleanup` computes from
them at the end are left out.

Statistics are a module of their own: `VmStats` adds the five counters to the
steps of `Vm`, computed from the state before an access.

### How `Problem0` corresponds to the code

`at[t]` is the statement a thread is about to execute, and each statement is an
action; `count++` is two, the read and the write.  `Wait` sets the mutex free
whoever holds it, and so does every unlock, as the normal mutex of glibc does.
`WakeSpuriously` may happen at any time; the history variable `spurious`
remembers it.  The assertions in the wrappers are left out: the calls return 0.

### How `Lc2200` corresponds to the code

The program is data: sequences of instructions, with the labels and in the order
of the source, laid out behind the vector table, and executed one instruction a
step.  What the processor does is taken from how the programs use it: an
interrupt puts the return address into `k0`, disables interrupts and jumps to
the address in the vector; `reti` goes back and enables them; `bonj` reads the
keyboard.  Words have no width: no address and no cell of the clock comes near 32
bits, and the factorials of up to 12 fit (the source computes that of 5).  The
n-th character is n.  `.fill` words have the values of the source.  The history
variable `active` keeps what each active handler has interrupted.  `Wild` stops
the model when an access through a register would read or change the code, or
change the vectors, which the keyboard handler does if it is interrupted at a bad
moment (see below).  `RoomAssumption` says that what is pushed does not reach
from the stack down to the code, nor the characters up to the clock.

### How the assemblers correspond to the code

`Assembler` takes lines as the tokens `lexer()` makes; each pass handles one
line a step.  A word is a record of fields, and operands are checked and counted
as errors as in the code, which goes on after an error.  In `Translated`, a line
with a wrong number of operands gives the word that is left over in
`machinecode`; `la` with one operand falls through to the code of `.word`.
`Lexer` has what a line and a token are, by position instead of by pointer.  A
token ends where the code writes a NUL, which it does only when it looks for the
next one: behind a full array the last token is all the rest of the line, unless
it is a delimiter (`TokenEnd`).  Integers have the widths of the code: `atoi()`
takes the nearest `long` and cuts it to an `int`, the sum of hexadecimal digits
wraps in a `long` (which C leaves undefined, and the machine does), and
`token_to_number()` cuts what it gets to an `int` (`Wrapped`, `Clamped`).
`Prj1Assembler` takes lines of `core.clj` as an opcode with its operands.  A
string of binary digits is a number with a width, so that what is lost with
leading zeros, and what is added by numbers with too many digits, is kept.  An
operand that is missing is `None`, which throws where the code takes it apart:
the address of `lw` and `sw`, the target of a jump.

## 3. The runs

| run | instance | what it shows |
| --- | --- | --- |
| `os_sim` | 3 processes, 2 CPUs, round robin with and without priorities, fair, every interleaving up to the first overtaking | the queue is a FIFO and processes live as they should; every ready process runs and the simulation ends, unless the simulator overtakes the scheduler |
| `os_sim_as_built` | 2 processes, 2 CPUs, FIFO, round robin and static priority, every interleaving, spurious wakeups, without end | no CPU misses a wakeup, the reader is beside no more writers than idle CPUs hide, requests match program counters, no early exit; processes are not lost or duplicated and their states are right up to the first overtaking |
| `os_sim_lost_event` | 2 processes, sleeps that outlast every dispatch | **violation**: a process is lost |
| `os_sim_hidden_writer` | as `os_sim_as_built` | **violation**: the Gantt line is read while a handler runs |
| `rtp` | 3 messages, packets of 3 characters, 1 loss | stored once, replied in order, stop-and-wait; completes without a loss |
| `rtp_full_packet` | one message of 3 characters with its NUL | **violation**: all but its first character is lost |
| `vm` | 2 processes of 2 pages, 3 frames, 2 TLB entries, 7 accesses | the tables agree whatever is evicted; loads are right until memory is full; the counters agree with each other and with the tables |
| `vm_evict` | 2 frames, any number of accesses | **violation**: a load after an eviction gives something else |
| `cache` | 4 ways, 2 lines, 6 addresses, 7 accesses | an LRU cache; write-backs are bounded by write hits |
| `interrupts` | factorial of 2, timer and keyboard, 4 interrupts | the program stops, and with the right factorial unless a keyboard handler has lost its pointer; handlers return intact; keys are not replaced; handlers that are not interrupted count right |
| `problem_0` | 2 counting threads to 3, spurious wakeups without bound | no increment lost, no signal missed, no early end |
| `assemblers` | texts of 6 characters; files of 3 lines, of 18; files of 2 lines, of 89 | passes agree, success is complete, offsets, tokens, numbers and words mean what the source says |

### Why the instances are large enough

*OsSim.* Two CPUs are needed for every race between CPU threads, and one of them
idle while the other works; three processes for a queue with two elements and a
third on a CPU, or two on CPUs and one waiting.  The programs have bursts of 0 or
1 ticks, the shortest that make a process yield, be preempted by a time slice of
1, and terminate; longer bursts repeat `RunBurst`.  `CreationPeriod` is 2 instead
of 10 so that processes overlap.  `os_sim` stops at the first overtaking, after
which its properties say nothing more, and has no spurious wakeups and one
scheduler with a time slice, so that there is room for three processes and for
liveness.  `os_sim_as_built` goes on behind it, with everything else that the
code may do, and has two.  In `os_sim_lost_event` the sleep between ticks
outlasts every dispatch (`MCSleepsLong`), so that the counterexample does not
come from a sleep of no time; the others that show a violation use the
specification itself.

*Rtp.* Packets hold 3 characters instead of 10.  The messages leave a rest of 0,
1 and 2 characters for their last packet, one of them ends in a packet from
which `strip()` leaves nothing, and the replies take one, two and three packets;
two fill the client's buffer to the last character, once before and once after it
has grown, and one does not.  One loss in any direction at any time is enough,
since nothing is printed after it.

*Vm.* Four pages in three frames force evictions and leave a frame free for
several accesses before; seven accesses fill the
frames, evict a page, bring it back and evict it again.  Pages collide by number in
the TLB between processes.  The counters grow with every access and need the
bound; the five invariants without counters are proved for all sizes and any
number of accesses (section 4), and `vm_evict` needs none.  Pages have one byte: no
table refers to bytes inside a page.  `UsedLimit` is 2 instead of 256 so that
the counter of a TLB entry wraps.  The processes are symmetric.

*Cache.* Five blocks compete for the four ways of a line, so that the victim is
found by its place in the list; a second line and a second byte of a block show
that they are kept apart.  The counters grow with every access and are bounded
by `MaxAccesses`, the length of the trace: five misses to fill and evict, two
more to hit or evict again.

*Lc2200.* The factorial of 2 calls itself once and multiplies once in a loop.  A
limit of 1 makes seconds carry into minutes after two ticks and minutes into
hours after four.  Any argument, limit and number of interrupts is covered by the
proofs (section 4).  An interrupt of `main` counts 1 and one anywhere else, in
`factorial` or a handler, 2 towards `MaxInterrupts`, which is 4: four in a row
in `main`, for the carries, or two of any kind that nest between any two
instructions, for the races.  Three nested ones repeat a pair of them.

*Problem0.* With two counting threads each may be at any statement when the
other signals; a limit of 3 lets one thread count on while the other stands
between its read and its write, and both go past the limit.

*Assemblers.* Each behaviour is one of the three tools (`tool` in
`MCAssemblers`).  Three lines hold a label before, at and behind the line that
uses it, and two definitions; the lines have every format, with operands too few,
too many and of the wrong kind.  `OffsetRange` is 2, an offset of two bits, so
that labels are out of range on both sides.  A buffer of 4 and an array of 4
tokens are filled by a text of 6 characters; its characters are taken from the
delimiters, or from what numbers are made of.  An `int` has 8 bits and a `long`
10, so that numbers of 6 characters overflow both.  In `core.clj` the fields are
6, 2 and 8 bits wide and an immediate has one hexadecimal digit, with values on
both sides of what fits.

*Deadlock* is checked in the runs of `OsSim` (the end of the program is a step
of its own, `Halted`) and in `vm_evict`.  It is not checked where the programs
stop: `Rtp` when all messages are sent or one is lost, `Cache` and `VmStats` with
the trace, `Lc2200` at `halt`, `Problem0` when the main thread ends, and the
assemblers.

### Fairness

`OsSim`: the supervisor is weakly fair, as only the writers of the student lock
and its own waits can hold it up; a CPU thread is strongly fair, because it
competes for `simulator_mutex` with a supervisor that gives it up in every tick
to sleep.  `os_sim` has no spurious wakeups, and its liveness properties give up when the
simulator overtakes the scheduler: a lost event is a lost process, and the
simulation need not end.
`Rtp`: both programs are weakly fair; corruption is a probability below one, so
that a packet sent again and again gets through uncorrupted at some time, which
is strong fairness of sending it uncorrupted.  Delivery is not fair: a loss is
allowed, and `Completes` says so.
`Lc2200`: the processor executes instructions (`WF_vars(Step)`), and interrupts
are as many as `MaxInterrupts` allows: with no time between two of them nothing
but handlers would run.
`Problem0`: each thread is weakly fair.  A counting thread that waits for the
mutex may be passed by the other, but both stop at the limit.

### What the violations mean

The findings in `PROJECT.json` quote the lines that the code contradicts.
`OnePlace` fails because a CPU thread signals at the top of each turn of its
loop: the signal that belongs to an earlier dispatch ends the supervisor's next
wait.  `ReaderAlone` fails because `context_switch()` gives up the writer lock on
the way from `idle()`, which does not hold it: for that time the count is one too
low, and a handler of another CPU, which the supervisor no longer waits for, is
not seen.  `LoadsLastStore` fails because the clock sweep clears valid bits
instead of used bits, so a dirty victim is not saved; and because a page read
back from the swap file is removed there and marked clean. `MessageArrives` fails
because the length of the last packet is the rest of the message's length, which
is 0 when the message fills it.

Other things the models show, which no run is about.  In `OsSim`: `-p` takes
processes in order of arrival (`student.c:223`), against `student.c:410`;
`schedule()`, called from `idle()` without the writer lock, may be about to write
a state while the Gantt line is read (`os-sim.c:84`); `wake_up()` puts the process
in the queue, which wakes the idle CPUs, before it looks for an idle CPU in
`current[]`, so that it may preempt a process although one of them has taken the
woken process already (`student.c:341-346`).  In `Lc2200`: the timer
handler changes `a1` and `a3` in what it interrupts; two ticks that overlap take
the seconds past 59, where the comparison for equality never resets them; the
keyboard handler that it interrupts stores its pointer somewhere else (`Wild`,
`Astray`), the one way in which the program stops without its result.
This is why `UninterruptedHandlersCount` is about handlers that are not
interrupted.  In `Lexer`: a line that fills the buffer goes on as a line of its
own, without its comment character; the last token of a full array goes on to the
end of the line, which takes 63 tokens, too many for any instruction, so that
the line is an error anyway; octal numbers are read as decimal ones and negative
hexadecimal ones as 0 (`ReadFor`), although the comments on
`is_numeric()` say "in decimal, hex or octal" (`assemble32.c:456`) and "negative
okay" (`assemble32.c:482`); a number beyond an `int` is cut to its low
bits, and a decimal one beyond a `long` becomes -1 or 0.  In `Assembler`:
the first pass fails for lines that start with a delimiter too, and words of bad
lines stay in the output.  In `Prj1Assembler`: an immediate of more than four
digits and an unknown register change the length of the word; a second run
appends.

## 4. The proofs

### Ready queue

`OsSimPlaceProofs` begins with the linked list, which represents a sequence.
`InitIsEmpty`: the initial list is the empty one.  `EnqueueAppends`: enqueueing a
process not in the queue appends it to that sequence; the new link does not
disturb the chain of the others because their successors are other nodes.
`DequeueTakesHead`: dequeueing takes the head, and never follows NULL.

### Operating-system simulator

For any number of CPUs and processes, any programs that satisfy
`ProgramAssumption` (what `process.c` contains), any priorities and time slices,
with any timing and spurious wakeups, `OsSimProofs` shows, by induction over the
steps:

- `TypeCorrect`: `TypeOK`;
- `RequestsMatchCounters`: `OneRequestPerProcess`;
- `NoWakeupLost`: `WakeupNotLost`;
- `ReaderExcludesWriters`: `ReaderExclusion`;
- `ExitIsNeverEarly`: `TerminationsCounted`.

The inductive invariant of the first two is

    IInv == TypeOK /\ SupervisorOK /\ CpuThreadOK /\ OneRequestPerProcess

`TypeOK` alone is not inductive.  A program counter moves on when an I/O request
completes, and stays inside the program only because the request stands at an I/O
operation, which is not the last one; that is `OneRequestPerProcess`.
`SupervisorOK` and `CpuThreadOK` say what the local variables of the threads
hold at each label: the CPU the supervisor waits for, the process it wakes, the
event a CPU thread is handling.  The other three are then inductive relative to
`IInv`: no step puts a CPU to sleep with a queue that is not empty and the step
that makes it non-empty wakes all; each step moves the count of writers and the
sets of writers and debtors together (`WritersBalance`), and the reader, who gets
in at a count of zero or less, holds the mutex under which it is moved
(`ReaderSeesNone`), so that no more writers are beside it than debtors; each
termination is counted by one CPU
after the process reached its end.

Nothing is assumed but the named assumptions on the constants in `OsSim` and
`ReadyQueue`, which TLC evaluates in every run.

`OsSimPlaceProofs` is about what fails once the simulator has overtaken the
scheduler (`os_sim_lost_event`).  Its theorems are about `HSpec`, the program as it
is built with the history variable `overtaken`, which takes no behaviour from it
(`HistorySpec`), and are as general as those above: no assumption is made about
the sleep, the waits or spurious wakeups.

- `ProcessesAreNotLost`: `OnePlaceInOrder`;
- `ReadyQueueIsFifo`: `ImplementsFifo`, the refinement of `FifoQueue`;
- `SimulatorImplementsLife`: `ImplementsLife`, the refinement of `ProcessLife`;
- `StatesTellPlaces`: `StateMatchesPlaceInOrder`.

They say that nothing but an overtaking, which the history variable defines by
the lines where it happens, ever loses a process.

The invariant adds two parts to `IInv`, which hold while `overtaken` is false.
`ThreadsOK` is about the threads: at most one CPU has an event, and the
supervisor waits for that one (`OneEvent`); the state of a CPU tells how far its
thread may be (`StateOfThread`); `current[]` and `simulator_cpu_data` agree but inside
`context_switch()` (`SameCurrent`).  Each step but an overtaking keeps it; an
overtaking lets a second event overwrite the first, and `OneEvent` fails.
`PlacesOK` is about the
processes: they arrive in order (`CreatedInOrder`), the list is a sequence
without repetitions (`QueueOK`, with the theorems about the ready queue), and each
process has at most one place, and one just when it has arrived and not ended
(`EachPlaced`).  It is preserved because each step moves at most one process:
a lemma per action says which (`AllStay`, `OnlyMoves`), and `Stays` does the rest
for the others.  From the same lemmas each step is a step of `FifoQueue` and of
`ProcessLife`, or stutters.

For the states, `EventsOK` says that a process on its way to the handler of its
yield or its end is in the I/O queue or done already, the only time its state is
behind (`StateOK`).

### Virtual memory simulator

For any processes, pages, frames, TLB entries, page size and limit of the use
counter that satisfy `SizesAssumption`, `NullAssumption` and `ValuesAssumption`,
`VmProofs` shows:

- `TypeCorrect`: `TypeOK`.  The hard part is that the clock sweep stops at a
  frame: it comes back to a page whose valid bit it has just cleared (`StopType`).
- `FramesAreOwned`: `FramesOwned`, with `TypeOK`.  A fault gives a page the frame
  of another one, which is not valid any more (`FaultTables`).
- `PagesAreSwappedOnce`: `SwappedOnce`, with `TypeOK`.  A page enters the swap
  file when it stops being valid, and the one copy is unlinked when it is read
  back (`FaultSwap`).
- `TlbAgreesWithTables`: `TlbAgrees`, with `TypeOK`.  The TLB is cleared when
  another process runs (`TlbForAgrees`), a page gets an entry only when it has
  none, and there is one slot to replace (`InsertedFacts`).
- `CoherentBeforeEviction`: `CoherentUntilFull`.  It needs the three above but
  `SwappedOnce`, and that the swap file is empty while a frame is free
  (`NoSwapUntilFull`): a page that is not valid then has not been used, and is
  blank in memory as in what the commands expect.
- `CountersAgreeWithTables`: `CountersAgree`, of `VmStats`.  An access is a TLB
  hit or a page fault at most, so that their counters together never exceed
  reads and writes (`HitOrFault`; a page is found in the TLB once, `HitOnce`).  The
  disk accesses are the pages saved and those read back, and a page saved is in
  the swap file or was read back, once; a fault saves one page at most and reads
  one back at most; and each page that was saved or is still dirty has a write of
  its own (`DiskAccessesPaid`).  `FaultDisk` shows that a fault keeps this: what it
  saves was dirty and is valid no more, and what it reads back comes clean and
  leaves the file (`UnlinkedLength`).  Until memory is full, faults are first uses
  (`ColdFaultsOnly`).

The three ways to find a page (`HitStep`, `PageTableStep`, `PageFaultStep`) are
each described once, and `LookupStep` gives all proofs the same case split.
`LoadsLastStore` is false of the code (`vm_evict`), and `CoherentBeforeEviction`
says that nothing goes wrong before the first eviction.

### Condition-variable exercise

For any number of counting threads and any limit, with spurious wakeups where
they may happen, `Problem0Proofs` shows:

- `NeverExitsEarly`: `ExitsAtLimit`.  The counter, and what a thread has read of
  it, is never ahead of the increments done (`Bounded`), also when increments
  are lost; `finished` is set when the counter is at the limit.
- `NothingIsLost`: `NoIncrementLost`.  Without a spurious wakeup, a thread in its
  critical section holds the mutex (`Exclusive`), and so finds the counter as it
  has read it (`Accurate`).  The point is that the main thread releases only its
  own mutex: once it is woken `finished` is set, and it does not wait again.

### Transport protocol

For any messages that are not empty, any size of a packet and any number of lost
datagrams, `RtpProofs` shows:

- `StopsAndWaits`: `StopAndWait`;
- `Typed`: `TypeOK`;
- `StoresOnce`: `StoredOnce`;
- `PrintsRepliesInOrder`: `RepliesInOrder`.

The inductive invariant `InStep` says
whose turn it is: the client sends and the server answers (`ClientsTurn`), the
server has accepted the last packet and sends its first one behind the answer
(`TurnToServer`), and the same the other way (`ServersTurn`, `TurnToClient`).  Two
datagrams are together only at a change of turn, and the one who gets the answer
then has to know that its packet was the last one (`AtLast`): it would go on
sending otherwise.  After a loss the two may disagree whose turn it is
(`OutOfStep`), but then at most one datagram is on its way or about to be sent,
and nothing ever adds one.

`TypeInv` is `TypeOK` and what it rests on: the message and the packet at hand
exist, and the capacity of the buffer is one that doubling makes.
The other two theorems are about what the packets hold.  `Transfer` says it for
each turn: before a packet is accepted the server has stored the pieces in front
of it, and after that those up to it while the answer says so (`ClientsText`); the
reply is the one to the message at hand when the turn passes
(`ServersReply`); the client's buffer is as far as the server's packets
(`ServersBuffer`, `ClientsPacket`).  What a lost datagram leaves is that one side
is ahead of the other by the packet that was lost (`LostText`).  None of these is
inductive without `InStep`, which says which datagrams there are, and `TypeInv`.
A corrupted packet is refused because no checksum of its own is what `Corrupt`
makes of it (`CorruptIsSeen`).

What the server stores, what it makes of a message and how large the buffer
becomes are recursive functions of the model.  They are unfolded with
`Recursion`, which shows that a function of the natural numbers with a given
first value and a given step exists.  The step is a function too and induction
is over sets of numbers (`Induction`), so that no operator is a parameter.

### Cache

For any number of ways and lines, any size of a block and any trace of natural
addresses, `CacheProofs` shows:

- `TypeCorrect`: `TypeOK`.  That no way is twice in the list of a line is not
  inductive: moving up the ways behind the one used would repeat the last one if
  that one were not in the list.  `TypeInv` adds that none is missing, and
  `MovedIsOrder` shows that `update_LRU()` keeps both.
- `TagsAreUnique`: `UniqueTags`.  A miss brings in a tag that no way of the line
  holds, and a hit changes no tag.
- `FewWriteBacks`: `WriteBacksBounded`.  A hit that writes adds at most one dirty
  block and one write that hits; a miss takes the replaced block out of the dirty
  ones and counts it if it was there, and raises both counters of the difference
  or none.
- `VictimsAreLeastRecent`: `find_invalid_block()` finds the way at the head of
  the list, so that it could have been left out.  The invariant is `EmptyFirst`:
  the empty ways are in front, in their order.
- `CacheImplementsLru`: `ImplementsLru`, the refinement of `LruCache`.  `Recent`,
  what the list of a line says of the blocks used last, is a sequence of
  different tags as long as there are valid ways (`RecentFacts`).  A hit takes its
  tag out of that sequence and appends it (`HitRecent`), a miss appends the new
  one and drops the first if the line is full (`MissRecent`): these are the two
  actions of `LruCache`, and every other step leaves the sequence alone.

### Assembler

For any set of files, any format of the opcodes, any numbers and any width of an
offset that satisfy the named assumptions, `AssemblerProofs` shows:

- `LabelsAreRight`: `PassesAgree`;
- `SuccessMeansComplete`: `SuccessIsComplete`;
- `OffsetsAreReadBack`: `OffsetsReadBack`;
- `NumbersAreRead`: `NumbersRead`, of the functions of `Lexer`;
- `WordsAreReadBack`: `WordsReadBack`, of `Prj1Assembler`.

The inductive invariant of the first two is

    IInv == TypeOK /\ Counted /\ LabelsPlaced /\ CountsAlike /\ Complete

The two passes are related only through what the first one has left behind.
`Counted` says what the addresses `pcs` of the lines are, line by line;
`LabelsPlaced` that the symbol table has them, unless there was an error;
`CountsAlike` that the second pass, which counts for itself, arrives at the same
ones, and that its output is as long; `Complete` that the lines translated so far
are those with an opcode, each with as many operands as its format.  The second
pass skips a line just where the first one did (`Size`), but for one with a
delimiter where an opcode should be, which is an error.

For the third, `OffsetsSoFar` is about every word of a second pass that has met
no error: `check_offset()` has let the offset through (`NoErrorInRange`), and the
low bits of an offset that it lets through give it back as a signed number
(`LowBits`).  `OffsetsKept` moves this from one step to the next, since
the words that are written and the symbol table do not change.

The fourth holds for every text (`TokensAreRead`), of any length, and any widths
of an `int` and a `long`, of which the first is not the greater.  A token that
`is_numeric()` accepts has digits of its base only, up to its end, so that
`hextoi()` stops there (`ValueOfDigits`); octal digits are decimal ones
(`OctalIsDecimal`), and of a negative hexadecimal number it reads the 0 in front
of the x (`ValueOfZero`).  `ReadFor` says what each notation is read for.  What
the digits sum up to is the same operator on both sides, and is not unfolded
(`DigitsAreRead`).  Cutting a number to a type leaves it alone if it fits, and
its low bits always (`WrappedIs`): so a number that is an `int` is read as it is,
and one that is a `long` with its low bits, which is all that `.word` takes.

The fifth holds for any registers, any files and fields of any width that fill
a word.  `FormatAssumption` asks that a word has room for an opcode, two
registers and an immediate as wide as a third register or wider;
`SourcesAssumption` that a line has a token, good or bad, for each of its
operands.
The word is put together from strings, so that the value of each is shifted once
for each string behind it (`JoinMany`); that two shifts are one needs
2^(a+b) = 2^a * 2^b (`PowerSum`), for which the prover has no axiom: it
follows from counting the subsets of a + b elements, which are in pairs those of a
and those of b.  A number that fits has just the least width
(`WidthIs`), and so every string has the width of its field (`EncodedIs`, by
format).

### The LC-2200 programs

For any argument, any limit of the clock, with either or both devices and any
number of interrupts that the stack has room for (`RoomAssumption`),
`Lc2200Proofs` shows:

- `Levelled`: the invariant below;
- `Resumes`: `ReturnsIntact`;
- `OwnKeyStored`: `StoresOwnKey`;
- `HandlersCount`: `UninterruptedHandlersCount`;
- `StopsAtTheEnd`: `StopsRight`, the safety half of `CompletesWithFactorial`.  A
  state that is not `Running` is the last one, so that TLC checks it with the
  liveness property.

First the program is laid out: the code is a sequence made by `FlattenSeq` of
sections made of pushes, pops and instructions, and `Addresses` and the lemmas
around it find what stands at each address.  The library says nothing of
`FlattenSeq`; its lengths and places follow from unfolding the recursive function
that defines it, by induction over a set.

The inductive invariant is

    IInv == TypeOK /\ Levels /\ MemoryKept /\ KeyThere /\ Counted

*Levels.* Level 0 is the program and level k the k-th handler that is active.
`LevelOK` says that each is at an instruction of its own code, that the words it
has pushed hold what it interrupted, that the registers it has not used are as
they were, and where its frame lies: below those of the levels that it
interrupted, with room under it for the rest.  `FactorialOK` says the same of the
calls of the function inside of each other.  A step of the last handler writes to
its own frame or off the stack, so that the levels it has interrupted are spared
(`MainSpared`, `HandlerSpared`), and when it returns, the one it interrupted goes
on as it was (`MainResumes`, `HandlerResumes`).

*MemoryKept.* The handlers store through registers that a nested interrupt
changes, and nothing is right unless those stores stay off the stack.  A pointer
in `a1` is an address, or a cell of the clock, or what another handler computes
from it: all of these are at most `Most`, which grows with the interrupts, but for
a timer handler that has yet to add its one (`Owes`), and `RoomAssumption` keeps
that below the stack.  A pointer in `a2` that points below the stack stops the
program before it is used, since it points into the code, and no handler gets
past its store with it (`PointersKept`).

*KeyThere.* A handler that has not read the keyboard is not interrupted, so that
its own character is still there.

`Resumes` and `OwnKeyStored` follow from `IInv`.  The other two need more,
inductive relative to it.  `Quiet`: while no handler has been interrupted, one is
active at most, and what it has yet to do is known at each of its instructions.
The clock lags by what is `Due`, one second, or a minute where the seconds have
been reset but not carried, and the characters by one that is `Late` or `Behind`.
`Valued`: every call keeps what it multiplies by on the stack of the calls inside
of it (`CallersKept`), the loop keeps the sum of `v0` and `s1` times `s0`
(`OwnValues`), and a call returns the factorial of its argument; a handler, which
saves what the function uses, leaves all this alone.  `KeyTyped` (a keyboard
handler is active only after a character) is for the last case of `StopsRight`.
`IInv`, `Quiet`, `Valued` and `KeyTyped` held in TLC on small instances before they
were proved.

### What only TLC checks

- Liveness: `ExitsOrOvertakes`, `ReadyRunsOrOvertaken`, `Completes`, `ShutsDown` and
  `CompletesWithFactorial` (that the program stops; where it stops is proved).
  Fairness and `ENABLED` are out of the prover's reach.
- `TextTakenApart` of `Lexer`: its lines and tokens, and the reference
  definitions with sorted sets and selected characters, are recursive over the
  text, and the prover knows nothing of `SelectSeq` and `SortSeq`.
- The properties of the runs that show a violation.

## 5. What is not modelled

- `dequeue_priority_ready()`, which nothing calls.
- Statistics of project 6, the averages of projects 4 (`compute_emat()`) and 5
  (`cache_cleanup()`), and all printing: nothing reads them while the programs
  run.
- Of the assemblers: messages, the name of the output file, `symbol_dump()`,
  which only a debug build has, how `core.clj` splits a line, and its format S,
  which no instruction has.
- The data paths: drawings, with no source that says what they do.
- A second fork of a process in `Vm`, which no references file has.
- Socket set-up, TERM packets, which no side sends, more than one client, and
  duplicated or reordered datagrams.  The packets carry no sequence number, so
  that none of the properties of `Rtp` would survive them.

## 6. The plan

Order: the most concurrent program first, then the one with most tables.

1. *Done:* `ReadyQueue`, `OsSim`, their properties and proofs;
   `Rtp`, `Vm`, `Cache`, `Problem0`, `Assembler` and `Lc2200` with their proofs;
   `Lexer` and `Prj1Assembler`; `VmStats`.
2. *Done:* the places and states of processes and both refinements of `OsSim`, up
   to the first overtaking.
3. *Done:* the proofs of `ImplementsLru`, of what the packets of `Rtp` hold, of
   the counters of `VmStats`, and of the words, offsets and numbers of the
   assemblers; of what the programs of `Lc2200` do under any interrupts.
4. Model, if it turns out to be worth its place: reordered datagrams in `Rtp`,
   and repeated forks in `Vm`.
