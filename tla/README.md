# MACAC-OS in TLA+

MACAC-OS is a small 64-bit teaching kernel with one CPU: preemptive round-robin
processes, semaphores, pipes, a keyboard, a heap, and a shell with demo programs.
This directory specifies the kernel, the shell and the programs that use processes
and semaphores in TLA+, model-checks the specifications with TLC on small
instances, and proves the most important of their properties with TLAPS for every
size of the tables. Paths below are relative to `src/`; those without a directory
are in `Kernel`, `Kernel/utils` or `Userland/SampleCodeModule`.

Contents:
1. the system: components, state, operations, interactions
2. what is hard in it
3. the modules and how they correspond to the code
4. the runs: what each checks, its bounds and why they are enough
5. fairness
6. the proofs
7. where the code does something else than it says
8. what is not modelled
9. the plan

## 1. The system

### How the parts meet

There is one CPU. Code runs either in a process (interrupts on) or in one of three
kernel entries, all of them interrupt gates that run with interrupts off from
their first to their last instruction (`Kernel/asm/interrupts.asm`):

- `_irq80_handler`, the system calls: `syscall_dispatcher` picks one of 37
  functions (`Kernel/syscall_handler.c`);
- `_irq00_handler`, the timer: `consume_tick` says whether the process keeps the
  CPU, and if not `next_process` gives the stack of another one;
- `_irq01_handler`, the keyboard: `keyboard_handler` stores a character or, for
  Ctrl-C, kills processes.

An entry gives up the CPU in its own middle by raising the timer interrupt itself
(`force_timer_tick`). A call that sleeps is therefore one entry that ends with a
switch, and whoever gets the CPU continues after its own switch. This is why one
**whole kernel entry is one action** of every module here: nothing interleaves
with it, and its effects up to the switch are visible at once. Everything the
user programs do between entries is free: they may make any call at any time, in
any order, or never.

### Components

| Component | State it keeps | Operations | Reached through |
|---|---|---|---|
| Process table and dispatcher (`Kernel/scheduler.c`) | `process_list` (100 slots), `dim`, `current_process_idx`, `pid_value`, the quantum of each process | `create_process`, `end_process`, `kill_process`, `kill_all_processes`, `block_or_unblock`, `change_priority`, `next_process`, `consume_tick`, `force_next_process`, `change_process_state` | system calls, timer, Ctrl-C, exceptions, semaphores, child table |
| Child table (`Kernel/child_processes.c`) | `children_processes` (50 pairs of parent and child with a state) | `create_child_process`, `wait_for_children`, `set_dead_process` | system calls; every death in the process table |
| Semaphores (`Kernel/utils/semaphore.c`, `queue.c`, `lock.c`) | `semaphores` (30), `current_sem_amount`, one waiting queue | `create_sem`, `create_sem_by_id`, `open_sem`, `close_sem`, `wait_sem`, `post_sem` | system calls, pipes; puts processes to sleep and wakes them |
| Keyboard (`Kernel/keyboard.c`) | ring of 1024 characters, two indices and a count, `ctrl_pressed` | `keyboard_handler`, `get_first_char` | keyboard interrupt; `sys_read` |
| Heap (`Kernel/memory_manager.c`) | headers inside 1 MB of memory, `mem_info` | `memory_init`, `memory_alloc`, `memory_free` | processes' stacks and parameters, pipes, queues, user programs |
| Pipes (`Kernel/utils/pipes.c`) | `pipes` (20), each with a ring of 1024 bytes and two semaphores; `pipes_count` | `create_pipe`, `create_pipe_available`, `delete_pipe`, `read_pipe`, `write_pipe`, `set_eof` | `sys_read`, `sys_write`, pipe calls; uses semaphores and heap |
| System calls (`Kernel/syscall_handler.c`) | none | dispatch; `sys_read` chooses keyboard or pipe, `sys_write` console or pipe | software interrupt 0x80 |
| Boot (`Kernel/kernel.c`, `idt_loader.c`) | none after the boot | IDT, heap, shell, idle process, jump to the shell | machine start |
| Text console (`Kernel/naive_graphics_console.c`) | pen, font size, colours, the pixels | `ngc_print`, `ngc_print_char`, `delete_last_char`, `change_font_size`, `ngc_paint_screen` | `sys_write`, font, colour and drawing calls |
| Exceptions, clock, speaker, library | ports | print registers and end the process; read the clock; beep | exceptions, system calls |
| Shell (`Userland/SampleCodeModule/shell.c`) | its line buffer | `parse_buffer`; runs a command in the foreground, in the background, or two in a pipe | reads the keyboard, creates children and pipes, waits |
| User library (`inout.c`, `string_util.c`, `commands.c`) | the line under the cursor | `buffer_action`, conversions, `printf`, the commands | system calls |
| Dining philosophers (`phylo.c`) | `state`, `curr_philos`, `end`, `pids`, two semaphores per place and two for all | `do_philo`, `add_philo`, `remove_philo`, `take_forks`, `put_forks`, `test`, `eat` | a shell command; shared variables, semaphores, processes |
| Test programs (`test_util.c`) | a shared variable; what they know of their children | `test_sync`, `test_processes`, `test_prio`, `test_mm` | shell commands; nearly every system call |
| Tron (`tron.c`) | `player1`, `player2`, `board` | `play_tron`, `update_position`, `is_alive`, `set_players` | a shell command; reads keys and ticks, draws |
| Bootloader, ModulePacker, font maker | | host tools and vendored code | |

### What makes each of them correct

- **Process table.** `dim` is the number of live processes (else the search for a
  free slot runs past the table); pids are unique among the living; shell and idle
  survive everything; no entry returns to a process that is not READY; a READY
  process is run again and again; idle runs only when nothing else can.
- **Child table.** A parent sleeps until its last child has ended: no lost
  wake-up, no early one, no wait for children that are gone or never were.
- **Semaphores.** A wait takes a permit or sleeps, a post wakes one sleeper or
  leaves a permit; a sleeper is in the queue unless the queue was full; nobody in it
  waits for ever while posts come.
- **Keyboard.** What was typed is read once, in order; a full ring loses the
  newest characters, never an old one; indices and count agree wherever they wrap.
- **Heap.** Blocks tile the memory; callers never share bytes; the accounting is
  exact; NULL means that there is no room.
- **Pipes.** Bytes arrive in order, each once, and none from an earlier pipe; the
  two semaphores say how full the ring is; a process sleeps only while it has to;
  whatever ends a pipeline, its semaphores and its slot are given back.
- **Console and shell.** What the user sees is what will be run; the pen never
  leaves the screen; a line is divided into the words that were typed, or refused
  for having too many.
- **Philosophers.** The keeper's count is the table, whatever was added, refused or
  removed; nobody's semaphore is closed under him; nobody divides by a count of 0; the
  table can always be cleared. (That one process at a time changes the table is what
  `MUTEX` is for; on this kernel it fails, section 7.)
- **Tron.** No position leaves the board; the board shows the trails of this game;
  a game ends.
- **Test programs.** `testsync` prints 0; `testsc` and `testprio` know the state of
  their children; no test leaves processes behind.

## 2. What is hard in it

`PROJECT.json` lists the hazards, each at its line. They are of nine sorts:

- *Orders of entries nobody wrote a test for*: a child that ends before, between or
  after its parent's create and wait; Ctrl-C that kills the very process the
  keyboard interrupt runs on, together with its parents.
- *Holes*: a death leaves a hole in the process table, a closed semaphore one in
  the array, a finished child one in the child table, and each scan of those tables
  has its own idea of where to stop.
- *Stale names*: the queue keeps pids of processes that may be dead by the time of
  the post; free entries keep a parent pid 0 which is the shell's.
- *Limits and widths*: -1 in a `uint8_t` and 0xFF in a signed `char` compared with
  numbers they never equal; `dim`, the queue, the rings and the arrays when full;
  a shift by 32; unsigned positions that step off 0; pointer arithmetic on headers
  where bytes are meant.
- *Long sequences*: split, merge and reuse of heap blocks of odd sizes.
- *Calls that sleep in their middle*: a read or write of a pipe holds an index, a
  count and a permit while others read, write, die, or delete.
- *Programs that are killed anywhere*: Ctrl-C and `remove_philo` end a process in
  whatever it does, with permits in its hands or its pid in a queue.
- *Programs in the background*, which clear the screen, change the size of the letters
  or print in the middle of a line that is being typed.
- *Things that must go on*: round robin, the queue of a semaphore, the clearing of the
  table, a game of Tron.

## 3. The modules

| Module | Models | Notes |
|---|---|---|
| `Scheduler` | `scheduler.c`, `child_processes.c`, the timer entry | core: process table, child table, dispatcher |
| `SchedulerReference` | the same files' loops, iteration by iteration | only compared with the closed forms of `Scheduler` |
| `Semaphores` | `semaphore.c`, `queue.c`, `lock.c` | EXTENDS `Scheduler`: a composition with one process table |
| `WaitQueue` | `queue.c` by itself: the ring, its creation and destruction in any state | what `Semaphores` takes for a sequence |
| `CountingSemaphore` | what `include/semaphore.h` promises | abstract specification, implemented by `Semaphores` |
| `Pipes` | `pipes.c`, the pipe side of `sys_read` and `sys_write` | EXTENDS `Semaphores` |
| `Pipeline` | `piped_process_handle` of `shell.c`, and its two programs | EXTENDS `Pipes`: shell, programs, pipe, semaphores, tables and Ctrl-C together |
| `ByteStream` | what a pipe promises | abstract specification, implemented by `Pipeline` |
| `TestPrograms` | `test_util.c` and the shell that runs it | EXTENDS `Semaphores` |
| `Philosophers` | `phylo.c`, Ctrl-C | over the kernel's semaphores with their one queue, see below |
| `Console` | `naive_graphics_console.c` | |
| `ShellLine` | the loop of `shell.c`, `parse_buffer`, the line editor of `inout.c` | EXTENDS `Console` |
| `StringUtil` | `string_util.c` and the conversions of `inout.c`, `commands.c` | pure operators |
| `Keyboard` | `keyboard.c`, `sys_read_handler` | |
| `InputQueue` | what a bounded first-in first-out queue promises | abstract specification, implemented by `Keyboard` and by `WaitQueue` |
| `MemoryManager` | `memory_manager.c` | |
| `Tron` | `tron.c` | one process; Ctrl-C may end it anywhere |
| `MC*` | instances for TLC | `MCShellLine` also holds the comparison of the conversions, which are recursive |
| `*Proofs` | theorems | see section 6 |

### Scheduler

`process_list` is a function from slots to records with the fields that matter:
pid, state, quantum (`assigned_ticks`), `immortal`. A dead slot is `FreeSlot`: the
code leaves the dead process's other fields there and never reads them again.
`remaining_ticks` is one variable because the field is read only while its process
owns the CPU and is reloaded when it gets it back. Stacks, parameters and
descriptors of standard input and output are left out.

Each action is one entry. `Destroy` is `destroy_process` for a set of slots, with
everything it does to the child table and to the parents; `DestroyAndSwitch` adds
the count and the switch that follows when the owner of the CPU is among the dead;
`KillProcess`, `EndProcess` and `KillAllProcesses` (Ctrl-C) are its three callers.
`ForceTimerTick` is the switch: `Irq00` decides as `consume_tick` does, then
`NextProcess` scans from the next slot modulo `dim`, as the code does, and falls
back on idle. The closed forms (`Destroy`, `ReadyAhead`, `Chosen`) stand for loops;
`SchedulerReference` writes those loops out with folds and a run compares them in
every reachable state.

Init is the state the boot leaves: shell in slot 0, running; idle in slot 1,
paused. `MaxPid` bounds the pids that are issued (a 32-bit counter in the code);
it is in the guard of `Spawn` only. `CreateChildFails` may happen at any time
because the heap may refuse the stack at any time.

### Semaphores

The field `waiters` of a semaphore is a pointer that no code ever sets: it is NULL
in all of them, and every queue operation works on the one `queue_CDT` at address 0.
The model has that one queue (`waiters`, `buffer`). `buffer` is "none" before the
first semaphore is created, "live" afterwards and "freed" after a `close_sem`,
which frees the elements while the queue stays in use; what is dequeued then may
be any pid.

`find_sem` answers 255 for an unknown id, `find_free_sem` at the limit does, and
`create_sem` goes on with any id as an index; no caller notices, and all of them work on
memory behind the array. Nobody knows what lies there: a lock that reads as taken (the
call then spins with interrupts off for ever: no step), any value, the one queue or
another one. `CreateOutside`, `OpenOutside`, `CloseUnknown`, `WaitUnknown` and
`PostUnknown` allow whatever that can do to queue, count and tables: a wait may go on, or
sleep in the queue or outside it; a post may wake anybody or nobody, from the queue or not.
What is assumed is that the memory there holds none of the tables themselves.
`current_sem_amount` is a byte (`% 256`).

`waiters` is a sequence, which `WaitQueue` justifies: there the queue is the array with
its two indices and its length, a creation or a destruction may come in any state, and
`QueueIsFifo` says that what it holds is such a sequence. `freed` is `buffer = "freed"`, and
`Reused` what the next owner of the memory does to it.

Two specifications share the actions: `SemSpec` (any use, with every scheduler
step) and `CarefulSpec` (ids used while open, nobody kills, blocks or parents a
sleeper). The refinement
to `CountingSemaphore` takes `waiting` to the pids the process table shows asleep and
the queue holds, and `lost` to those that sleep without a place in it, so it relates
semaphore, queue, table and dispatcher at once. The abstract semaphore has as many
`Places` as the queue: the header does not mention that limit, and whoever comes when
all are taken is lost in both.

### Pipes and Pipeline

A pipe call is one entry with interrupts off, but `wait_sem` inside its loop may
switch, and the call goes on when its process has the CPU again. So each process has
the rest of its `call` (operation, slot, bytes left, and whether the wait of this
turn is behind it), and one turn of the loop is two steps: `WaitTurn`, and
`StoreByte` or `TakeByte` with the post that follows. While the owner of the CPU is in
a call nothing but that call goes on: `KernelStep` (timer, end, Ctrl-C) is guarded by
that. `io` is each process's standard input and output; `got` is the last byte read.
`FindPipeAvailable` is the search as it is, which proposes a taken id when two are
taken, and `pipes_count` only grows.

`Pipeline` is the shell's loop over two programs and a pipe. The programs are
arbitrary: they read, write and end as they like. `KillAllProcesses` and the tables are
`Scheduler`'s, so Ctrl-C may kill a writer asleep in the pipe, and the shell that
sleeps for both is woken by the child table. `ShellCreatesChild` covers a refused
creation too. The shell's wait is the call: it does not return as long as the child
table counts a child.

### TestPrograms

Each process has its place in its program and that program's locals (`prog`). The
steps are the system calls, each composed with `Scheduler` or `Semaphores`, and the
two accesses of `slowInc` to the shared variable, between which the code gives up the
CPU itself. `rqs` is what `testsc` and `testprio` write down about their children. The
random choices of the code are disjuncts.

`testprio` does not look at what its creations return: `PrioCreates` puts the error code
of a refused one into its list, and the passes go on with it (`OnChild`): `kill_process`
finds nobody, and `block_or_unblock` and `change_priority` write behind the process table,
which the model leaves alone.

### Philosophers

The protocol of the table: `state`, `curr_philos`, `end`, and where each process is (`pc`),
one step from each system call or write of the shared arrays to the next. Any process
that is awake may step: this covers every order of the dispatcher, quanta and ticks left
out. `test(j)` reads three states, writes one and posts, and the code may be interrupted
in between: the look (`Looks`), the write (`Grants`) and the post (`Tells`) are three steps,
as are the parts of `add_philo` and `remove_philo`. The semaphores are the kernel's, seen
from here: each has its value (or is closed), and all have the one queue, which a creation
empties, a close frees and a full one drops from; a call on a closed semaphore may do what
`Semaphores` allows of an unknown id. `AddIsRefused` is the error path that leaves `MUTEX`
taken; `Interrupt` is Ctrl-C, after which the next game finds `MUTEX` and `PRINT_MUTEX` as
the last one left them and closes them first (`Starts`). A process that dies is `Gone` in the queue: its pid
stays there and takes a post.

### Tron

A turn of the loop is one step (`Turn`): two keys are read, each may move one player, both
then move on in their directions, and both are judged. `Driven` is the set of places where
the two may stand then, over all pairs of keys: up to three cells away, since only the last
of them is looked at and marked. `board` is the set of cells that are 1, and it is never
initialised but by `NewGame`, which clears what the code clears. `trail` is a history
variable, the cells each player was alive on in this game; no action reads it. `d` is
declared in `play_tron` and not set before it is compared: any answer may lie there
already. Positions are unsigned numbers modulo `WORD`.

### Console, ShellLine and StringUtil

The pen is two 16-bit numbers (`% 2 ^ 16`), and `row` is what was drawn at each pixel of
the line it is on. Backspace blackens a square as wide as a letter is high, which
erases up to one and three quarters letters; the model keeps that, since it is only
harmless because nothing stands to the right. `ShellLine` goes key by key: a letter is
drawn whether or not the buffer takes it, and backspace removes from both.
`WordStarts`, `StringAt`, `Command`, `Parameters` and `ParsedSize` are `parse_buffer` with its
own ends of loops and its -1 (a parameter is never longer than its row, which is as long as
the line, so `LENGTH_PARAMETERS` stays out). `Handled` is what the shell does with the result; "overrun" is
the -1 taken for a length by `prepare_parameters`, after which the model stops.

A program is what it does to the screen, one step at a time (`Draws`): it changes the size,
clears, or prints a letter. In the foreground it does so while the shell waits; a program
in the background runs on while the prompt is printed and the next lines are typed, and
draws at any time (`BackgroundDraws`): what it writes to its standard output is dropped, but
`sys_font`, `sys_clear_screen` and `sys_print_color` do not go through a descriptor.
`background` says that there is one. Two history variables say what that does to a line:
`disturbed`, that one drew while this line was typed, and `mixed`, that the size was
changed behind letters on the same line, so that what hangs down from the large ones may
reach into lines below. A key without a letter (Alt, function keys) gives the character 0,
`NUL`, which the console draws as a blank and the buffer stores. In `StringUtil` letters are their
ASCII codes.

### Keyboard

A scan code is one of the four keys that take part in control combinations, a
plain key, Ctrl itself or "nothing that types". `CtrlC` leaves `ctrl_pressed` either
way: when the interrupted process is killed, the handler never returns and the line
that clears the flag is not reached. `sys_read` is the whole read call, its loop over
`get_first_char` in closed form. `delivered` is what the last read gave its caller.

### MemoryManager

`blocks` is a function from the addresses of the headers (offsets from the start of
the heap) to size and mark; the last block has size 0. `owned` is what the callers
hold. Callers free once what they were given and write only into it; careless
callers exist (section 7) and are out of this module's scope, and so is the system call
that initialises the heap again (`syscall_handler.c:107`), which no program makes. Sizes are bytes and
`HEADER` is the real 16. `EndHasRoom` is the code's comparison with its pointer
arithmetic. Nothing is aligned except by `SIZE`, as in the code.

## 4. The runs

Passing runs check deadlock too, since these systems cannot stop; `shell_line` is the
exception, where the model ends with the shell's "overrun".

| Run | Checks | Instance |
|---|---|---|
| `scheduler` | type and ranges; `dim`; the owner of the CPU is READY; children that count can end; no lost wake-up; woken only by the last child; idle is the last resort; round robin; closed forms equal the loops | 4 slots, 2 child entries, 3 pids to issue; 307,866 states |
| `semaphore_careful` | types and limits; only a full queue turns sleepers away; implements `CountingSemaphore`; no post is lost; nobody starves | 5 slots, up to 4 sleepers, queue of 2; 32,190 states |
| `pipeline` | permits match the ring; sleeps only when full; semaphores accounted for; implements `ByteStream` | 4 slots, ring of 3, 2 pipes' slots, 5 pids, one refused buffer; 190,335 states |
| `tests` | `testsync` ends with 0; what the tests believe of their children is so; nothing is left behind | 6 slots, one pair, 2 increments each, 2 children in 2 rounds, two refusals; 995,100 states |
| `philosophers` | the count is the table; semaphores stay open; nobody divides by zero; the keeper gets back to the shell | 1 to 2 places, queue of 2, one refusal in a game; 1,395,642 states |
| `shell_line` | the screen shows the line; the pen is on the screen; the words are those typed, or too many; conversions | 8 by 10 pixels, 2 font sizes, buffer of 6, 6 keys, one drawing from prompt to prompt; 3,944,647 states |
| `keyboard` | implements `InputQueue`; a read takes what it gives | ring of 3, reads of 1 and 2; 322,166 states |
| `heap` | blocks tile; owners are apart and nothing leaks; exact accounting; the choice of a block is the loop's | 640 bytes, three request sizes; 41,653 states |
| `wait_queue` | implements `InputQueue` | ring of 3, three pids; 648 states |
| `tron` | no position leaves the board; the board shows this game's trails; every game ends | field of 5 by 2 cells; 23,977 states |
| `scheduler_starvation`, `philosophers_shared` | one statement each of the repository's own tests and comments, refuted | section 7 |

Why the bounds are enough to be interesting:

- *Scheduler.* With two processes beside shell and idle there are holes in the
  middle of the table and READY processes beyond `dim`; three pids for two slots
  mean that slots are reused; two child entries make siblings, a full child table,
  refused children, and chains (a child that is itself a parent) possible. Pids
  are never reused, so more pids give more of the same. Priority 32 has quantum 0,
  which makes every tick a switch; a changed priority has quantum 2, so running on
  is possible as well. `MAX_PRIORITY` is 1 in place of 5 to keep quanta small:
  `change_priority` clamps from both sides all the same.
- *Semaphores.* `SemSpec` itself, any use of any number of semaphores, has no run: its two
  invariants (`SemTypeOK`, `RunningIsReady`) are theorems, and TLC explores its actions in
  the runs `semaphore_careful`, `pipeline` and `tests`, each with the callers of its own.
  `FirstSemId` is 1 in place of 10 there, so the ids that `create_sem` uses as indices are
  inside a small array as they are inside the real one.
- *Careful semaphores.* Shell and three processes may all sleep: the queue order
  can differ from slots' and pids' orders, which is what starvation needs, and a third
  sleeper finds the two places taken, as an eleventh finds the kernel's ten.
- *Wait queue.* With three places the indices meet, part and go round in every relative
  position, and the array is freed and written to in each of them.
- *Tron.* A screen of 64 by 40 pixels, the smallest on which both players start on the
  field: a game lasts a few turns, and the marks that stay in the last column and row
  meet the next game. `WORD` is 16, so a position left of 0 would be 15, off the board.
- *Keyboard.* With three places both indices go round many times, in every
  relative position; reads of two straddle the wrap.
- *Heap.* Blocks of 18, 22 and 40 bytes. The last block moves only for the two
  small ones (their test for room passes for six and for three offsets), the size of
  40 is served only where blocks were merged; remainders of 4, 18 and 22 are on
  both sides of the smallest block that is split off.

- *Pipeline.* A ring of three wraps at every position; writes of four bytes into three
  places sleep in the middle of the call, at its first and at its last byte. Five
  pids make two pipelines and a half one after another: the second one finds the ring,
  the queue and the semaphores as the first left them, which is what its properties
  are about. The two slots for pipes are all the code can reach with one pipe at a time.
  Four places in the queue are more than there are sleepers.
- *Tests.* Eight pids: `testsync` with its pair, `testsc` with two rounds of two, or
  `testprio` with three, and what is left for a second program after it; two
  refusals at any creations.
- *Philosophers.* With one or two places a place joins and leaves again and again, in game
  after game, one of the additions may be refused, and Ctrl-C may come anywhere. The second
  philosopher is the neighbour of the first on both sides: what the properties are about
  (who is counted, which semaphores are open, what is divided by) does not depend on
  there being more, and the theorems say it of every number. The queue of two
  fills with three processes. The failing run has two to three places.
- *Shell line.* Letters of one by two pixels keep the ratio of the real ones (9 by 16)
  near enough: backspace erases more than one. Eight pixels wrap after the fifth letter
  at level 1 and the first at level 2; five lines scroll. The buffer of six overflows with
  the sixth key. Letters are a command letter, the blank, `&` and the key that gives 0.
  `MAX_PARAMETERS` is 2, so a second parameter is one too many and -1 happens within six
  keys; the outcome of a pipe, which takes two parameters, does not occur in the run (the
  theorems hold for every value). One drawing from each prompt to the next, `MaxDraws`,
  may be any of them at any moment of a line or of a program.

Each property of a passing run has a mutant in `PROJECT.json`: a definition
changed the way a plausible bug would change the code, which makes TLC report the
property violated. Mutated forms stand before the definition they mutate and are
marked `Mutant`.

## 5. Fairness

- `FairSpec` of `Scheduler` is `WF(TimerTick)`: the 8254 timer interrupts
  periodically and all code outside kernel entries runs with interrupts on. No call
  is assumed fair: a process may compute for ever. `RoundRobin` speaks of slots below
  `dim` while `dim` stands still, since that is what the scan can reach.
- `FairSpec` of `Philosophers` is weak fairness of the keeper *while it clears the table*:
  none of the calls of that loop sleeps. When `philo` is started by itself, its process has
  the first slot behind shell and idle, which is below `dim` as long as it lives, so
  `RoundRobin` covers it. Nothing is assumed of the philosophers, whose slots may lie where
  the scan does not reach, nor of what is typed.
- `Spec` of `Tron` has weak fairness of `Tick`, the timer again, and of `Turn`. The loop does
  not wait for keys: `sys_read` on an empty keyboard gives 0xFF (the signed comparison of
  section 7), `do_get_char` returns it, and the turn goes on with a key that moves
  nobody. So `GameEnds` needs no assumption about the players; it rests on the trails
  alone.
- `NobodyStarves` assumes no fairness of the specification; it says that *if*
  posts keep coming, nobody sleeps for ever. Posts come from programs, and no
  scheduling can force a program to make them.
- Safety runs assume nothing.

## 6. The proofs

All theorems hold for every value of the constants that the modules' named
assumptions allow (`SizesAssumption`, `TicksAssumption`, `SemaphoresAssumption`,
`KeyboardAssumption`, `MemoryAssumption`, `PhilosophersAssumption`, `PipesAssumption`,
`WaitQueueAssumption`, `TestsAssumption`, `TronAssumption`, `ConsoleAssumption`,
`ShellLineAssumption`), so in particular for the real sizes. `TicksAssumption` says that a bounded power of two is a natural
number: exponentiation by a variable is beyond the SMT backend, and TLC evaluates it on
every run. Those of
`PipelineProofs` assume `RoomForTwo` (`MAX_CHILDREN_PROCESSES >= 2`, which the kernel's 50
keeps): with less room the shell would not wait for both programs. Those of
`TestProgramsProofs` assume `RoomForTests`: the child table has more places than one test
takes (its own, one for each child) and than refused creations can leave taken
(`MAX_TEST_PROCESSES` each). The run's instance keeps it with its two refusals, and so do the
kernel's 50 places and the tests' own 20 children with one. With more refusals the kernel
does not promise it: a parent whose child is not in the table does not wait for it. Those about
`CarefulSpec` assume `OneSemaphore` (the callers use one id). No theorem assumes that the queue
has room for everybody, nor what the keys type.

| Module | Theorems | Argument |
|---|---|---|
| `KernelProofs` | `TypeCorrect`, `DimIsExact`, `PidsStayUnique`, `KernelProcessesAreSafe`, `CpuOwnerIsReady`, `ChildrenCanEnd`, `NoLostWakeup` | one inductive invariant `IInv`, below |
| | `LastChildWakes`, `IdleRunsLast` | what a step may not do, from `IInv` and `IdleOnlyHalts` |
| | `LoopsCompute` | every loop of the entries, written out with folds, leaves what the closed form says |
| | `CpuOwnerIsReadyWithSemaphores`, `NoLostWakeupWithSemaphores`, `SemTypeCorrect` | `IInv` again: a semaphore call changes at most one state, or puts the caller to sleep and switches |
| | `SleepersStayQueued`, `SemaphoreKeepsPromise`, `PostsReachSleepers` | `CarefulInv` over `IInv`: the queue holds sleepers only, each once, and whoever it does not hold was turned away; then refinement |
| `PipelineProofs` | `PermitsFollowRing`, `WritersSleepOnlyWhenFull`, `NoSemaphoreIsLost` | `PipeInv` over `IInv`: tables, roles, ring, permits, calls and queue are inductive together |
| | `PipeIsAStream` | refinement of `ByteStream`, from `PipeInv` and the lemmas on the ring |
| `TestProgramsProofs` | `TestsKnowTheirChildren`, `TestsLeaveNobody` | `TestInv` over `IInv`: roles, families, beliefs and the places of the child table are inductive together |
| | `TestsyncPrintsZero` | `SyncInv` over `TestInv`: one child at a time in `slowInc`, and what the children still owe cancels what the variable holds |
| `RingProofs` | `RingTypeCorrect`, `RingIndicesAgree`, `RingIsQueue`, `RingReads` | the keyboard's ring: `IInv` with the three ways the indices may stand; then refinement |
| | `QueueIsRing` | the ring of waiters: the indices differ by the length, modulo the size; then refinement |
| `MemoryManagerProofs` | `HeapTiles`, `HeapOwners`, `HeapDoesNotLeak`, `HeapOwnersMatchBlocks` | tiling and ownership are inductive together |
| | `HeapAccounting`, `HeapTypes` | the sum over the used blocks changes by one term at a time |
| | `FindWalks` | the walk from header to header meets the tiles in their order |
| `PhilosophersProofs` | `TableFollowsCount`, `SemaphoresStayOpen`, `NobodyDividesByZero` | `IInv`: types, the table, the semaphores and the count are inductive together |
| `ShellLineProofs` | `PenStaysOnScreen`, `ScreenAgreesWithBuffer` | `IInv`: where the pen stands follows from how many letters the line has |
| | `WordsAreTyped` | the line in its array, and both readings of it: by words and by the code's scans |
| `TronProofs` | `PositionsStayOnBoard`, `BoardShowsTrails` | `IInv`: while the game is on both players are on the field; marks and trails agree |

`PidsStayUnique`, `KernelProcessesAreSafe`, `RingTypeCorrect`, `RingIndicesAgree` and `HeapTypes`
state properties that no run checks: the proof covers what a run could
show. The two parts of `OwnersMatchBlocks` are theorems of their own.

*Scheduler.* None of the invariants is inductive by itself. That the owner of the
CPU is READY needs the idle process in slot 1, alive, whatever was destroyed (for the
fall-back) and `dim` positive and within the table (for the scan). No lost
wake-up needs more than its statement: a parent that does not sleep yet must also
have no entries, or one that counts, because `has_children` looks at entries of any
state when it decides whether to sleep. So `SoundChildren` says of every entry of a
parent other than the shell that some entry of that parent counts. It also needs
that parents' pids have been issued (below `pid_value`), so that a new process does
not inherit entries. The exceptions are the code's: section 7. The shell may sleep for
children it does not have, and a refused creation leaves an entry that no death ever
clears, so a parent with such an entry may sleep on; for everybody else an entry that
counts is a live child's (`ChildrenCanEnd`), and its death finds the entry. `IInv` has
three parts that speak of a table, a count, a child table and a next pid given as
arguments; so the lemmas (`SwitchSound`, `DestroySound`, `SpawnSound`, `AddChildSound`,
`WithStateSound`) cover the intermediate tables inside an entry, and each action's
proof chains them.

*Steps of the scheduler.* `IdleIsLastResort` needs that a READY slot below `dim` is met
by the scan (`ModReach`: every remainder is met within one turn). Both theorems need that
the idle process is not one that sleeps for children or has any, so that no step but
its own turn touches it: `IdleOnlyHalts`, inductive beside `IInv`. `WokenByLastChild` then
follows each death through the table that `set_dead_process` leaves.

*The loops of the scheduler.* `LoopsAgree` says of every reachable state that the loops of
`SchedulerReference` leave what the closed forms of `Scheduler` say. The loop over the
dead ends them one after another, and the child table changes under it. `OneMoreDies`
is one turn: what the loops over the table leave after `S` and then `i` is the closed form
of `S \cup {i}`. It needs that a child is named by one counting entry at most
(`NamedOnce`, inductive beside `IInv`), since `set_dead_process` stops at the first. That no
other set of dead was meant is a least counterexample over subsets of the table.

*Semaphores.* A wake-up may hit a wrong or dead process: `WakeKeepsIInv` shows that
making any pid READY is harmless to the tables, `SleepKeepsIInv` that the caller's
sleep is always followed by a switch to a READY process. Both hold for `SemSpec`,
the careless use, and for what a call outside the array can do, which is one of the two
or neither.

*The queue of careful callers.* That only a full queue turns anybody away is inductive only
with more: `CarefulInv` says that the queue lists sleepers only, each once (`Queues`), that it
is empty while the semaphore is closed and the value 0 while it is not, and that the
semaphore is found in slot 0 or nowhere. It also says that the child table is empty, so
that no death makes a sleeper READY, and that idle never sleeps. `OpeningIsOpen`,
`WaitingTakesOrSleeps`, `PostingWakesOrGives` and `ClosingIsClose` then map each call to its
step of `CountingSemaphore`, the sleep that finds no place included: the queue has as many
pids as the abstract semaphore has waiting. `CarefulStepIsQuiet` maps every step of the
scheduler to a stutter.

*The ring of waiters.* `QueueAgree` (the write index is the read index plus the length, or that
less the size) is inductive; `EnqueueAppends` and its like then show that each call is a
step of `InputQueue` on `OldestWaiters(length)`.

*Pipeline.* `PermitsMatchRing` speaks of two semaphores and a ring, but what breaks it is far
away: a wake-up that goes to the wrong process, a program of the last pipeline that is
still alive, a pid that Ctrl-C has killed and the queue still holds. So `PipeInv` says, over
`IInv`:
- of the tables (`Family`), that every program alive has an entry of the child table that
  counts. This is why a shell that is awake after its wait has no program left, and here
  the proof needs `RoomForTwo`;
- of the roles (`Roles`), that there is at most one writer and one reader, and that both
  know the pipe that is open;
- of the slots (`OnePipe`, `IdIsIndex`), that the pipe is in the first one and that its
  semaphores' ids are their indices, and how many semaphores are open;
- of the calls (`Calls`), that outside the CPU only a writer is in the middle of one, after
  its wait;
- of the one queue (`Queue`), that it holds at most one pid: the writer's, asleep before a full
  ring, or one that was killed there and is not a program any more;
- and `PermitsBalance`: permits, bytes and what the calls hold in their hands add up.
`KernelKeepsFamily`, `SpawnAddsProgram` and `WaitKeepsFamily` carry the first of these over the
steps of the scheduler. `PutAppends` and `GetTakesHead` are the ring's steps as steps
of a sequence; with `PipeInv` they make every step one of `ByteStream` or a stutter.

*Test programs.* What a test believes of a child is written down once and never looked up
again, so `BeliefsAreTrue` needs that nobody else touches the child. `TestInv` says, over
`IInv`:
- of the roles (`Roles`), that there is one test at a time, and that it and its workers are alive;
- of the child table (`Families`), that it knows the test and every worker of `testsync`, that
  nobody but the shell and the test has entries, and that no child is named twice;
- of the waits (`Returned`), that the shell, awake at its prompt, has no test left, and
  `testsync`, awake behind its wait, no worker. This is where a missing entry would show;
- of the places (`Room`), a count: failed creations, children of tests that are gone, and
  what the test itself has created. With `RoomForTests` the next entry always finds a place;
- of the beliefs (`Children`), that each child that counts as alive is in the table in just the
  state believed, computes for ever, is believed in once, and that the test is at the index
  its list says (`InStep`: in `testprio` the state of child `k` follows from the pass and from `i`);
  an entry of `testprio`'s list that is an error code is nobody, and no pass finds it;
- of a run without a refusal (`NobodyForgotten`), that everybody alive is a test, a worker or a
  child somebody knows;
- and of the semaphores (`OneSlot`), that the only one is in slot 0, open while a worker is
  past its opening, and that neither test nor shell stands in the queue: a `post` then makes
  nobody READY whom a test believes BLOCKED.
A death is seen by pids and not by slots (`SwitchView`, `StateView`, `SpawnView`, `DestroyView`,
`EntriesView`), so each action's proof speaks of who lives, in which state, and of whom the
table counts. Ctrl-C leaves the shell and the idle process only, and what was counted for the
dead is either freed or one more stray, which `Room` has counted before.

*Tron.* A position moves up to three times before `is_alive` looks at it. Two keys of one
player are never both sideways or both up or down, as the second is neither the
direction it then has nor the opposite (`AfterTwoKeys`), so two of the three moves at most
are along one axis, and a player who started inside stays within the array. For the marks,
`MarksInField` adds that what `NewGame` leaves lies in the last column or row.

*Keyboard.* `Agree`, a disjunction without modulo (count and indices in a straight
line, gone round, or full), is inductive and implies `IndicesAgree`. `StoreAppends`
and `ReadShifts` then show that a store appends to the abstract queue and a read
removes its front, so every step is a step of `InputQueue` or a stutter.

*Heap.* `BlocksTile` is preserved by cutting, marking and merging (`CutTiles`,
`MarkTiles`, `MergeTiles`) only because merged blocks are unmarked, the last one is
marked, and a cut leaves at least a header: `Minimum`, `TrueSizeFits`. Ownership
needs the tiling, since it is what makes the block behind a different one.
What `mem_info` counts is a sum and a cardinality over the blocks in use: a step adds or
removes one term (`TakenIsCounted`, `FreedIsCounted`), and the sum over a finite set is
what the recursive function computes because a smallest subset for which it is not
cannot exist; that the free bytes never go below zero is that no such sum exceeds the
heap (`SumBelow`). The loop of `find_free_block` is a recursive function too (`Walk`);
`WalkStepIs` unfolds it by one header, `StopsOn` says that the first header it would stop on
obeys the same equation, and as every header lies behind the one before it (`Behind`),
a last header on which they differ cannot exist (`WalkIs`).

*Shell line.* In a line that began at the left edge, does not wrap and is not disturbed, the pen is
behind `n` letters and nothing is drawn from there on (`PenBehind`); this is what makes the
square that backspace blackens harmless, although it is wider than a letter. While the
buffer has room, `n` is the prompt's two and the buffer's `i`, letter by letter
(`LettersShown`). What programs draw, in the foreground or the background, is `DrawsIInv`: it keeps
the pen above the lower edge, and the next prompt starts anew. The numbers are 16 bits wide in the code; `SixteenBits` and
`AdvanceDoes` show where they do not go round, from the sizes `ConsoleAssumption` allows.

*The words of a line.* The two sides of `ParsedIsTyped` read the same array in different
ways. `buffer_action` has left letters, then 0s (`LineIsTyped`, inductive). One reading goes
on letter by letter and opens a word at a letter behind a blank; the other counts the
starts (`Before`), takes the start of word `m` and scans to the blank or 0 behind it (`End`).
Both give, for a word that starts at `s`, the piece from `s` to `End(b, s)`: `ReadOn` for the
first, one letter at a time, `WordsAre` and `OtherWords` for the second. The -1 is a comparison
of the number of starts with `MAX_PARAMETERS`.

*Philosophers.* Nothing of what the semaphores were meant for is used: a wait may end because
somebody else's post came, so nobody can be kept out of anything. What is left is what the
keeper alone decides. `TableIsKept` is inductive with the keeper's place (`CountInv`), and the
semaphores with it, since only the keeper creates and closes them (`OpenInv`). That nobody
divides by zero needs an argument about time: the keeper starts the first philosopher while
the count is still 0, and what stops that one is MUTEX, which the keeper holds. It does stop
him, on the one queue too, because a wait ends early only by a post, and nobody who could post is
past MUTEX (`FirstComes`); afterwards, without refusals, the count stays at one or more
(`Grown`). With a refusal the keeper returns with MUTEX taken and waits for it himself, so
`DivisorIsPositive` excepts those games.

*The value testsync prints.* `SyncInv` has three parts. `Turns`: where each child is in its
loop, and that what it read of the shared variable (`aux`) is still what the variable holds
when it writes. `Exclusion`: at most one child is between its wait and its post and awake,
and while one is the semaphore's value is 0; a child that sleeps in its wait is not inside
until the post wakes it. `Account`: what the children still owe, all told, is minus what
the variable holds, less the rounds of the decrementer whose partner does not exist yet
(`Ahead`). When `testsync` has waited, no child is left (`TestInv`), nothing is owed, and the
variable is 0. If a creation was refused, the pair is incomplete and the account does not
balance; but the child table then names the error code as a child (`Short`), `testsync`
sleeps for ever, and nothing is printed. The sum over the children is not recursive:
`Total` says that there are partial sums, pid by pid, and `TotalMoves` that they move by what
one pid does.
`TestsAssumption` has at least one pair, since the model zeroes the variable with the first
creation; the code has two.

*Only model-checked.* Liveness (`RoundRobin`, `NobodyStarves`, `QuitReturns`, `GameEnds`),
which is outside TLAPS's reach, and the conversions (`ConversionsAgree`), which are
`RECURSIVE` operators compared over bounded inputs.

## 7. Where the code does something else than it says

Shown by a run:

| Run | The repository says | The code does |
|---|---|---|
| `scheduler_starvation` | created processes are run (`test_util.c:12`) | `next_process` scans modulo the number of live processes; after a death leaves a hole, a READY process in a slot at or beyond that number is never run (`scheduler.c:249`) |
| `philosophers_shared` | a post unblocks one of the processes that wait on that semaphore (`semaphore.h:91`) | all semaphores wait in one queue (`semaphore.c:74`): a philosopher who tells himself that he may eat posts `s[i]` and wakes the keeper, who sleeps in its wait on the mutex, and two are in the table at once |

Met while modelling, visible in the definitions, without a run of their own.
Kernel:

- *A parent is woken when its children are dead* (`child_processes.c:38`). Cleared entries
  name pid 0, the shell's, and `has_children` ignores their state, so the shell may go to
  sleep with no child alive: a foreground command that ends between the shell's create
  and its wait leaves it asleep. (`SleepersHaveChildren` excepts the shell.)
- `create_child_process` records the error code of a refused process as a child; a
  parent that then waits sleeps for ever, also when every child it really had has ended
  (`CreateChildFails`; `SleepersHaveChildren` excepts such a parent).
- The end of a last child makes its parent READY whatever it sleeps for, also if it
  was blocked by hand or sleeps on a semaphore (`Destroy`).
- `block_or_unblock`, `change_priority` and others go on with index 255 for a pid that
  does not exist. The model's callers name live processes.
- *A post unblocks a waiter* (`semaphore.h:91`). The pid of a killed waiter stays in the
  queue and takes the post; creating any semaphore empties the one queue; closing one
  frees its elements (`Enqueue`, `CreateSem`, `CloseSem`).
- The -1 of an unknown id is 255 in a `uint8_t` and no caller recognises it: every call goes
  on with `semaphores[255]`, behind the array (`WaitUnknown` and its like); at the limit
  `create_sem` does the same and the count passes the limit (`CreateOutside`).
- `open_sem` misses an open semaphore behind a freed slot and makes a second one of
  that id (`SeenByScan`). The eleventh waiter is put to sleep and not queued (`Enqueue`).
- *0xFF means that the buffer is empty* (`keyboard.c:80`). A signed `char` is compared with
  255: readers get 0xFF as characters.
- *NULL only when the last block is at the end* (`memory_manager.c:57`). The request is added
  to a header pointer, so 16 times too much room is asked for; a request of more than
  about 64 KB is refused in an empty heap of 1 MB (`EndHasRoom`).
- The iterator over the queue cannot work: `next` passes the number at its position where
  `has_next` expects the pointer to it (`queue.c:84`). Nothing that runs uses it, and it is not modelled.
- `create_queue` does not notice when the allocator has no room: the elements are then
  written from address 0 on. The model's allocations of a queue succeed.
- Pipes: `delete_pipe` answers `INVALID_PIPE_ID` when it succeeds; `pipes_count` is never
  decremented, so after 20 pipes in the machine's life there are no more
  (`FindPipeAvailable`); `find_pipe_avaiable` proposes a taken id when 10 and 11 are taken,
  and `create_pipe_available` tells its caller that the pipe is new; when the buffer is
  refused the two semaphores stay open (`CreatePipeFails`); both closes free the
  elements of the one queue.
- Console: backspace tests one position of the pen only (`naive_graphics_console.c:259`).
  Behind output that did not end its line the prompt can be erased, and at the left
  edge of a wrapped line the 16-bit pen goes round to 65,527 (`DeleteLastChar`).

Programs:

- `testsync` with more processes than the child table has free entries does not wait for
  all of them; after a Ctrl-C its semaphore stays open at 0 and the next `testsync`
  finds it so and hangs (`ChildOpens`, `CtrlC` of `TestPrograms`). Its children may also sit
  in slots the dispatcher does not reach, as in `scheduler_starvation`.
- `testsc` returns at the first refused creation and leaves its children behind, the
  blocked ones too (`NothingLeftBehind` is stated for runs without a refusal).
- `testprio` takes whatever its creations return for a pid (`test_util.c:109-111`); with an
  error code, `sys_nice` and `sys_block_or_unblock_process` write behind the process table and
  report success (`OnChild`).
- `add_philo` returns with the mutex taken when a philosopher cannot be created
  (`phylo.c:81`, `AddIsRefused`): the keeper's next request for it sleeps, and whoever is hungry
  later as well. It writes the name through a pointer nobody has set (`phylo.c:77`).
- On the one queue a philosopher's grant may wake somebody else, and he sleeps on: neither
  that neighbours eat apart nor that somebody eats is something the program can promise
  on this kernel. `remove_philo` closes `safe` before it kills, so the victim may call on a
  closed semaphore (`KeepsItsSemaphores` excepts that moment), and with fewer than
  `MIN_PHYLOS` philosophers, after refusals, it lowers the count further, down to a wait on
  `safe[-1]`.
- Shell: the loop over the parameters ends at a word that begins with 0, not at the end of
  the line, so letters typed and deleted again come back as parameters (`shell.c:251`); a
  line of five parameters or more gives -1, which is then used as a length (`shell.c:104`,
  `Handled`); a program in the background may clear the screen or change the size of the letters
  under the line that is typed (`shell.c:189`, `BackgroundDraws`);
  letters that the line buffer does not take are drawn all the same (`inout.c:56`).
- Tron: the board is cleared up to column `width - 1` and row `height - 1` and the field ends
  with `width` and `height`, so marks of an earlier game kill there (`MarksAreTrails`); the
  cells where the players start are not marked, nor those passed within a turn
  (`Driven`); column 1 and row 1 kill although no border is painted there (`InField`); the
  answer `d` is compared before it is set (`Turn`, `Ask`).
- Conversions: `%x` prints twelve digits, which `hex_str_to_int` refuses as too long
  (`HexIsReadable`); `put_base` takes an `int`, so the registers `inforeg` shows are cut to 32
  bits, and a negative one indexes before the digits (`inout.c:205`).
- `wc` and `filter` count and print what an uninitialised buffer holds when their input
  ends at once (`commands.c:380`).

## 8. What is not modelled

- Memory outside the kernel's arrays: what calls on semaphores write there (what they do to
  the tables is modelled), index 255 of the process table, the queue over the interrupt
  table before the first `create_queue`, a second free of the queue's elements, a queue that could
  not be allocated, the shell's "overrun" and the table of philosophers at place -1. The
  definitions name these cases and stop or exclude them by a guard where they occur.
- The system call that initialises the heap again (`syscall_handler.c:107-109`): no program
  makes it, and after it every holder's memory is given out a second time.
- `is_in_queue` and the iterator of `queue.c`: nothing that runs calls them.
- For the philosophers: what follows a division by zero, a kernel array of semaphores with no
  room left, and other programs that use semaphores at the same time.
- Stacks, parameters, registers, the PIC, the tick counter, speaker, clock,
  exceptions' output: no protocol, or pure input and output.
- The pixels of letters, colours, and drawing of rectangles, which may cover a line (the
  console's pen and line are modelled).
- The buddy allocator: it does not compile as it stands.
- `set_eof`, which nothing calls. So `eof` is 0 for ever, and a reader learns from an empty
  ring only that it got nothing.
- The window of the boot between `_sti` in `load_idt` and the first process: a tick in
  there works on a table without a process, and what it reads is not a state of the
  program's making.
- Who frees the parameters of a process (`scheduler.c:215`): the heap is modelled for
  callers that free once what they were given.
- `printf`, `cat`, `wc`, `filter`, `testmm` and the commands that only print: loops over one
  call each, whose protocol is the call's.
- Two games of Tron at once (each process has the same variables), its painting and its beep.
- Bootloader, BMFS, Pure64, ModulePacker and the font maker: vendored or host tools.

`PROJECT.json` lists every component with its status.

## 9. The plan

Done, in this order: `Scheduler` with its reference loops and proofs; `Semaphores`
over it with `CountingSemaphore` and proofs; `Keyboard` with `InputQueue` and
proofs; `MemoryManager` and proofs; `Pipes`, `Pipeline` and `ByteStream`; `TestPrograms`;
`Philosophers` and its proofs; `Console`, `ShellLine` and `StringUtil`;
`WokenByLastChild` and `IdleIsLastResort` as theorems; the refinement of
`CountingSemaphore` as a theorem; `WaitQueue` and `Tron` with their proofs; the four properties
of `Pipeline` as theorems; the screen, the words of a line, the loops of the scheduler, the
heap's accounting and its search as theorems; what the tests know of their children and that
they leave nobody behind as theorems; the value `testsync` prints as a theorem. Every safety
property and every action property that a passing run checks is now a theorem, but for the
conversions (`ConversionsAgree`).

The runs stay few: when a new one is worth more than one of these, the statement of
section 7 that it replaces stays in the table there.
