------------------------------- MODULE Pipes -------------------------------
(***************************************************************************)
(* The pipes of the kernel (Kernel/utils/pipes.c) and the part of sys_read *)
(* and sys_write that leads to them, over the semaphores and the process   *)
(* table.                                                                  *)
(*                                                                         *)
(* A read or write of a pipe is one system call with interrupts off, but   *)
(* it may sleep in the middle of its loop.  call holds what is left of the *)
(* call of each process; while the owner of the CPU is in a call nothing   *)
(* but that call goes on.  One turn of the loop is two steps: wait_sem,    *)
(* and what follows it.                                                    *)
(***************************************************************************)
EXTENDS Semaphores

CONSTANTS
  MAX_PIPES,  \* length of the array pipes                (20)
  PIPE_SIZE,  \* bytes in the ring of a pipe            (1024)
  Bytes,      \* what the programs write
  Counts,     \* the counts they pass to read and write
  Nothing     \* the content of a place of the ring nobody has written

ASSUME PipesAssumption ==
  /\ MAX_PIPES \in Nat \ {0}
  /\ PIPE_SIZE \in Nat \ {0}
  /\ Counts \subseteq Nat \ {0}
  /\ Nothing \notin Bytes
  /\ MaxPid >= idle_pid

VARIABLES
  pipes,        \* the array
  pipes_count,  \* how many pipes have ever been created
  io,           \* standard input and output of each process
  call,         \* what is left of the pipe call of each process
  got           \* the byte the last read took

pipeVars == <<pipes, pipes_count, io, call, got>>

STDIN == 0
STDOUT == 1
MAX_PIPES_REACHED == -2

PipeSlots == 0 .. MAX_PIPES - 1
Ring == 0 .. PIPE_SIZE - 1
Pids == 0 .. MaxPid

(* eof is left out: set_eof has no caller, so it is always 0.              *)
FreePipe == [pipe_id |-> 0, read_sem_id |-> 0, write_sem_id |-> 0,
             pipe_read_id |-> 0, pipe_write_id |-> 0,
             pipe_buffer |-> [i \in Ring |-> Nothing], current_pipe_size |-> 0]

OpenPipes == {i \in PipeSlots : pipes[i].pipe_id # 0}
FindPipe(id) == {i \in PipeSlots : pipes[i].pipe_id = id}

NoCall == [op |-> "none", pos |-> 0, left |-> 0, waited |-> FALSE]
InCall(pid) == call[pid].op # "none"
Here == call[CurrentPid]

PipesInit ==
  /\ SemInit
  /\ pipes = [i \in PipeSlots |-> FreePipe]
  /\ pipes_count = 0
  /\ io = [pid \in Pids |-> [input |-> STDIN, output |-> STDOUT]]
  /\ call = [pid \in Pids |-> NoCall]
  /\ got = Nothing

-----------------------------------------------------------------------------
(* find_pipe_avaiable: its one pass raises 10 to 11 at most, so with both  *)
(* taken it proposes a pipe that exists.                                   *)
FindPipeAvailable ==
  IF pipes_count >= MAX_PIPES THEN MAX_PIPES_REACHED
  ELSE IF FindPipe(10) # {} THEN 11 ELSE 10

(* The ids of two create_sem in a row; at the limit of semaphores they     *)
(* would be 255 (see FreeSemId of Semaphores): not modelled here.          *)
ReadSemId == FreeSemId
WriteSemId ==
  Least({id \in FirstSemId .. FirstSemId + MAX_SEM : id # ReadSemId /\ ~IsOpen(id)})

(* create_sem(0) and create_sem(PIPE_SIZE), the index being the id.         *)
CreateTwoSems ==
  /\ current_sem_amount + 2 <= MAX_SEM
  /\ {ReadSemId, WriteSemId} \subseteq SemSlots
  /\ semaphores' = [semaphores EXCEPT
        ![ReadSemId] = [sem_id |-> ReadSemId, sem_val |-> 0],
        ![WriteSemId] = [sem_id |-> WriteSemId, sem_val |-> PIPE_SIZE]]
  /\ waiters' = <<>>
  /\ buffer' = "live"
  /\ current_sem_amount' = current_sem_amount + 2

(* create_pipe, of an id that no pipe has, when the heap has a buffer.     *)
CreatePipe(id) ==
  /\ CreateTwoSems
  /\ pipes' = [pipes EXCEPT ![Least(FindPipe(0))] =
        [FreePipe EXCEPT !.pipe_id = id,
           !.read_sem_id = ReadSemId, !.write_sem_id = WriteSemId]]
  /\ pipes_count' = pipes_count + 1
  /\ UNCHANGED vars

(* The heap refuses the buffer: the two semaphores stay open.              *)
CreatePipeFails ==
  /\ CreateTwoSems
  /\ UNCHANGED <<vars, pipes, pipes_count>>

(* Mutant: one of the two semaphores is forgotten.                          *)
DeletePipe_OneSem(pos) ==
  /\ semaphores' = [semaphores EXCEPT ![FindSem(pipes[pos].read_sem_id)] = EmptySem]
  /\ current_sem_amount' = IF current_sem_amount < 1 THEN 0 ELSE current_sem_amount - 1
  /\ buffer' = "freed"
  /\ pipes' = [pipes EXCEPT ![pos] = FreePipe]
  /\ UNCHANGED <<vars, waiters, pipes_count>>

(* delete_pipe closes both semaphores; each close frees the elements of    *)
(* the one queue.  It answers INVALID_PIPE_ID, and pipes_count stays.      *)
DeletePipe(pos) ==
  /\ semaphores' = [semaphores EXCEPT ![FindSem(pipes[pos].read_sem_id)] = EmptySem,
                                      ![FindSem(pipes[pos].write_sem_id)] = EmptySem]
  /\ current_sem_amount' = IF current_sem_amount < 2 THEN 0 ELSE current_sem_amount - 2
  /\ buffer' = "freed"
  /\ pipes' = [pipes EXCEPT ![pos] = FreePipe]
  /\ UNCHANGED <<vars, waiters, pipes_count>>

-----------------------------------------------------------------------------
(* sys_write and sys_read look up the descriptor of the process itself,    *)
(* whatever the caller passed; a pipe that does not exist is an error.     *)
BeginCall(op, fd, count) ==
  /\ Calling /\ ~InCall(CurrentPid)
  /\ FindPipe(fd) # {} /\ fd # STDIN
  /\ call' = [call EXCEPT ![CurrentPid] =
        [op |-> op, pos |-> Least(FindPipe(fd)), left |-> count, waited |-> FALSE]]
  /\ UNCHANGED <<allVars, pipes, pipes_count, io, got>>

SysWrite(count) == BeginCall("write", io[CurrentPid].output, count)

(* read_pipe returns 0 at once when the ring is empty.                     *)
SysRead(count) ==
  /\ \E i \in FindPipe(io[CurrentPid].input) : pipes[i].current_pipe_size > 0
  /\ BeginCall("read", io[CurrentPid].input, count)

(* The wait at the head of a turn of either loop; the caller may go to     *)
(* sleep here and come back much later.                                    *)
WaitTurn ==
  /\ InCall(CurrentPid) /\ ~Here.waited
  /\ WaitSem(IF Here.op = "write" THEN pipes[Here.pos].write_sem_id
                                  ELSE pipes[Here.pos].read_sem_id)
  /\ call' = [call EXCEPT ![CurrentPid].waited = TRUE]
  /\ UNCHANGED <<pipes, pipes_count, io, got>>

(* The end of a turn: the loop goes on while the caller wants more bytes   *)
(* and, for a read, the ring has some.                                     *)
NextTurn(more) ==
  call' = [call EXCEPT ![CurrentPid] =
             IF Here.left > 1 /\ more
               THEN [Here EXCEPT !.left = @ - 1, !.waited = FALSE]
               ELSE NoCall]

(* Mutant: the write index never goes round.                                *)
StoreByte_NoWrap(b) ==
  /\ Here.op = "write" /\ Here.waited
  /\ pipes' = [pipes EXCEPT
        ![Here.pos].pipe_buffer[pipes[Here.pos].pipe_write_id] = b,
        ![Here.pos].pipe_write_id = (IF @ + 1 < PIPE_SIZE THEN @ + 1 ELSE @),
        ![Here.pos].current_pipe_size = @ + 1]
  /\ PostSem(pipes[Here.pos].read_sem_id)
  /\ NextTurn(TRUE)
  /\ UNCHANGED <<pipes_count, io, got>>

(* Mutant: a write gives its permit back to the writers.                    *)
StoreByte_PostsWriters(b) ==
  /\ Here.op = "write" /\ Here.waited
  /\ pipes' = [pipes EXCEPT
        ![Here.pos].pipe_buffer[pipes[Here.pos].pipe_write_id] = b,
        ![Here.pos].pipe_write_id = (@ + 1) % PIPE_SIZE,
        ![Here.pos].current_pipe_size = @ + 1]
  /\ PostSem(pipes[Here.pos].write_sem_id)
  /\ NextTurn(TRUE)
  /\ UNCHANGED <<pipes_count, io, got>>

(* write_pipe: the byte goes to the place the index shows, which is free   *)
(* only because of the permit.                                             *)
StoreByte(b) ==
  /\ Here.op = "write" /\ Here.waited
  /\ pipes' = [pipes EXCEPT
        ![Here.pos].pipe_buffer[pipes[Here.pos].pipe_write_id] = b,
        ![Here.pos].pipe_write_id = (@ + 1) % PIPE_SIZE,
        ![Here.pos].current_pipe_size = @ + 1]
  /\ PostSem(pipes[Here.pos].read_sem_id)
  /\ NextTurn(TRUE)
  /\ UNCHANGED <<pipes_count, io, got>>

(* Mutant: a read posts nothing when it empties the ring.                   *)
TakeByte_QuietWhenEmpty ==
  /\ Here.op = "read" /\ Here.waited
  /\ got' = pipes[Here.pos].pipe_buffer[pipes[Here.pos].pipe_read_id]
  /\ pipes' = [pipes EXCEPT
        ![Here.pos].pipe_read_id = (@ + 1) % PIPE_SIZE,
        ![Here.pos].current_pipe_size = @ - 1]
  /\ IF pipes[Here.pos].current_pipe_size = 1
       THEN UNCHANGED allVars
       ELSE PostSem(pipes[Here.pos].write_sem_id)
  /\ NextTurn(pipes[Here.pos].current_pipe_size > 1)
  /\ UNCHANGED <<pipes_count, io>>

(* read_pipe: the oldest byte.                                             *)
TakeByte ==
  /\ Here.op = "read" /\ Here.waited
  /\ got' = pipes[Here.pos].pipe_buffer[pipes[Here.pos].pipe_read_id]
  /\ pipes' = [pipes EXCEPT
        ![Here.pos].pipe_read_id = (@ + 1) % PIPE_SIZE,
        ![Here.pos].current_pipe_size = @ - 1]
  /\ PostSem(pipes[Here.pos].write_sem_id)
  /\ NextTurn(pipes[Here.pos].current_pipe_size > 1)
  /\ UNCHANGED <<pipes_count, io>>

PipeCall ==
  \/ \E count \in Counts : SysWrite(count) \/ SysRead(count)
  \/ WaitTurn
  \/ \E b \in Bytes : StoreByte(b)
  \/ TakeByte
=============================================================================
