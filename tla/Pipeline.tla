------------------------------ MODULE Pipeline ------------------------------
(***************************************************************************)
(* The shell runs two programs joined by a pipe (piped_process_handle of   *)
(* the user land's shell.c) again and again; the line "second | first"     *)
(* asks for it.  It creates a pipe, a first program whose output it is, a  *)
(* second one whose input it is, waits for both and deletes the pipe.  Both *)
(* programs read and write as they like, compute, and end; Ctrl-C may come *)
(* at any time.  They use no semaphores of their own.                      *)
(***************************************************************************)
EXTENDS Pipes

CONSTANT MaxRefused  \* bound of the model: buffers the heap refuses

VARIABLES
  shell_at,  \* where in piped_process_handle the shell is
  pipe_id,   \* its local variable
  refused    \* how many buffers the heap has refused (history)

pipelineVars == <<allVars, pipeVars, shell_at, pipe_id, refused>>

PipelineInit ==
  /\ PipesInit
  /\ shell_at = "prompt"
  /\ pipe_id = 0
  /\ refused = 0

ShellRuns(here, next) ==
  /\ CurrentPid = ShellPid
  /\ shell_at = here
  /\ shell_at' = next

(* sys_create_pipe_available; the shell gives up when the answer is no id. *)
ShellCreatesPipe ==
  /\ FindPipeAvailable # MAX_PIPES_REACHED
  /\ ShellRuns("prompt", "first")
  /\ CreatePipe(FindPipeAvailable)
  /\ pipe_id' = FindPipeAvailable
  /\ UNCHANGED <<io, call, got, refused>>

ShellIsRefused ==
  /\ FindPipeAvailable # MAX_PIPES_REACHED
  /\ refused < MaxRefused
  /\ ShellRuns("prompt", "prompt")
  /\ CreatePipeFails
  /\ refused' = refused + 1
  /\ UNCHANGED <<io, call, got, pipe_id>>

(* sys_create_child_process, twice; the shell does not look at the result. *)
ShellCreatesChild(here, next, stdio) ==
  /\ ShellRuns(here, next)
  /\ \/ /\ \E priority \in Priorities : CreateChild(priority)
        /\ io' = [io EXCEPT ![pid_value] = stdio]
     \/ /\ CreateChildFails
        /\ UNCHANGED io
  /\ UNCHANGED <<semVars, pipes, pipes_count, call, got, pipe_id, refused>>

ShellCreatesFirst ==
  ShellCreatesChild("first", "second", [input |-> STDIN, output |-> pipe_id])
ShellCreatesSecond ==
  ShellCreatesChild("second", "wait", [input |-> pipe_id, output |-> STDOUT])

ShellWaits ==
  /\ ShellRuns("wait", "delete")
  /\ WaitForChildren
  /\ UNCHANGED <<semVars, pipeVars, pipe_id, refused>>

ShellDeletesPipe ==
  /\ ShellRuns("delete", "prompt")
  /\ \E pos \in FindPipe(pipe_id) : DeletePipe(pos)
  /\ UNCHANGED <<io, call, got, pipe_id, refused>>

Shell ==
  \/ ShellCreatesPipe \/ ShellIsRefused
  \/ ShellCreatesFirst \/ ShellCreatesSecond
  \/ ShellWaits \/ ShellDeletesPipe

(* The programs, the timer and Ctrl-C.  The calls of the dead are over.    *)
ProgramCalls ==
  /\ CurrentPid # ShellPid
  /\ PipeCall
  /\ UNCHANGED <<shell_at, pipe_id, refused>>

KernelStep ==
  /\ ~InCall(CurrentPid)
  /\ TimerTick \/ EndProcess \/ KillAllProcesses
  /\ call' = [pid \in Pids |-> IF pid \in LivePids(process_list') THEN call[pid]
                                                                   ELSE NoCall]
  /\ UNCHANGED <<semVars, pipes, pipes_count, io, got, shell_at, pipe_id, refused>>

PipelineNext == Shell \/ ProgramCalls \/ KernelStep

PipelineSpec == PipelineInit /\ [][PipelineNext]_pipelineVars

-----------------------------------------------------------------------------
IsAsleep(pid) == pid \in AsleepPids

(* Processes in a call of kind op on pipe i that hold a permit they have   *)
(* not used yet: they took one, or a post handed them one.                 *)
Holders(i, op) ==
  {pid \in Pids : /\ call[pid].op = op /\ call[pid].pos = i
                  /\ call[pid].waited /\ ~IsAsleep(pid)}

HasWriter(i) == \E pid \in LivePids(process_list) : io[pid].output = pipes[i].pipe_id

(* The two semaphores of a pipe say how full it is: the permits, those     *)
(* already handed to a process that has not run since included, are the    *)
(* bytes and, as long as the writer lives, the free places of the ring.    *)
(* (A writer that Ctrl-C kills asleep takes one free place with it, which  *)
(* nobody misses.)  (pipes.c:153-160, 174-180)                             *)
PermitsMatchRing ==
  \A i \in OpenPipes :
    LET used == pipes[i].current_pipe_size
        readable == semaphores[FindSem(pipes[i].read_sem_id)].sem_val
        writable == semaphores[FindSem(pipes[i].write_sem_id)].sem_val
    IN  /\ readable + Cardinality(Holders(i, "read")) = used
        /\ HasWriter(i) => writable + Cardinality(Holders(i, "write")) + used = PIPE_SIZE

(* A reader never sleeps in a pipe, and a writer sleeps only while the     *)
(* ring is full: no byte is missed and no free place is overlooked, however *)
(* calls and switches interleave (pipes.c:154, 174).                       *)
SleepsOnlyWhenFull ==
  \A pid \in AsleepPids :
    /\ call[pid].op = "write"
    /\ pipes[call[pid].pos].current_pipe_size = PIPE_SIZE

(* Whatever ended the pipelines so far, Ctrl-C and faults included: the    *)
(* semaphores that are open are those of the open pipe, and two for every  *)
(* buffer the heap refused (pipes.c:78-88, 121-132).                       *)
SemaphoresAccounted ==
  /\ current_sem_amount = 2 * (Cardinality(OpenPipes) + refused)
  /\ shell_at = "prompt" <=> OpenPipes = {}

(* The bytes of the pipe, oldest first.                                    *)
InPipe(i) ==
  [k \in 1 .. pipes[i].current_pipe_size |->
     pipes[i].pipe_buffer[(pipes[i].pipe_read_id + k - 1) % PIPE_SIZE]]

Stream == INSTANCE ByteStream WITH
  Capacity <- PIPE_SIZE,
  stream <- IF OpenPipes = {} THEN <<>> ELSE InPipe(Least(OpenPipes)),
  last <- got

(* From one pipeline to the next the pipe is a first-in first-out stream:  *)
(* what the second program reads is what the first one wrote, in order,    *)
(* each byte once, and nothing of an earlier pipeline (pipes.c:146-182).   *)
BytesInOrder == Stream!Spec
=============================================================================
