---------------------------- MODULE HostCommand ----------------------------
(***************************************************************************)
(* run_command: one host command, its two pipes read by a selector loop     *)
(* within a byte bound and a deadline, and its process group killed.        *)
(*                                                                         *)
(* Output is counted in units of half a row: a cut may fall inside a row.   *)
(* The command, its descendant that keeps a pipe open, and a process that   *)
(* the kernel does not let die (stuck) are the environment.                 *)
(***************************************************************************)
EXTENDS MonotonicClock, FiniteSets

CONSTANTS
  Containers,  \* names that the host may list, one row each
  MaxNoise,    \* most units that a command writes to stderr
  MaxBytes,    \* max_output_bytes
  ReadSize,    \* the 4096 of os.read
  MinWait,     \* least time process.wait is given (0.1 s)
  KillWait     \* time a killed process is given (2 s)

ASSUME CommandAssumption ==
  /\ IsFiniteSet(Containers)
  /\ MaxNoise \in Nat
  /\ MaxBytes \in Nat \ {0}
  /\ ReadSize \in Nat \ {0}
  /\ MinWait \in Nat
  /\ KillWait \in Nat

VARIABLES
  cmd,    \* the locals of run_command
  child   \* the process group and its pipes

commandVars == <<cmd, child>>

Pipes == {"stdout", "stderr"}
Silent == [p \in Pipes |-> 0]

\* What the environment decides about a command before it runs.
Scripts ==
  [rows : SUBSET Containers, noise : 0..MaxNoise, code : {0, 1},
   heir : {{}, {"stdout"}}, stuck : BOOLEAN]

Volume(script, p) ==
  IF p = "stdout" THEN 2 * Cardinality(script.rows) ELSE script.noise

Idle == [pc |-> "idle", checked |-> TRUE, until |-> 0, limit |-> 0,
         open |-> {}, size |-> 0, got |-> Silent, truncated |-> FALSE,
         error |-> "none"]
NoChild == [script |-> [rows |-> {}, noise |-> 0, code |-> 0, heir |-> {}, stuck |-> FALSE],
            running |-> FALSE, exited |-> FALSE, heir |-> {}, wrote |-> Silent]

CommandErrors == {"none", "refused", "timeout", "failed", "stuck"}

CommandRecords ==
  [pc : {"idle", "reading", "waiting", "killing", "returned"},
   checked : BOOLEAN, until : Nat, limit : Nat, open : SUBSET Pipes,
   size : Nat, got : [Pipes -> Nat], truncated : BOOLEAN, error : CommandErrors]
ChildRecords ==
  [script : Scripts, running : BOOLEAN, exited : BOOLEAN, heir : SUBSET Pipes,
   wrote : [Pipes -> Nat]]

CommandTypeOK == cmd \in CommandRecords /\ child \in ChildRecords

CommandInit == cmd = Idle /\ child = NoChild

-----------------------------------------------------------------------------
(* The process group. *)

WriterOpen(p) == child.running \/ p \in child.heir

ChildWrites(p) ==
  /\ child.running
  /\ child.wrote[p] < Volume(child.script, p)
  /\ child' = [child EXCEPT !.wrote[p] = @ + 1]
  /\ UNCHANGED cmd

\* With exit status 0 only after all of its output; a descendant may keep a
\* pipe, and remains in the group.
ChildExits ==
  /\ child.running /\ ~child.script.stuck
  /\ child.script.code = 0 =>
       \A p \in Pipes : child.wrote[p] = Volume(child.script, p)
  /\ child' = [child EXCEPT !.running = FALSE, !.exited = TRUE,
                            !.heir = child.script.heir]
  /\ UNCHANGED cmd

HeirExits ==
  /\ child.heir # {}
  /\ child' = [child EXCEPT !.heir = {}]
  /\ UNCHANGED cmd

\* Mutant of Killed: process.kill() reaches the leader only.
KilledAlone == [child EXCEPT !.running = child.running /\ child.script.stuck,
                             !.heir = IF child.running THEN child.script.heir ELSE @]

\* os.killpg
Killed == [child EXCEPT !.running = child.running /\ child.script.stuck, !.heir = {}]

-----------------------------------------------------------------------------
(* run_command. *)

CommandStart(timeout, checked) ==
  \/ /\ cmd' = [Idle EXCEPT !.pc = "reading", !.checked = checked, !.open = Pipes,
                            !.until = now + timeout,
                            !.limit = now + timeout + MinWait + KillWait]
     /\ \E script \in Scripts :
          child' = [NoChild EXCEPT !.script = script, !.running = TRUE]
  \/ \* the executable is not installed
     /\ cmd' = [Idle EXCEPT !.pc = "returned", !.error = "refused", !.limit = now]
     /\ child' = NoChild

Pending(p) == child.wrote[p] - cmd.got[p]

\* Mutant of Chunk: reads no more than there is room for.
ChunkThatFits(p) == Earlier(Pending(p), Earlier(ReadSize, MaxBytes - cmd.size))

\* One byte more than the room left tells a full buffer from a longer output.
Chunk(p) == Earlier(Pending(p), Earlier(ReadSize, MaxBytes - cmd.size + 1))

Captured(p) == Earlier(Chunk(p), MaxBytes - cmd.size)

\* After the loop: process.wait for the rest of the time, and a little.
Awaiting(c) ==
  [c EXCEPT !.pc = "waiting", !.open = {}, !.until = Later(now + MinWait, cmd.until)]

Readable(p) == cmd.pc = "reading" /\ now < cmd.until /\ p \in cmd.open

\* Mutant of Read: the timeout is one of the read, not of the command.
ReadRenewed(p) ==
  /\ Readable(p) /\ Chunk(p) > 0 /\ Chunk(p) = Captured(p)
  /\ cmd' = [cmd EXCEPT !.got[p] = @ + Captured(p), !.size = @ + Captured(p),
                        !.until = @ + 1]
  /\ UNCHANGED child

Read(p) ==
  /\ Readable(p) /\ Chunk(p) > 0 /\ Chunk(p) = Captured(p)
  /\ cmd' = [cmd EXCEPT !.got[p] = @ + Captured(p), !.size = @ + Captured(p)]
  /\ UNCHANGED child

Overflow(p) ==
  /\ Readable(p) /\ Chunk(p) > Captured(p)
  /\ cmd' = Awaiting([cmd EXCEPT !.got[p] = @ + Captured(p), !.size = @ + Captured(p),
                                 !.truncated = TRUE])
  /\ child' = Killed

EndOfFile(p) ==
  /\ Readable(p)
  /\ Chunk(p) = 0 /\ (Pending(p) > 0 \/ ~WriterOpen(p))
  /\ cmd' = IF cmd.open = {p} THEN Awaiting(cmd)
            ELSE [cmd EXCEPT !.open = @ \ {p}]
  /\ UNCHANGED child

Returned(error) == [cmd EXCEPT !.pc = "returned", !.open = {}, !.error = error]

\* finally: a leader that has exited by itself takes no group with it.
Finish ==
  IF child.running
  THEN /\ cmd' = [cmd EXCEPT !.pc = "killing", !.open = {}, !.until = now + KillWait]
       /\ child' = Killed
  ELSE cmd' = Returned("timeout") /\ UNCHANGED child

Expire ==
  /\ cmd.pc = "reading" /\ now >= cmd.until
  /\ Finish

\* The final status check is skipped for a truncated output.
Reap ==
  /\ cmd.pc = "waiting" /\ ~child.running
  /\ cmd' = Returned(IF cmd.checked /\ ~cmd.truncated /\ child.script.code # 0
                     THEN "failed" ELSE "none")
  /\ UNCHANGED child

WaitExpires ==
  /\ cmd.pc = "waiting" /\ child.running /\ now >= cmd.until
  /\ Finish

KillReturns ==
  /\ cmd.pc = "killing" /\ ~child.running
  /\ cmd' = Returned("timeout")
  /\ UNCHANGED child

KillExpires ==
  /\ cmd.pc = "killing" /\ child.running /\ now >= cmd.until
  /\ cmd' = Returned("stuck")
  /\ UNCHANGED child

CommandNext ==
  \/ \E p \in Pipes : ChildWrites(p) \/ Read(p) \/ Overflow(p) \/ EndOfFile(p)
  \/ ChildExits \/ HeirExits
  \/ Expire \/ Reap \/ WaitExpires \/ KillReturns \/ KillExpires

\* Whether the clock may pass: only a blocked call lets it, up to its timeout.
CommandBlocks ==
  \/ cmd.pc = "reading" /\ now < cmd.until
  \/ cmd.pc \in {"waiting", "killing"} /\ child.running /\ now < cmd.until

-----------------------------------------------------------------------------
(* Properties. *)

\* A command that is reported as not truncated and without an error has been
\* read to the last byte: the byte bound of run_command never cuts in silence.
UntruncatedIsWhole ==
  cmd.pc = "returned" /\ cmd.error = "none" /\ ~cmd.truncated =>
    \A p \in Pipes : Pending(p) = 0

\* The two pipes share one bound.
OutputBounded == cmd.size = cmd.got["stdout"] + cmd.got["stderr"] /\ cmd.size <= MaxBytes

\* However slowly or endlessly a command writes, and whether or not it dies,
\* run_command returns by its timeout and the two short waits after it.
CommandInTime == cmd.pc # "returned" => cmd.pc = "idle" \/ now <= cmd.limit

\* A process of the group that survives run_command is the descendant of a
\* leader that had exited by itself, or one that the kernel keeps.
SurvivorsAreOrphans ==
  cmd.pc = "returned" =>
    /\ child.heir # {} => child.exited
    /\ child.running => cmd.error = "stuck"
=============================================================================
