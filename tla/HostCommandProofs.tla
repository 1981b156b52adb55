-------------------------- MODULE HostCommandProofs --------------------------
(***************************************************************************)
(* run_command for every bound, limit and host: what it returns as whole is *)
(* whole, and what survives it is an orphan.                                *)
(*                                                                         *)
(* UntruncatedIsWhole is only about the end.  Captures and Drained say why  *)
(* it holds on the way there: a pipe leaves the selector when it is empty   *)
(* and nobody can write to it any more, and this stays so.                  *)
(***************************************************************************)
EXTENDS HostCommand, FiniteSetTheorems, TLAPS

\* Nothing is captured that was not written, and no more than the bound.
Captures ==
  /\ \A p \in Pipes : cmd.got[p] <= child.wrote[p]
  /\ OutputBounded

Closed(p) == Pending(p) = 0 /\ ~WriterOpen(p)

\* What has left the selector without a truncation was read to its end.
Drained ==
  /\ cmd.pc = "reading" => ~cmd.truncated /\ \A p \in Pipes \ cmd.open : Closed(p)
  /\ cmd.pc = "waiting" /\ ~cmd.truncated => \A p \in Pipes : Closed(p)
  /\ cmd.pc = "returned" /\ cmd.error = "none" => ~child.running
  /\ UntruncatedIsWhole

\* How the group of a command that was not cut came to its end.
Exits ==
  /\ child.running => ~child.exited /\ child.heir = {}
  /\ child.heir # {} => child.exited
  /\ child.exited /\ child.script.code = 0 =>
       \A p \in Pipes : child.wrote[p] = Volume(child.script, p)
  /\ cmd.pc \in {"reading", "waiting"} /\ ~cmd.truncated /\ ~child.running => child.exited
  /\ cmd.pc = "returned" /\ cmd.error = "none" /\ ~cmd.truncated =>
       child.exited /\ (cmd.checked => child.script.code = 0)
  /\ SurvivorsAreOrphans

\* What is left of each stage's time keeps to the limit of the whole.
CommandTiming ==
  /\ cmd.pc \in {"reading", "waiting", "killing"} => now <= cmd.until
  /\ cmd.pc = "reading" => cmd.until + MinWait + KillWait <= cmd.limit
  /\ cmd.pc = "waiting" => cmd.until + KillWait <= cmd.limit
  /\ cmd.pc = "killing" => cmd.until <= cmd.limit

\* What no step of a command and its host changes.
CommandKeeps ==
  /\ cmd'.checked = cmd.checked /\ cmd'.limit = cmd.limit /\ child'.script = child.script
  /\ cmd.pc \in {"idle", "returned"} => cmd' = cmd
  /\ cmd.pc # "idle" => cmd'.pc # "idle"

CommandInv == CommandTypeOK /\ Captures /\ Drained /\ Exits

-----------------------------------------------------------------------------
\* The volume of a script is a number of units.
LEMMA VolumeType ==
  ASSUME NEW script \in Scripts, NEW p \in Pipes
  PROVE  Volume(script, p) \in Nat
<1>1. IsFiniteSet(script.rows) /\ script.noise \in Nat
  BY FS_Subset, CommandAssumption DEF Scripts
<1> QED
  BY <1>1, FS_CardinalityType DEF Volume

\* What one read takes: something when there is something, never more than was
\* pending, and what is kept of it never more than there is room for.
LEMMA ReadSizes ==
  ASSUME CommandTypeOK, Captures, NEW p \in Pipes
  PROVE  /\ Pending(p) \in Nat /\ Chunk(p) \in Nat /\ Captured(p) \in Nat
         /\ Captured(p) <= Pending(p)
         /\ cmd.size + Captured(p) <= MaxBytes
         /\ Chunk(p) = 0 => Pending(p) = 0
  BY CommandAssumption DEF CommandTypeOK, CommandRecords, ChildRecords, Captures, OutputBounded, Pending, Chunk, Captured, Earlier

\* The environment of a command keeps the invariant.
LEMMA ChildStep ==
  ASSUME CommandInv, (\E p \in Pipes : ChildWrites(p)) \/ ChildExits \/ HeirExits
  PROVE  CommandInv'
<1> USE DEF CommandInv
<1>1. ASSUME NEW p \in Pipes, ChildWrites(p) PROVE CommandInv'
  <2>0. child.running /\ cmd' = cmd /\ child' = [child EXCEPT !.wrote[p] = @ + 1]
    BY <1>1 DEF ChildWrites
  <2>1. CommandTypeOK'
    BY <2>0 DEF CommandTypeOK, CommandRecords, ChildRecords
  <2>2. Captures'
    BY <2>0 DEF Captures, OutputBounded, CommandTypeOK, CommandRecords, ChildRecords
  <2>3. Drained'
    BY <2>0 DEF Drained, Closed, UntruncatedIsWhole, WriterOpen, Pending, CommandTypeOK, CommandRecords, ChildRecords
  <2>4. Exits'
    BY <2>0 DEF Exits, SurvivorsAreOrphans, CommandTypeOK, CommandRecords, ChildRecords
  <2> QED
    BY <2>1, <2>2, <2>3, <2>4
<1>2. CASE ChildExits
  <2>1. CommandTypeOK'
    BY <1>2 DEF ChildExits, CommandTypeOK, CommandRecords, ChildRecords, Scripts, Pipes
  <2>2. Captures'
    BY <1>2 DEF ChildExits, Captures, OutputBounded
  <2>3. Drained'
    BY <1>2 DEF ChildExits, Drained, Closed, UntruncatedIsWhole, WriterOpen, Pending, CommandTypeOK, CommandRecords, ChildRecords
  <2>4. Exits'
    BY <1>2 DEF ChildExits, Exits, SurvivorsAreOrphans, CommandTypeOK, CommandRecords, ChildRecords, Drained, UntruncatedIsWhole
  <2> QED
    BY <2>1, <2>2, <2>3, <2>4
<1>3. CASE HeirExits
  <2>1. CommandTypeOK'
    BY <1>3 DEF HeirExits, CommandTypeOK, CommandRecords, ChildRecords
  <2>2. Captures'
    BY <1>3 DEF HeirExits, Captures, OutputBounded
  <2>3. Drained'
    BY <1>3 DEF HeirExits, Drained, Closed, UntruncatedIsWhole, WriterOpen, Pending, CommandTypeOK, CommandRecords, ChildRecords
  <2>4. Exits'
    BY <1>3 DEF HeirExits, Exits, SurvivorsAreOrphans, CommandTypeOK, CommandRecords, ChildRecords
  <2> QED
    BY <2>1, <2>2, <2>3, <2>4
<1> QED
  BY <1>1, <1>2, <1>3

\* A pipe is read, or is found to be at its end.
LEMMA ReadStep ==
  ASSUME CommandInv, now \in Nat,
         NEW p \in Pipes, Read(p) \/ Overflow(p) \/ EndOfFile(p)
  PROVE  CommandInv'
<1> USE DEF CommandInv
<1> DEFINE n == Captured(p)
<1>1. /\ Pending(p) \in Nat /\ Chunk(p) \in Nat /\ n \in Nat
      /\ n <= Pending(p) /\ cmd.size + n <= MaxBytes
      /\ Chunk(p) = 0 => Pending(p) = 0
  BY ReadSizes
<1> HIDE DEF n
<1> DEFINE got == [cmd.got EXCEPT ![p] = cmd.got[p] + n]
<1>a. got \in [Pipes -> Nat] /\ cmd.size + n \in Nat
  BY <1>1 DEF CommandTypeOK, CommandRecords, ChildRecords
<1>b. /\ \A q \in Pipes : got[q] <= child.wrote[q]
      /\ cmd.size + n = got["stdout"] + got["stderr"]
      /\ cmd.size + n <= MaxBytes
  BY <1>1 DEF CommandTypeOK, CommandRecords, ChildRecords, Captures, OutputBounded, Pending, Pipes
<1>c. \A q \in Pipes : got[q] # cmd.got[q] => q = p
  BY DEF CommandTypeOK, CommandRecords, ChildRecords
<1> HIDE DEF got
<1>2. CASE Read(p)
  <2>1. /\ cmd.pc = "reading" /\ p \in cmd.open /\ child' = child
        /\ cmd' = [cmd EXCEPT !.got = got, !.size = cmd.size + n]
    BY <1>2 DEF Read, Readable, n, got
  <2>2. CommandTypeOK'
    BY <2>1, <1>a DEF CommandTypeOK, CommandRecords, ChildRecords
  <2>3. Captures'
    BY <2>1, <1>b DEF CommandTypeOK, CommandRecords, ChildRecords, Captures, OutputBounded
  <2>4. Drained'
    BY <2>1, <1>c DEF CommandTypeOK, CommandRecords, ChildRecords, Drained, Closed, UntruncatedIsWhole, WriterOpen, Pending
  <2>5. Exits'
    BY <2>1 DEF CommandTypeOK, CommandRecords, ChildRecords, Exits, SurvivorsAreOrphans
  <2> QED
    BY <2>2, <2>3, <2>4, <2>5
<1>3. CASE Overflow(p)
  <2>1. /\ cmd.pc = "reading" /\ p \in cmd.open
        /\ child' = [child EXCEPT !.running = child.running /\ child.script.stuck, !.heir = {}]
    BY <1>3 DEF Overflow, Readable, Killed
  <2>2. PICK until \in Nat :
          cmd' = [cmd EXCEPT !.got = got, !.size = cmd.size + n, !.truncated = TRUE,
                             !.pc = "waiting", !.open = {}, !.until = until]
    <3>1. Later(now + MinWait, cmd.until) \in Nat
      BY CommandAssumption DEF Later, CommandTypeOK, CommandRecords, ChildRecords
    <3>2. cmd' = [cmd EXCEPT !.got = got, !.size = cmd.size + n, !.truncated = TRUE,
                             !.pc = "waiting", !.open = {},
                             !.until = Later(now + MinWait, cmd.until)]
      BY <1>3 DEF Overflow, Awaiting, n, got
    <3> QED
      BY <3>1, <3>2
  <2>3. CommandTypeOK'
    BY <2>1, <2>2, <1>a DEF CommandTypeOK, CommandRecords, ChildRecords
  <2>4. Captures'
    BY <2>1, <2>2, <1>b DEF CommandTypeOK, CommandRecords, ChildRecords, Captures, OutputBounded
  <2>5. Drained'
    BY <2>1, <2>2 DEF CommandTypeOK, CommandRecords, ChildRecords, Drained, UntruncatedIsWhole
  <2>6. Exits'
    BY <2>1, <2>2 DEF CommandTypeOK, CommandRecords, ChildRecords, Exits, SurvivorsAreOrphans
  <2> QED
    BY <2>3, <2>4, <2>5, <2>6
<1>4. CASE EndOfFile(p)
  <2>1. cmd.pc = "reading" /\ child' = child /\ Closed(p)
    BY <1>4, <1>1 DEF EndOfFile, Readable, Closed
  <2>2. \A q \in Pipes : cmd'.got = cmd.got => (Closed(q) => Closed(q)')
    BY <2>1 DEF Closed, WriterOpen, Pending
  <2>3. CASE cmd.open = {p}
    <3> DEFINE until == Later(now + MinWait, cmd.until)
               ended == [cmd EXCEPT !.pc = "waiting", !.open = {}, !.until = until]
    <3>1. until \in Nat
      BY CommandAssumption DEF Later, CommandTypeOK, CommandRecords
    <3>2. cmd' = ended
      BY <1>4, <2>3 DEF EndOfFile, Awaiting
    <3> HIDE DEF until
    <3>3. ended \in CommandRecords
      BY <3>1 DEF CommandTypeOK, CommandRecords
    <3>4. /\ ended.pc = "waiting" /\ ended.got = cmd.got /\ ended.size = cmd.size
          /\ ended.truncated = cmd.truncated
      BY DEF CommandTypeOK, CommandRecords
    <3> HIDE DEF ended
    <3>5. CommandTypeOK' /\ Captures'
      BY <2>1, <3>2, <3>3, <3>4 DEF CommandTypeOK, Captures, OutputBounded
    <3>6. Drained'
      BY <2>1, <2>2, <2>3, <3>2, <3>4 DEF Drained, UntruncatedIsWhole
    <3>7. Exits'
      BY <2>1, <3>2, <3>4 DEF Exits, SurvivorsAreOrphans
    <3> QED
      BY <3>5, <3>6, <3>7
  <2>4. CASE cmd.open # {p}
    <3> DEFINE further == [cmd EXCEPT !.open = cmd.open \ {p}]
    <3>1. cmd' = further
      BY <1>4, <2>4 DEF EndOfFile
    <3>2. further \in CommandRecords
      BY DEF CommandTypeOK, CommandRecords
    <3>3. /\ further.pc = "reading" /\ further.got = cmd.got /\ further.size = cmd.size
          /\ further.truncated = cmd.truncated /\ further.open = cmd.open \ {p}
      BY <2>1 DEF CommandTypeOK, CommandRecords
    <3> HIDE DEF further
    <3>4. CommandTypeOK' /\ Captures'
      BY <2>1, <3>1, <3>2, <3>3 DEF CommandTypeOK, Captures, OutputBounded
    <3>5. Drained'
      BY <2>1, <2>2, <3>1, <3>3 DEF Drained, UntruncatedIsWhole
    <3>6. Exits'
      BY <2>1, <3>1, <3>3 DEF Exits, SurvivorsAreOrphans
    <3> QED
      BY <3>4, <3>5, <3>6
  <2> QED
    BY <2>3, <2>4
<1> QED
  BY <1>2, <1>3, <1>4

\* The ways out of run_command.
LEMMA EndStep ==
  ASSUME CommandInv, now \in Nat,
         Expire \/ Reap \/ WaitExpires \/ KillReturns \/ KillExpires
  PROVE  CommandInv'
<1> USE DEF CommandInv
<1>0. ASSUME NEW error \in CommandErrors, cmd' = Returned(error), child' = child,
             cmd.pc # "returned",
             child.heir # {} => child.exited,
             child.running => error = "stuck",
             error = "none" /\ ~cmd.truncated =>
               /\ \A q \in Pipes : Pending(q) = 0
               /\ child.exited /\ (cmd.checked => child.script.code = 0)
      PROVE  CommandInv'
  <2>1. cmd' = [cmd EXCEPT !.pc = "returned", !.open = {}, !.error = error]
    BY <1>0 DEF Returned
  <2>2. CommandTypeOK'
    BY <1>0, <2>1 DEF CommandTypeOK, CommandRecords, ChildRecords
  <2>3. Captures'
    BY <1>0, <2>1 DEF Captures, OutputBounded, CommandTypeOK, CommandRecords, ChildRecords
  <2>4. \A q \in Pipes : Pending(q)' = Pending(q)
    BY <1>0, <2>1 DEF Pending, CommandTypeOK, CommandRecords, ChildRecords
  <2>5. Drained'
    BY <1>0, <2>1, <2>4 DEF Drained, UntruncatedIsWhole, CommandTypeOK, CommandRecords, ChildRecords
  <2>6. Exits'
    BY <1>0, <2>1 DEF Exits, SurvivorsAreOrphans, CommandTypeOK, CommandRecords, ChildRecords
  <2> QED
    BY <2>2, <2>3, <2>5, <2>6
<1>1. ASSUME cmd.pc \in {"reading", "waiting"}, Finish PROVE CommandInv'
  <2>1. CASE child.running
    <3>1. PICK until \in Nat :
            cmd' = [cmd EXCEPT !.pc = "killing", !.open = {}, !.until = until]
      <4>1. now + KillWait \in Nat
        BY CommandAssumption
      <4>2. cmd' = [cmd EXCEPT !.pc = "killing", !.open = {}, !.until = now + KillWait]
        BY <1>1, <2>1 DEF Finish
      <4> QED
        BY <4>1, <4>2
    <3>2. child' = [child EXCEPT !.running = child.running /\ child.script.stuck, !.heir = {}]
      BY <1>1, <2>1 DEF Finish, Killed
    <3>3. CommandTypeOK'
      BY <3>1, <3>2 DEF CommandTypeOK, CommandRecords, ChildRecords
    <3>4. Captures'
      BY <3>1, <3>2 DEF Captures, OutputBounded, CommandTypeOK, CommandRecords, ChildRecords
    <3>5. Drained'
      BY <3>1, <3>2 DEF Drained, UntruncatedIsWhole, CommandTypeOK, CommandRecords, ChildRecords
    <3>6. Exits'
      BY <3>1, <3>2 DEF Exits, SurvivorsAreOrphans, CommandTypeOK, CommandRecords, ChildRecords
    <3> QED
      BY <3>3, <3>4, <3>5, <3>6
  <2>2. CASE ~child.running
    <3>1. child' = child /\ cmd' = Returned("timeout")
      BY <1>1, <2>2 DEF Finish
    <3>2. child.heir # {} => child.exited
      BY <1>1, <2>2 DEF Drained, Exits
    <3> QED
      BY <1>0, <1>1, <2>2, <3>1, <3>2 DEF CommandErrors
  <2> QED
    BY <2>1, <2>2
<1>2. CASE Reap
  <2>1. PICK error \in {"failed", "none"} :
          /\ cmd' = Returned(error)
          /\ error = "none" /\ cmd.checked /\ ~cmd.truncated => child.script.code = 0
    BY <1>2 DEF Reap
  <2>2. cmd.pc = "waiting" /\ ~child.running /\ child' = child
    BY <1>2 DEF Reap
  <2>3. ~cmd.truncated => child.exited /\ \A q \in Pipes : Pending(q) = 0
    BY <2>2 DEF Drained, Exits, Closed
  <2> QED
    BY <1>0, <2>1, <2>2, <2>3 DEF CommandErrors, Exits
<1>3. CASE KillReturns \/ KillExpires
  <2>1. PICK error \in {"timeout", "stuck"} :
          cmd' = Returned(error) /\ (child.running => error = "stuck")
    BY <1>3 DEF KillReturns, KillExpires
  <2>2. cmd.pc = "killing" /\ child' = child
    BY <1>3 DEF KillReturns, KillExpires
  <2> QED
    BY <1>0, <2>1, <2>2 DEF CommandErrors, Exits
<1> QED
  BY <1>1, <1>2, <1>3 DEF Expire, WaitExpires

\* Every step of a command and of its host keeps the invariant.
LEMMA CommandStep ==
  ASSUME CommandInv, now \in Nat, CommandNext
  PROVE  CommandInv'
  BY ChildStep, ReadStep, EndStep DEF CommandNext

\* So does the start of the next command.
LEMMA CommandStarts ==
  ASSUME now \in Nat, NEW timeout \in Nat, NEW checked \in BOOLEAN,
         CommandStart(timeout, checked)
  PROVE  CommandInv'
<1>0. NoChild.script \in Scripts /\ Silent \in [Pipes -> Nat] /\ Silent["stdout"] = 0
      /\ Silent["stderr"] = 0
  BY CommandAssumption DEF NoChild, Scripts, Silent, Pipes
<1> DEFINE none == [rows |-> {}, noise |-> 0, code |-> 0, heir |-> {}, stuck |-> FALSE]
<1>1. ASSUME NEW until \in Nat, NEW limit \in Nat, NEW script \in Scripts,
             cmd' = [pc |-> "reading", checked |-> checked, until |-> until, limit |-> limit,
                     open |-> Pipes, size |-> 0, got |-> Silent, truncated |-> FALSE,
                     error |-> "none"],
             child' = [script |-> script, running |-> TRUE, exited |-> FALSE, heir |-> {},
                       wrote |-> Silent]
      PROVE  CommandInv'
  <2>1. CommandTypeOK'
    BY <1>0, <1>1 DEF CommandTypeOK, CommandRecords, ChildRecords, CommandErrors
  <2>2. Captures'
    BY <1>0, <1>1, CommandAssumption DEF Captures, OutputBounded, Pipes
  <2>3. Drained' /\ Exits'
    BY <1>1 DEF Drained, UntruncatedIsWhole, Exits, SurvivorsAreOrphans
  <2> QED
    BY <2>1, <2>2, <2>3 DEF CommandInv
<1>2. ASSUME cmd' = [pc |-> "returned", checked |-> TRUE, until |-> 0, limit |-> now,
                     open |-> {}, size |-> 0, got |-> Silent, truncated |-> FALSE,
                     error |-> "refused"],
             child' = NoChild
      PROVE  CommandInv'
  <2>1. child' = [script |-> none, running |-> FALSE, exited |-> FALSE, heir |-> {},
                  wrote |-> Silent] /\ none \in Scripts
    BY <1>0, <1>2 DEF NoChild
  <2>2. CommandTypeOK'
    BY <1>0, <1>2, <2>1 DEF CommandTypeOK, CommandRecords, ChildRecords, CommandErrors
  <2>3. Captures'
    BY <1>0, <1>2, <2>1, CommandAssumption DEF Captures, OutputBounded, Pipes
  <2>4. Drained' /\ Exits'
    BY <1>2, <2>1 DEF Drained, UntruncatedIsWhole, Exits, SurvivorsAreOrphans
  <2> QED
    BY <2>2, <2>3, <2>4 DEF CommandInv
<1>3. now + timeout \in Nat /\ now + timeout + MinWait + KillWait \in Nat
  BY CommandAssumption
<1>4. CASE cmd'.pc = "reading"
  <2>1. PICK script \in Scripts : child' = [NoChild EXCEPT !.script = script, !.running = TRUE]
    BY <1>4 DEF CommandStart, Idle
  <2>2. child' = [script |-> script, running |-> TRUE, exited |-> FALSE, heir |-> {},
                  wrote |-> Silent]
    BY <2>1, Zenon DEF NoChild
  <2>3. cmd' = [pc |-> "reading", checked |-> checked, until |-> now + timeout,
                limit |-> now + timeout + MinWait + KillWait,
                open |-> Pipes, size |-> 0, got |-> Silent, truncated |-> FALSE,
                error |-> "none"]
    BY <1>4 DEF CommandStart, Idle
  <2> QED
    BY <1>1, <1>3, <2>2, <2>3
<1>5. CASE cmd'.pc # "reading"
  BY <1>2, <1>5 DEF CommandStart, Idle
<1> QED
  BY <1>4, <1>5

\* Before any command nothing was captured, and nothing runs.
LEMMA CommandInitially ==
  ASSUME CommandInit
  PROVE  CommandInv
<1>1. /\ cmd = [pc |-> "idle", checked |-> TRUE, until |-> 0, limit |-> 0, open |-> {},
                size |-> 0, got |-> Silent, truncated |-> FALSE, error |-> "none"]
      /\ child = [script |-> NoChild.script, running |-> FALSE, exited |-> FALSE,
                  heir |-> {}, wrote |-> Silent]
  BY DEF CommandInit, Idle, NoChild
<1>2. NoChild.script \in Scripts /\ Silent \in [Pipes -> Nat]
  BY CommandAssumption DEF NoChild, Scripts, Silent, Pipes
<1>3. CommandTypeOK
  BY <1>1, <1>2 DEF CommandTypeOK, CommandRecords, ChildRecords, CommandErrors
<1>4. Captures
  BY <1>1, CommandAssumption DEF Captures, OutputBounded, Pipes, Silent
<1>5. Drained /\ Exits
  BY <1>1 DEF Drained, UntruncatedIsWhole, Exits, SurvivorsAreOrphans
<1> QED
  BY <1>3, <1>4, <1>5 DEF CommandInv

\* No stage of a command takes more than its share of the limit.
LEMMA CommandTimes ==
  ASSUME CommandTypeOK, CommandTiming, now \in Nat, now' = now, CommandNext
  PROVE  CommandTiming' /\ CommandKeeps
<1>0. /\ cmd.until \in Nat /\ cmd.limit \in Nat /\ MinWait \in Nat /\ KillWait \in Nat
      /\ child.script \in Scripts
  BY CommandAssumption DEF CommandTypeOK, CommandRecords, ChildRecords
<1>1. CASE (\E p \in Pipes : ChildWrites(p)) \/ ChildExits \/ HeirExits
  <2>1. cmd' = cmd /\ child'.script = child.script
    BY <1>1 DEF ChildWrites, ChildExits, HeirExits, CommandTypeOK, CommandRecords, ChildRecords
  <2> QED
    BY <2>1 DEF CommandTiming, CommandKeeps
<1>2. ASSUME NEW pc \in {"reading", "waiting", "killing", "returned"}, NEW until \in Nat,
             cmd.pc \in {"reading", "waiting", "killing"},
             cmd'.pc = pc, cmd'.until = until, cmd'.checked = cmd.checked,
             cmd'.limit = cmd.limit, child'.script = child.script,
             pc # "returned" => now <= until,
             pc = "reading" => until + MinWait + KillWait <= cmd.limit,
             pc = "waiting" => until + KillWait <= cmd.limit,
             pc = "killing" => until <= cmd.limit
      PROVE  CommandTiming' /\ CommandKeeps
  BY <1>2 DEF CommandTiming, CommandKeeps
<1>3. Killed.script = child.script
  BY DEF Killed, CommandTypeOK, CommandRecords, ChildRecords
<1>4. Later(now + MinWait, cmd.until) \in Nat
  BY <1>0 DEF Later
<1>5. cmd.pc = "reading" => /\ now <= Later(now + MinWait, cmd.until)
                            /\ Later(now + MinWait, cmd.until) + KillWait <= cmd.limit
  BY <1>0 DEF Later, CommandTiming
<1>6. ASSUME NEW p \in Pipes, Read(p) \/ Overflow(p) \/ EndOfFile(p)
      PROVE  CommandTiming' /\ CommandKeeps
  <2>0. cmd.pc = "reading" /\ child'.script = child.script
    BY <1>3, <1>6 DEF Read, Overflow, EndOfFile, Readable
  <2>1. CASE cmd'.pc = "reading" /\ cmd'.until = cmd.until /\ cmd'.checked = cmd.checked
             /\ cmd'.limit = cmd.limit
    BY <1>0, <1>2, <2>0, <2>1 DEF CommandTiming
  <2>2. CASE /\ cmd'.pc = "waiting" /\ cmd'.until = Later(now + MinWait, cmd.until)
             /\ cmd'.checked = cmd.checked /\ cmd'.limit = cmd.limit
    BY <1>2, <1>4, <1>5, <2>0, <2>2
  <2>3. CASE Read(p)
    BY <2>0, <2>1, <2>3 DEF Read, CommandTypeOK, CommandRecords, ChildRecords
  <2>4. CASE Overflow(p)
    BY <2>2, <2>4 DEF Overflow, Awaiting, CommandTypeOK, CommandRecords, ChildRecords
  <2>5. CASE EndOfFile(p)
    <3>1. CASE cmd.open = {p}
      <4>1. cmd' = [cmd EXCEPT !.pc = "waiting", !.open = {},
                               !.until = Later(now + MinWait, cmd.until)]
        BY <2>5, <3>1 DEF EndOfFile, Awaiting
      <4> QED
        BY <2>2, <4>1 DEF CommandTypeOK, CommandRecords
    <3>2. CASE cmd.open # {p}
      <4>1. cmd' = [cmd EXCEPT !.open = cmd.open \ {p}]
        BY <2>5, <3>2 DEF EndOfFile
      <4> QED
        BY <2>0, <2>1, <4>1 DEF CommandTypeOK, CommandRecords
    <3> QED
      BY <3>1, <3>2
  <2> QED
    BY <1>6, <2>3, <2>4, <2>5
<1>7. ASSUME cmd.pc \in {"reading", "waiting"}, now >= cmd.until, Finish
      PROVE  CommandTiming' /\ CommandKeeps
  <2>1. now = cmd.until /\ now + KillWait \in Nat /\ now + KillWait <= cmd.limit
    BY <1>0, <1>7 DEF CommandTiming
  <2>2. CASE child.running
    <3>1. /\ cmd'.pc = "killing" /\ cmd'.until = now + KillWait
          /\ cmd'.checked = cmd.checked /\ cmd'.limit = cmd.limit
          /\ child'.script = child.script
      BY <1>3, <1>7, <2>2 DEF Finish, CommandTypeOK, CommandRecords, ChildRecords
    <3> QED
      BY <1>0, <1>2, <1>7, <2>1, <3>1
  <2>3. CASE ~child.running
    <3>1. /\ cmd'.pc = "returned" /\ cmd'.until = cmd.until /\ cmd'.checked = cmd.checked
          /\ cmd'.limit = cmd.limit /\ child'.script = child.script
      <4>1. /\ cmd' = [cmd EXCEPT !.pc = "returned", !.open = {}, !.error = "timeout"]
            /\ child' = child
        BY <1>7, <2>3 DEF Finish, Returned
      <4> QED
        BY <4>1 DEF CommandTypeOK, CommandRecords
    <3> QED
      BY <1>0, <1>2, <1>7, <3>1
  <2> QED
    BY <2>2, <2>3
<1>8. CASE Reap \/ KillReturns \/ KillExpires
  <2>1. PICK error : cmd' = Returned(error)
    BY <1>8 DEF Reap, KillReturns, KillExpires
  <2>2. /\ cmd'.pc = "returned" /\ cmd'.until = cmd.until /\ cmd'.checked = cmd.checked
        /\ cmd'.limit = cmd.limit /\ child'.script = child.script
        /\ cmd.pc \in {"waiting", "killing"}
    BY <1>8, <2>1 DEF Reap, KillReturns, KillExpires, Returned, CommandTypeOK, CommandRecords, ChildRecords
  <2> QED
    BY <1>0, <1>2, <2>2
<1> QED
  BY <1>1, <1>6, <1>7, <1>8 DEF CommandNext, Expire, WaitExpires

\* The first stage of a command has what its timeout and the waits add up to.
LEMMA CommandStartTimes ==
  ASSUME now \in Nat, now' = now, NEW timeout \in Nat, NEW checked \in BOOLEAN,
         CommandStart(timeout, checked)
  PROVE  /\ CommandTiming'
         /\ \/ /\ cmd'.pc = "reading" /\ cmd'.checked = checked
               /\ cmd'.limit = now + timeout + MinWait + KillWait
            \/ cmd'.pc = "returned" /\ cmd'.error = "refused"
<1>1. MinWait \in Nat /\ KillWait \in Nat
  BY CommandAssumption
<1>2. \/ /\ cmd'.pc = "reading" /\ cmd'.checked = checked /\ cmd'.until = now + timeout
         /\ cmd'.limit = now + timeout + MinWait + KillWait
      \/ cmd'.pc = "returned" /\ cmd'.error = "refused"
  BY DEF CommandStart, Idle
<1> QED
  BY <1>1, <1>2 DEF CommandTiming

\* Time passes only up to the end of the stage that blocks.
LEMMA CommandTick ==
  ASSUME CommandTypeOK, CommandTiming, now \in Nat, now' = now + 1, UNCHANGED commandVars,
         CommandBlocks \/ cmd.pc \in {"idle", "returned"}
  PROVE  CommandTiming'
  BY DEF CommandTypeOK, CommandRecords, ChildRecords, CommandTiming, CommandBlocks, commandVars

\* The invariant is about the command alone.
LEMMA CommandRests ==
  ASSUME CommandInv, UNCHANGED commandVars
  PROVE  CommandInv'
<1>1. cmd' = cmd /\ child' = child
  BY DEF commandVars
<1>2. CommandTypeOK' /\ Captures'
  BY <1>1 DEF CommandInv, CommandTypeOK, CommandRecords, ChildRecords, Captures, OutputBounded
<1>3. Drained' /\ Exits'
  BY <1>1 DEF CommandInv, Drained, Closed, UntruncatedIsWhole, Pending, WriterOpen, Exits,
              SurvivorsAreOrphans
<1> QED
  BY <1>2, <1>3 DEF CommandInv
=============================================================================
