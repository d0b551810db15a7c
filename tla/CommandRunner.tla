------------------------------ MODULE CommandRunner ------------------------------
(***************************************************************************)
(* runCommand(): one build or test command, a shell and what it leaves in  *)
(* the background, from execFile() to the one result.  Four things race    *)
(* for it: the callback of execFile, which waits until the shell is gone   *)
(* and its pipes are closed; the exit event, which does not wait for the   *)
(* pipes; the timer; and the abort signal.                                 *)
(*                                                                         *)
(* killTree() differs: on Windows it walks the tree below a live shell; on *)
(* POSIX the group is not there (ESRCH), and only the shell is killed.     *)
(***************************************************************************)
CONSTANT Platforms   \* a subset of {"windows", "posix"}

VARIABLE cmd

\* No command is running.
Idle ==
  [platform |-> "posix",
   shell    |-> "none",    \* "alive", then "dead", then "gone": its exit event was seen
   exit     |-> "none",    \* how it died: "zero", "nonzero", "signal", or "killed" by Forge
   helper   |-> "none",    \* a background process: "holding" the pipes, or "detached" from them
   overflow |-> FALSE,     \* execFile has cut the output off
   timer    |-> TRUE,      \* it is still to fire
   ending   |-> "none",    \* an ending Forge imposed: "timeout", "cancelled"
   outcome  |-> "none"]    \* the result

Settled == cmd.outcome # "none"
Running == cmd.shell # "none" /\ ~Settled

\* killTree().
KillShellOnly(c) ==
  IF c.shell = "alive" THEN [c EXCEPT !.shell = "dead", !.exit = "killed"] ELSE c

KillTree(c) ==
  IF c.platform = "windows" /\ c.shell = "alive"
  THEN [c EXCEPT !.shell = "dead", !.exit = "killed", !.helper = "none"]
  ELSE KillShellOnly(c)

Imposed(c, ending) == KillTree([c EXCEPT !.ending = ending])

\* The shell starts, or is not there; a signal given before counts at once.
Run(aborted) ==
  /\ \E p \in Platforms, shell \in {"alive", "missing"} :
       LET c == [Idle EXCEPT !.platform = p, !.shell = shell]
       IN  cmd' = IF aborted THEN Imposed(c, "cancelled") ELSE c

-----------------------------------------------------------------------------
(* The processes.                                                          *)

Fork ==
  /\ cmd.shell = "alive" /\ cmd.helper = "none"
  /\ \E h \in {"holding", "detached"} : cmd' = [cmd EXCEPT !.helper = h]

HelperExits ==
  /\ cmd.helper # "none"
  /\ cmd' = [cmd EXCEPT !.helper = "none"]

ShellExits ==
  /\ cmd.shell = "alive"
  /\ \E how \in {"zero", "nonzero", "signal"} :
       cmd' = [cmd EXCEPT !.shell = "dead", !.exit = how]

\* More output than maxBuffer: execFile drops the pipes and kills the shell.
Overflow ==
  /\ Running /\ cmd.shell = "alive" /\ ~cmd.overflow
  /\ cmd' = KillShellOnly([cmd EXCEPT !.overflow = TRUE])

-----------------------------------------------------------------------------
(* Forge.                                                                  *)

TimerFires ==
  /\ Running /\ cmd.timer
  /\ cmd' = Imposed([cmd EXCEPT !.timer = FALSE], "timeout")

\* Of the timer and the signal, the later one names the ending.
AbortArrives ==
  /\ Running
  /\ cmd' = Imposed(cmd, "cancelled")

\* The exit event, which settles what Forge has ended itself.
ExitEvent ==
  /\ cmd.shell = "dead"
  /\ cmd' = [cmd EXCEPT !.shell = "gone",
                        !.outcome = IF Settled \/ cmd.ending = "none" THEN @ ELSE cmd.ending]

PipesClosed == cmd.helper # "holding" \/ cmd.overflow

\* The callback of execFile.
Callback ==
  /\ Running
  /\ cmd.shell = "missing" \/ (cmd.shell = "gone" /\ PipesClosed)
  /\ cmd' = [cmd EXCEPT !.outcome =
               IF cmd.ending # "none" THEN cmd.ending
               ELSE IF ~cmd.overflow /\ cmd.exit \in {"zero", "nonzero"} THEN "completed"
               ELSE "spawn-failed"]

-----------------------------------------------------------------------------
CommandStep ==
  \/ Fork \/ HelperExits \/ ShellExits \/ Overflow
  \/ TimerFires \/ ExitEvent \/ Callback

\* The operating system reports a death and runs the timer; a command is not
\* expected to end, what it leaves in the background is.
CommandFairness ==
  /\ WF_cmd(ExitEvent)
  /\ WF_cmd(Callback)
  /\ WF_cmd(TimerFires)
  /\ WF_cmd(HelperExits)

\* A result is given for a command that is over: the shell is dead, "completed"
\* means that nobody killed it, cut it off or gave up on it, and where Forge ended
\* it on Windows, what it had started is dead as well.
CommandIsOver ==
  Settled =>
    /\ cmd.shell # "alive"
    /\ cmd.outcome = "completed" => cmd.exit \in {"zero", "nonzero"} /\ cmd.ending = "none"
    /\ cmd.platform = "windows" /\ cmd.ending # "none" /\ cmd.exit = "killed" /\ ~cmd.overflow
         => cmd.helper = "none"
=============================================================================
