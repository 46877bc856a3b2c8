--------------------------- MODULE TerminalState ---------------------------
(***************************************************************************)
(* The terminal sessions of internal/terminalstate/state.go, driven by the *)
(* execute_* and read_terminalLastCommand handlers.                        *)
(*                                                                         *)
(* A caller is a tool handler running in its own goroutine.  One step of a *)
(* caller is what it does under one lock, or one call into the operating   *)
(* system: between two steps every other goroutine may run.  Each started  *)
(* session has a goroutine of its own, session.wait, and a process tree:   *)
(* the shell of exec.Command("sh", "-c", command), and possibly a          *)
(* descendant of it that keeps the output pipes open.                      *)
(*                                                                         *)
(* Output is a number of bytes; what is kept of it is OutputWindow's.      *)
(***************************************************************************)
EXTENDS Naturals, FiniteSets

CONSTANTS
  SessionIds,   \* ids newID can return, each at most once
  Callers,      \* handler goroutines running at the same time
  NoID,         \* the empty id: "" in lastID
  Descendants,  \* may a command leave a process behind that holds its pipes?
  StartFails,   \* may cmd.Start fail (no such cwd, no more processes)?
  WaitFails,    \* may Process.Wait fail with something that is no exit status?
  Ops,          \* bound: the calls clients make; "wait" is a start that waits,
                \* Store and Reset are the tests'
  MaxWritten,   \* bound: bytes a command writes
  StdinCap      \* lines the stdin pipe holds before a write to it blocks

ASSUME TerminalAssumption ==
  /\ NoID \notin SessionIds
  /\ {Descendants, StartFails, WaitFails} \subseteq BOOLEAN
  /\ Ops \subseteq {"start", "wait", "get", "send", "kill", "store", "reset"}
  /\ MaxWritten \in Nat
  /\ StdinCap \in Nat \ {0}

VARIABLES
  sessions,     \* keys of the registry map
  lastID,       \* id of the session registered last, or NoID
  manualLast,   \* is a synthetic snapshot recorded by Store present?
  running,      \* session.running
  exitCode,     \* session.exitCode, "none" while hasExitCode is false
  output,       \* bytes appended to session.output
  stdinOpen,    \* is the parent's end of the stdin pipe open?
  done,         \* is session.done closed?
  waiter,       \* where the session's wait goroutine is
  shell,        \* the shell process
  child,        \* does a descendant of the shell hold the pipes?
  status,       \* what Process.Wait will report
  written,      \* bytes the command wrote, and the text of a failed wait
  stdinBuf,     \* lines sent and not yet read by the command
  pc,           \* where each caller is
  arg,          \* the session the caller works on
  mode,         \* how a caller of Start waits: "async", "sync" or "timed"
  todo,         \* sessions Reset still has to stop
  reply         \* the caller's last reply

registry == <<sessions, lastID, manualLast>>
fields   == <<running, exitCode, output, stdinOpen, done>>
process  == <<shell, child, status, written, stdinBuf>>
locals   == <<arg, mode, todo>>
vars     == <<registry, fields, waiter, process, pc, locals, reply>>

Exits == {"zero", "nonzero", "signal", "waitError"}

(* exitErr.ExitCode() is -1 for a signal, as wait's own code for an error  *)
(* that is no exit status.                                                 *)
Code(e) == IF e \in {"signal", "waitError"} THEN "minusOne" ELSE e

(* A shell that can still run code; a command of which something still     *)
(* runs; a command that was started and of which nothing is left.          *)
ShellRuns(s) == shell[s] \in {"live", "dying"}
Alive(s)     == ShellRuns(s) \/ child[s]
Gone(s)      == shell[s] \in {"zombie", "reaped"} /\ ~child[s]

(* What a client can be answered.                                          *)
Replies == [status : {"none", "running", "completed", "error"},
            id : SessionIds \cup {NoID},
            exit : {"none", "zero", "nonzero", "minusOne"},
            out : Nat]

NoReply == [status |-> "none", id |-> NoID, exit |-> "none", out |-> 0]

(* What a handler formats from a snapshot of the session taken now: only   *)
(* the completed form has an exit code.                                    *)
Running(s)   == [status |-> "running", id |-> s, exit |-> "none", out |-> output[s]]
Completed(s) == [status |-> "completed", id |-> s, exit |-> exitCode[s], out |-> output[s]]

Failure(s) == [status |-> "error", id |-> s, exit |-> "none", out |-> 0]

Init ==
  /\ sessions = {}
  /\ lastID = NoID
  /\ manualLast = FALSE
  /\ running = [s \in SessionIds |-> FALSE]
  /\ exitCode = [s \in SessionIds |-> "none"]
  /\ output = [s \in SessionIds |-> 0]
  /\ stdinOpen = [s \in SessionIds |-> FALSE]
  /\ done = [s \in SessionIds |-> FALSE]
  /\ waiter = [s \in SessionIds |-> "none"]
  /\ shell = [s \in SessionIds |-> "free"]
  /\ child = [s \in SessionIds |-> FALSE]
  /\ status = [s \in SessionIds |-> "none"]
  /\ written = [s \in SessionIds |-> 0]
  /\ stdinBuf = [s \in SessionIds |-> 0]
  /\ pc = [c \in Callers |-> "idle"]
  /\ arg = [c \in Callers |-> NoID]
  /\ mode = [c \in Callers |-> "async"]
  /\ todo = [c \in Callers |-> {}]
  /\ reply = [c \in Callers |-> NoReply]

Goto(c, from, to) == pc[c] = from /\ pc' = [pc EXCEPT ![c] = to]

(* The caller returns r to its client.                                     *)
Return(c, from, r) ==
  /\ Goto(c, from, "idle")
  /\ reply' = [reply EXCEPT ![c] = r]

-----------------------------------------------------------------------------
(* StartWithOptions, called by execute_runInTerminal and                   *)
(* execute_createAndRunTask, and Wait, which they call when the run is not *)
(* asynchronous.                                                           *)

(* The session is made: its id, its stdin pipe, running set.               *)
CallStart(c, s, m) ==
  /\ (IF m = "async" THEN "start" ELSE "wait") \in Ops
  /\ Goto(c, "idle", "register")
  /\ shell[s] = "free"
  /\ shell' = [shell EXCEPT ![s] = "unborn"]
  /\ stdinOpen' = [stdinOpen EXCEPT ![s] = TRUE]
  /\ running' = [running EXCEPT ![s] = TRUE]
  /\ arg' = [arg EXCEPT ![c] = s]
  /\ mode' = [mode EXCEPT ![c] = m]
  /\ reply' = [reply EXCEPT ![c] = NoReply]
  /\ UNCHANGED <<registry, exitCode, output, done, waiter, child, status,
                 written, stdinBuf, todo>>

(* Under mu the session enters the registry, before its process exists.    *)
Register(c) ==
  /\ Goto(c, "register", "exec")
  /\ sessions' = sessions \cup {arg[c]}
  /\ lastID' = arg[c]
  /\ manualLast' = FALSE
  /\ UNCHANGED <<fields, waiter, process, locals, reply>>

(* cmd.Start succeeds and the wait goroutine is launched.                  *)
Exec(c) ==
  /\ Goto(c, "exec", IF mode[c] = "async" THEN "startSnap" ELSE "waitLookup")
  /\ shell' = [shell EXCEPT ![arg[c]] = "live"]
  /\ waiter' = [waiter EXCEPT ![arg[c]] = "process"]
  /\ UNCHANGED <<registry, fields, child, status, written, stdinBuf, locals, reply>>

(* cmd.Start fails, and closes the pipes it had opened.                    *)
ExecFails(c) ==
  /\ StartFails
  /\ Goto(c, "exec", "unregister")
  /\ shell' = [shell EXCEPT ![arg[c]] = "failed"]
  /\ stdinOpen' = [stdinOpen EXCEPT ![arg[c]] = FALSE]
  /\ UNCHANGED <<registry, running, exitCode, output, done, waiter, child,
                 status, written, stdinBuf, locals, reply>>

(* Mutants of Unregister: the session registered last is dropped instead   *)
(* of the caller's own; lastID is left dangling.                           *)
UnregisterLast(c) ==
  /\ Return(c, "unregister", Failure(arg[c]))
  /\ sessions' = sessions \ {lastID}
  /\ lastID' = IF lastID = arg[c] THEN NoID ELSE lastID
  /\ UNCHANGED <<manualLast, fields, waiter, process, locals>>

UnregisterKeepsLast(c) ==
  /\ Return(c, "unregister", Failure(arg[c]))
  /\ sessions' = sessions \ {arg[c]}
  /\ UNCHANGED <<lastID, manualLast, fields, waiter, process, locals>>

(* Under mu the failed session leaves the registry again.                  *)
Unregister(c) ==
  /\ Return(c, "unregister", Failure(arg[c]))
  /\ sessions' = sessions \ {arg[c]}
  /\ lastID' = IF lastID = arg[c] THEN NoID ELSE lastID
  /\ UNCHANGED <<manualLast, fields, waiter, process, locals>>

(* An asynchronous run answers "status: running" at once.                  *)
StartSnap(c) ==
  /\ Return(c, "startSnap", Running(arg[c]))
  /\ UNCHANGED <<registry, fields, waiter, process, locals>>

(* Wait looks the session up again by its id.                              *)
WaitLookup(c) ==
  /\ \/ Goto(c, "waitLookup", "wait") /\ arg[c] \in sessions /\ UNCHANGED reply
     \/ Return(c, "waitLookup", Failure(arg[c])) /\ arg[c] \notin sessions
  /\ UNCHANGED <<registry, fields, waiter, process, locals>>

(* Mutant of WaitDone: done is selected on only beside the timer.          *)
WaitDoneIfTimed(c) ==
  /\ Goto(c, "wait", "doneSnap")
  /\ done[arg[c]] /\ mode[c] = "timed"
  /\ UNCHANGED <<registry, fields, waiter, process, locals, reply>>

WaitDone(c) ==
  /\ Goto(c, "wait", "doneSnap")
  /\ done[arg[c]]
  /\ UNCHANGED <<registry, fields, waiter, process, locals, reply>>

WaitTimeout(c) ==
  /\ Goto(c, "wait", "timeoutSnap")
  /\ mode[c] = "timed"
  /\ UNCHANGED <<registry, fields, waiter, process, locals, reply>>

WaitSnap(c) ==
  /\ \/ Return(c, "doneSnap", Completed(arg[c]))
     \/ Return(c, "timeoutSnap", Running(arg[c]))
  /\ UNCHANGED <<registry, fields, waiter, process, locals>>

-----------------------------------------------------------------------------
(* Lookup is what GetOutput, Send and Kill begin with: getSession.         *)

Lookup(c, s, op, next) ==
  /\ op \in Ops
  /\ pc[c] = "idle"
  /\ arg' = [arg EXCEPT ![c] = s]
  /\ \/ /\ s \in sessions
        /\ pc' = [pc EXCEPT ![c] = next]
        /\ reply' = [reply EXCEPT ![c] = NoReply]
     \/ /\ s \notin sessions
        /\ reply' = [reply EXCEPT ![c] = Failure(s)]
        /\ UNCHANGED pc
  /\ UNCHANGED <<registry, fields, waiter, process, mode, todo>>

CallGet(c, s)  == Lookup(c, s, "get", "getSnap")
CallSend(c, s) == Lookup(c, s, "send", "sendCheck")
CallKill(c, s) == Lookup(c, s, "kill", "killCheck")

GetSnap(c) ==
  /\ Return(c, "getSnap",
            IF running[arg[c]] THEN Running(arg[c]) ELSE Completed(arg[c]))
  /\ UNCHANGED <<registry, fields, waiter, process, locals>>

-----------------------------------------------------------------------------
(* Send: running and stdin are read under the session's lock, the line is  *)
(* written after it is released.                                           *)

SendCheck(c) ==
  /\ \/ Goto(c, "sendCheck", "sendWrite") /\ running[arg[c]] /\ UNCHANGED reply
     \/ Return(c, "sendCheck", Failure(arg[c])) /\ ~running[arg[c]]
  /\ UNCHANGED <<registry, fields, waiter, process, locals>>

(* The parent holds the read end itself until the shell is started.        *)
Reader(s) == shell[s] = "unborn" \/ Alive(s)

(* Mutant of SendWrite: text and newline written apart, on room for one.   *)
SendWriteTwice(c) ==
  LET s == arg[c] IN
  /\ Goto(c, "sendWrite", "sendSnap")
  /\ stdinOpen[s] /\ Reader(s)
  /\ stdinBuf[s] < StdinCap
  /\ stdinBuf' = [stdinBuf EXCEPT ![s] = @ + 2]
  /\ UNCHANGED <<registry, fields, waiter, shell, child, status, written, locals, reply>>

(* The write blocks on a full pipe: it is then not enabled.                *)
SendWrite(c) ==
  LET s == arg[c] IN
  /\ Goto(c, "sendWrite", "sendSnap")
  /\ stdinOpen[s] /\ Reader(s)
  /\ stdinBuf[s] < StdinCap
  /\ stdinBuf' = [stdinBuf EXCEPT ![s] = @ + 1]
  /\ UNCHANGED <<registry, fields, waiter, shell, child, status, written, locals, reply>>

(* Mutant of SendFails: closing stdin does not wake a blocked write.       *)
SendFailsOnNoReader(c) ==
  /\ Return(c, "sendWrite", Failure(arg[c]))
  /\ ~Reader(arg[c])
  /\ UNCHANGED <<registry, fields, waiter, process, locals>>

SendFails(c) ==
  /\ Return(c, "sendWrite", Failure(arg[c]))
  /\ ~stdinOpen[arg[c]] \/ ~Reader(arg[c])
  /\ UNCHANGED <<registry, fields, waiter, process, locals>>

SendSnap(c) ==
  /\ Return(c, "sendSnap", Running(arg[c]))
  /\ UNCHANGED <<registry, fields, waiter, process, locals>>

-----------------------------------------------------------------------------
(* Kill: running is read under the lock; stdin is closed, done polled, the *)
(* shell signalled and done awaited for two seconds without it.  Its       *)
(* handler formats every successful answer as "status: running".           *)

KillCheck(c) ==
  /\ \/ Goto(c, "killCheck", "killStdin") /\ running[arg[c]] /\ UNCHANGED reply
     \/ Return(c, "killCheck", Running(arg[c])) /\ ~running[arg[c]]
  /\ UNCHANGED <<registry, fields, waiter, process, locals>>

KillStdin(c) ==
  /\ Goto(c, "killStdin", "killPoll")
  /\ stdinOpen' = [stdinOpen EXCEPT ![arg[c]] = FALSE]
  /\ UNCHANGED <<registry, running, exitCode, output, done, waiter, process, locals, reply>>

KillPoll(c) ==
  /\ Goto(c, "killPoll", IF done[arg[c]] THEN "killSnap" ELSE "killSignal")
  /\ UNCHANGED <<registry, fields, waiter, process, locals, reply>>

(* SIGKILL reaches the shell alone, not its descendants.                   *)
Signal(s) == shell' = IF shell[s] = "live" THEN [shell EXCEPT ![s] = "dying"] ELSE shell

KillSignal(c) ==
  /\ Goto(c, "killSignal", "killWait")
  /\ shell[arg[c]] \in {"live", "dying", "zombie"}
  /\ Signal(arg[c])
  /\ UNCHANGED <<registry, fields, waiter, child, status, written, stdinBuf, locals, reply>>

(* A shell already reaped gives os.ErrProcessDone; one not started yet has *)
(* no cmd.Process: the method call panics and the server recovers it.      *)
KillSignalFails(c) ==
  /\ Return(c, "killSignal", Failure(arg[c]))
  /\ shell[arg[c]] \in {"unborn", "failed", "reaped"}
  /\ UNCHANGED <<registry, fields, waiter, process, locals>>

(* Mutant of KillDone: done is not awaited after the signal.               *)
KillDoneAtOnce(c) ==
  /\ Goto(c, "killWait", "killSnap")
  /\ UNCHANGED <<registry, fields, waiter, process, locals, reply>>

KillDone(c) ==
  /\ Goto(c, "killWait", "killSnap")
  /\ done[arg[c]]
  /\ UNCHANGED <<registry, fields, waiter, process, locals, reply>>

(* Mutant of KillTimeout: no timer beside done.                            *)
KillTimeoutNever(c) ==
  /\ Return(c, "killWait", Failure(arg[c]))
  /\ done[arg[c]]
  /\ UNCHANGED <<registry, fields, waiter, process, locals>>

KillTimeout(c) ==
  /\ Return(c, "killWait", Failure(arg[c]))
  /\ UNCHANGED <<registry, fields, waiter, process, locals>>

KillSnap(c) ==
  /\ Return(c, "killSnap", Running(arg[c]))
  /\ UNCHANGED <<registry, fields, waiter, process, locals>>

-----------------------------------------------------------------------------
(* Store and Reset, called by tests only.  Reset empties the registry      *)
(* under mu and then stops the sessions it held one after the other.       *)
Store ==
  /\ "store" \in Ops
  /\ manualLast' = TRUE
  /\ lastID' = NoID
  /\ UNCHANGED <<sessions, fields, waiter, process, pc, locals, reply>>

CallReset(c) ==
  /\ "reset" \in Ops
  /\ Goto(c, "idle", "resetLoop")
  /\ todo' = [todo EXCEPT ![c] = sessions]
  /\ sessions' = {}
  /\ lastID' = NoID
  /\ manualLast' = FALSE
  /\ reply' = [reply EXCEPT ![c] = NoReply]
  /\ UNCHANGED <<fields, waiter, process, arg, mode>>

ResetOne(c, s) ==
  /\ pc[c] = "resetLoop"
  /\ s \in todo[c]
  /\ todo' = [todo EXCEPT ![c] = @ \ {s}]
  /\ stdinOpen' = [stdinOpen EXCEPT ![s] = FALSE]
  /\ IF running[s] THEN Signal(s) ELSE UNCHANGED shell
  /\ UNCHANGED <<registry, running, exitCode, output, done, waiter, child,
                 status, written, stdinBuf, pc, arg, mode, reply>>

ResetReturns(c) ==
  /\ todo[c] = {}
  /\ Goto(c, "resetLoop", "idle")
  /\ UNCHANGED <<registry, fields, waiter, process, locals, reply>>

-----------------------------------------------------------------------------
(* session.wait, the goroutine of a started session.                       *)

(* Process.Wait reaps the shell.                                           *)
WaitProcess(s) ==
  /\ waiter[s] = "process"
  /\ shell[s] = "zombie"
  /\ waiter' = [waiter EXCEPT ![s] = "copiers"]
  /\ shell' = [shell EXCEPT ![s] = "reaped"]
  /\ \/ UNCHANGED status
     \/ WaitFails /\ status' = [status EXCEPT ![s] = "waitError"]
  /\ UNCHANGED <<registry, fields, child, written, stdinBuf, pc, locals, reply>>

(* Mutant of WaitCopiers: the end of the shell is the end of the output.   *)
WaitCopiersNot(s) ==
  /\ waiter[s] = "copiers"
  /\ stdinOpen' = [stdinOpen EXCEPT ![s] = FALSE]
  /\ waiter' = [waiter EXCEPT ![s] = IF status[s] = "waitError" THEN "errText" ELSE "publish"]
  /\ UNCHANGED <<registry, running, exitCode, output, done, process, pc, locals, reply>>

(* cmd.Wait then waits for the goroutines that copy the output, which see  *)
(* the end of it when nothing holds the pipes, and closes the stdin pipe.  *)
WaitCopiers(s) ==
  /\ waiter[s] = "copiers"
  /\ ~Alive(s)
  /\ output[s] = written[s]
  /\ stdinOpen' = [stdinOpen EXCEPT ![s] = FALSE]
  /\ waiter' = [waiter EXCEPT ![s] = IF status[s] = "waitError" THEN "errText" ELSE "publish"]
  /\ UNCHANGED <<registry, running, exitCode, output, done, process, pc, locals, reply>>

(* The text of an error that is no exit status is appended to the output.  *)
WaitErrText(s) ==
  /\ waiter[s] = "errText"
  /\ waiter' = [waiter EXCEPT ![s] = "publish"]
  /\ output' = [output EXCEPT ![s] = @ + 1]
  /\ written' = [written EXCEPT ![s] = @ + 1]
  /\ UNCHANGED <<registry, running, exitCode, stdinOpen, done, shell, child,
                 status, stdinBuf, pc, locals, reply>>

(* Mutant of WaitPublish: running is cleared without the exit code.        *)
WaitPublishRunning(s) ==
  /\ waiter[s] = "publish"
  /\ waiter' = [waiter EXCEPT ![s] = "close"]
  /\ running' = [running EXCEPT ![s] = FALSE]
  /\ stdinOpen' = [stdinOpen EXCEPT ![s] = FALSE]
  /\ UNCHANGED <<registry, exitCode, output, done, process, pc, locals, reply>>

(* Under the session's lock: running, exitCode and stdin together.         *)
WaitPublish(s) ==
  /\ waiter[s] = "publish"
  /\ waiter' = [waiter EXCEPT ![s] = "close"]
  /\ running' = [running EXCEPT ![s] = FALSE]
  /\ exitCode' = [exitCode EXCEPT ![s] = Code(status[s])]
  /\ stdinOpen' = [stdinOpen EXCEPT ![s] = FALSE]
  /\ UNCHANGED <<registry, output, done, process, pc, locals, reply>>

(* Mutants of WaitClose: done is closed before the exit is published, or   *)
(* never.                                                                  *)
WaitCloseFirst(s) ==
  /\ waiter[s] \in {"publish", "close"}
  /\ waiter' = [waiter EXCEPT ![s] = "finished"]
  /\ done' = [done EXCEPT ![s] = TRUE]
  /\ UNCHANGED <<registry, running, exitCode, output, stdinOpen, process, pc, locals, reply>>

WaitCloseNever(s) ==
  /\ waiter[s] = "close"
  /\ waiter' = [waiter EXCEPT ![s] = "finished"]
  /\ UNCHANGED <<registry, fields, process, pc, locals, reply>>

WaitClose(s) ==
  /\ waiter[s] = "close"
  /\ waiter' = [waiter EXCEPT ![s] = "finished"]
  /\ done' = [done EXCEPT ![s] = TRUE]
  /\ UNCHANGED <<registry, running, exitCode, output, stdinOpen, process, pc, locals, reply>>

(* A copying goroutine hands the bytes it has read to sessionOutputWriter, *)
(* which appends them under the session's lock.                            *)
Copy(s, n) ==
  /\ n > 0
  /\ output[s] + n <= written[s]
  /\ output' = [output EXCEPT ![s] = @ + n]
  /\ UNCHANGED <<registry, running, exitCode, stdinOpen, done, waiter, process, pc, locals, reply>>

-----------------------------------------------------------------------------
(* The command itself: outside the program, it may do these at any time.   *)

Write(s) ==
  /\ Alive(s)
  /\ written[s] < MaxWritten
  /\ written' = [written EXCEPT ![s] = @ + 1]
  /\ UNCHANGED <<registry, fields, waiter, shell, child, status, stdinBuf, pc, locals, reply>>

ReadStdin(s) ==
  /\ Alive(s)
  /\ stdinBuf[s] > 0
  /\ stdinBuf' = [stdinBuf EXCEPT ![s] = @ - 1]
  /\ UNCHANGED <<registry, fields, waiter, shell, child, status, written, pc, locals, reply>>

Fork(s) ==
  /\ Descendants
  /\ ShellRuns(s) /\ ~child[s]
  /\ child' = [child EXCEPT ![s] = TRUE]
  /\ UNCHANGED <<registry, fields, waiter, shell, status, written, stdinBuf, pc, locals, reply>>

ChildExit(s) ==
  /\ child[s]
  /\ child' = [child EXCEPT ![s] = FALSE]
  /\ UNCHANGED <<registry, fields, waiter, shell, status, written, stdinBuf, pc, locals, reply>>

ShellExit(s) ==
  /\ shell[s] = "live"
  /\ shell' = [shell EXCEPT ![s] = "zombie"]
  /\ \E e \in {"zero", "nonzero"} : status' = [status EXCEPT ![s] = e]
  /\ UNCHANGED <<registry, fields, waiter, child, written, stdinBuf, pc, locals, reply>>

ShellDies(s) ==
  /\ shell[s] = "dying"
  /\ shell' = [shell EXCEPT ![s] = "zombie"]
  /\ status' = [status EXCEPT ![s] = "signal"]
  /\ UNCHANGED <<registry, fields, waiter, child, written, stdinBuf, pc, locals, reply>>

-----------------------------------------------------------------------------
Call(c) ==
  \/ \E s \in SessionIds :
        \/ \E m \in {"async", "sync", "timed"} : CallStart(c, s, m)
        \/ CallGet(c, s)
        \/ CallSend(c, s)
        \/ CallKill(c, s)
  \/ CallReset(c)

(* The steps of a call under way that do not wait for a clock.             *)
Handle(c) ==
  \/ Register(c) \/ Exec(c) \/ ExecFails(c) \/ Unregister(c) \/ StartSnap(c)
  \/ WaitLookup(c) \/ WaitDone(c) \/ WaitSnap(c)
  \/ GetSnap(c)
  \/ SendCheck(c) \/ SendWrite(c) \/ SendFails(c) \/ SendSnap(c)
  \/ KillCheck(c) \/ KillStdin(c) \/ KillPoll(c) \/ KillSignal(c)
  \/ KillSignalFails(c) \/ KillDone(c) \/ KillSnap(c)
  \/ (\E s \in SessionIds : ResetOne(c, s)) \/ ResetReturns(c)

Timeout(c) == WaitTimeout(c) \/ KillTimeout(c)

Wait(s) ==
  \/ WaitProcess(s) \/ WaitCopiers(s) \/ WaitErrText(s)
  \/ WaitPublish(s) \/ WaitClose(s)

Copying(s) == \E n \in 1..MaxWritten : Copy(s, n)

Command(s) ==
  \/ Write(s) \/ ReadStdin(s) \/ Fork(s) \/ ChildExit(s)
  \/ ShellExit(s) \/ ShellDies(s)

Next ==
  \/ \E c \in Callers : Call(c) \/ Handle(c) \/ Timeout(c)
  \/ Store
  \/ \E s \in SessionIds : Wait(s) \/ Copying(s) \/ Command(s)

(* The Go scheduler runs every goroutine that can run, timers fire, and a  *)
(* process that was sent SIGKILL dies.  Nothing makes a command write,     *)
(* read or exit, and nothing makes a client call.                          *)
Fairness ==
  /\ \A c \in Callers : WF_vars(Handle(c)) /\ WF_vars(Timeout(c))
  /\ \A s \in SessionIds : WF_vars(Wait(s)) /\ WF_vars(Copying(s)) /\ WF_vars(ShellDies(s))

Spec == Init /\ [][Next]_vars

FairSpec == Spec /\ Fairness

-----------------------------------------------------------------------------
(* Properties.                                                             *)

(* What the sessions' fields may hold; no output is counted twice, and a   *)
(* full stdin pipe takes no further line.                                  *)
TypeOK ==
  /\ sessions \subseteq SessionIds
  /\ lastID \in SessionIds \cup {NoID}
  /\ manualLast \in BOOLEAN
  /\ running \in [SessionIds -> BOOLEAN]
  /\ exitCode \in [SessionIds -> {"none", "zero", "nonzero", "minusOne"}]
  /\ output \in [SessionIds -> Nat]
  /\ stdinOpen \in [SessionIds -> BOOLEAN]
  /\ done \in [SessionIds -> BOOLEAN]
  /\ waiter \in [SessionIds -> {"none", "process", "copiers", "errText",
                                "publish", "close", "finished"}]
  /\ shell \in [SessionIds -> {"free", "unborn", "failed", "live", "dying",
                               "zombie", "reaped"}]
  /\ child \in [SessionIds -> BOOLEAN]
  /\ status \in [SessionIds -> Exits \cup {"none"}]
  /\ written \in [SessionIds -> Nat]
  /\ stdinBuf \in [SessionIds -> 0..StdinCap]
  /\ pc \in [Callers -> {"idle", "register", "exec", "unregister", "startSnap",
                         "waitLookup", "wait", "doneSnap", "timeoutSnap", "getSnap",
                         "sendCheck", "sendWrite", "sendSnap", "killCheck",
                         "killStdin", "killPoll", "killSignal", "killWait",
                         "killSnap", "resetLoop"}]
  /\ arg \in [Callers -> SessionIds \cup {NoID}]
  /\ mode \in [Callers -> {"async", "sync", "timed"}]
  /\ todo \in [Callers -> SUBSET SessionIds]
  /\ reply \in [Callers -> Replies]

(* However starts and the clean-ups of failed starts overlap, lastID names *)
(* a session that is registered: LastSnapshot, which reads it under mu,    *)
(* never reads the id of a start that was cleaned up.  (The session may be *)
(* gone when LastSnapshot looks again, at state.go:253.)  And a synthetic  *)
(* snapshot stands only while lastID names no session: it is Store that    *)
(* clears lastID, and hides what runs; a later start takes its place.      *)
RegistryConsistent ==
  /\ lastID \in sessions \cup {NoID}
  /\ manualLast => lastID = NoID

(* A command that may still run is one that GetOutput, Send and Kill can   *)
(* find: the registration before cmd.Start and the clean-up after a failed *)
(* one never lose a process.  Only Reset gives sessions up.                *)
LiveTracked ==
  \A s \in SessionIds : waiter[s] # "none" => s \in sessions

(* Once wait has published the exit, the session is over in every respect: *)
(* no process of the command holds its pipes, every byte it wrote was      *)
(* appended before the exit code could be seen, its shell was reaped, and  *)
(* its stdin is closed.  done is closed only after that.                   *)
CompletedIsFinal ==
  \A s \in SessionIds :
    /\ done[s] => exitCode[s] # "none"
    /\ exitCode[s] # "none" =>
         /\ ~running[s] /\ ~stdinOpen[s]
         /\ Gone(s) /\ shell[s] = "reaped"
         /\ output[s] = written[s]

(* A "completed" answer, of a wait or of a later look, carries the exit    *)
(* code and all of the output: no client is told of an end too early, nor  *)
(* of two different ends.                                                  *)
CompletedReplyFinal ==
  \A c \in Callers : reply[c].status = "completed" =>
    /\ reply[c].exit # "none"
    /\ reply[c].exit = exitCode[reply[c].id]
    /\ reply[c].out = written[reply[c].id]

(* Kill succeeds only for a session that is over.                          *)
KillSucceedsWhenOver ==
  \A c \in Callers : pc[c] = "killSnap" => exitCode[arg[c]] # "none"

(* The exit, once published, and the output with it, never change again.   *)
ExitIsStable ==
  [][\A s \in SessionIds : exitCode[s] # "none" =>
        exitCode'[s] = exitCode[s] /\ output'[s] = output[s] /\ ~running'[s]]_vars

(* An exit that nobody waits for is still noticed: when nothing of a       *)
(* started command is left, wait ends and closes done.                     *)
ExitIsNoticed ==
  \A s \in SessionIds : (waiter[s] # "none" /\ Gone(s)) ~> done[s]

(* A kill and a run with a timeout always return, whatever the command     *)
(* does: neither waits for it without a clock.                             *)
TimedCallsReturn ==
  \A c \in Callers :
    \/ pc[c] \in {"killCheck", "killStdin", "killPoll", "killSignal", "killWait", "killSnap"}
    \/ mode[c] = "timed" /\ pc[c] \in {"register", "exec", "waitLookup", "wait"}
    ~> pc[c] = "idle"

(* Whoever waits for a session without a timeout is woken by its end.      *)
WaiterWakes ==
  \A c \in Callers, s \in SessionIds :
    (pc[c] = "wait" /\ arg[c] = s /\ Gone(s)) ~> pc[c] = "idle"

(* A Send blocked on a full pipe ends once the stdin of the session is     *)
(* closed by Kill or by the end of the command.                            *)
BlockedSendReleased ==
  \A c \in Callers, s \in SessionIds :
    (pc[c] = "sendWrite" /\ arg[c] = s /\ ~stdinOpen[s]) ~> pc[c] = "idle"

-----------------------------------------------------------------------------
(* The detailed specification implements the life of a session a client    *)
(* is promised.                                                            *)
Phase(s) ==
  CASE shell[s] = "free"   -> "free"
    [] shell[s] = "unborn" -> "starting"
    [] shell[s] = "failed" -> "failed"
    [] OTHER -> IF exitCode[s] = "none" THEN "running" ELSE "exited"

Promised == INSTANCE SessionLifecycle WITH
  phase    <- [s \in SessionIds |-> Phase(s)],
  exit     <- exitCode,
  out      <- output,
  accepts  <- stdinOpen,
  notified <- done

Lifecycle == Promised!Spec

-----------------------------------------------------------------------------
(* What the comments of the code say and the code does not do.             *)

(* "Kill terminates a running terminal session." (state.go:209): after a   *)
(* kill the session ends.                                                  *)
KillTerminates ==
  \A c \in Callers, s \in SessionIds :
    (pc[c] = "killWait" /\ arg[c] = s) ~> ~running[s]

(* "LastSnapshot returns the current snapshot of the most recently started *)
(* tracked terminal session" (state.go:249): while a session whose command *)
(* was started is tracked, and no synthetic snapshot stands, there is one. *)
LastStartedKept ==
  (\E s \in sessions : waiter[s] # "none") /\ ~manualLast => lastID # NoID
=============================================================================
