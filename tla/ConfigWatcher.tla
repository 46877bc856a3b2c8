--------------------------- MODULE ConfigWatcher ---------------------------
(***************************************************************************)
(* The live policy of internal/config: Load (config.go) reads the user's   *)
(* and the project's policy file, Watcher (watcher.go) loads them at the   *)
(* start and again when fsnotify reports that one of them changed.         *)
(*                                                                         *)
(* Three parties take steps: whoever edits the files, the goroutine of the *)
(* watcher (first NewWatcher, then loop) and the runtime's timer.  A load  *)
(* is four steps: the files may change between them.  What a file holds is *)
(* a value; how two loaded policies are merged is PolicyMerge's.           *)
(*                                                                         *)
(* The user's file lies Depth directories below one that always exists,    *)
(* the project's in the working directory, which always exists.            *)
(***************************************************************************)
EXTENDS Naturals, Sequences, FiniteSets

CONSTANTS
  Values,        \* policies that load
  Unprotected,   \* those of them that do not deny the edit of .no-pilot.yaml
  Bad,           \* a file that does not parse or has an invalid pattern
  Empty,         \* a file of no bytes, as between the steps of a rewrite
  Missing,       \* no file
  Strict,        \* is NO_PILOT_STRICT_SELF_PROTECT set?
  Depth,         \* directories above the user's file that may be missing
  QueueSize,     \* events that the kernel keeps for the watcher
  MaxChanges     \* bound: changes made to files and directories

ASSUME WatcherAssumption ==
  /\ Unprotected \subseteq Values
  /\ {Bad, Empty, Missing} \cap Values = {}
  /\ Bad # Empty /\ Bad # Missing /\ Empty # Missing
  /\ Strict \in BOOLEAN
  /\ {Depth, QueueSize, MaxChanges} \subseteq Nat

VARIABLES
  content,      \* what each policy file holds
  depth,        \* how many of the user's directories exist
  changes,      \* changes made so far
  watches,      \* directories the kernel reports on
  events,       \* what it has reported: "user", "proj" or "other"
  watchedDirs,  \* directories the watcher believes are watched
  cfg,          \* the policies in force
  got,          \* what the load under way, or the last one, read
  exists,       \* what it learned from fileExists
  timer,        \* the debounce timer: "off", "armed" or "due"
  pc,           \* where the watcher's goroutine is
  started,      \* has NewWatcher returned?
  closing,      \* was done closed?
  missed        \* history: files that have changed without an event

disk    == <<content, depth, changes>>
notify  == <<watches, events>>
loading == <<got, exists>>
vars == <<disk, notify, watchedDirs, cfg, loading, timer, pc, started, closing, missed>>

Files    == {"user", "proj"}
Contents == Values \cup {Bad, Empty, Missing}

(* Directories: 0..Depth are those of the user's file, the last is the     *)
(* project's.                                                              *)
UserDir  == Depth
ProjDir  == Depth + 1
DirOf(f) == IF f = "user" THEN UserDir ELSE ProjDir

(* A missing and an empty file are the policy that says nothing.           *)
Parse(c)  == IF c = Missing THEN Empty ELSE c
Parsed(k) == [f \in Files |-> Parse(k[f])]

Init ==
  /\ content \in [Files -> Contents]
  /\ depth \in 0..Depth
  /\ depth < Depth => content["user"] = Missing
  /\ changes = 0
  /\ watches = {}
  /\ events = <<>>
  /\ watchedDirs = {}
  /\ cfg = [f \in Files |-> Empty]
  /\ got = [f \in Files |-> Missing]
  /\ exists = FALSE
  /\ timer = "off"
  /\ pc = "readUser"
  /\ started = FALSE
  /\ closing = FALSE
  /\ missed = {}

-----------------------------------------------------------------------------
(* Files and directories change.  fsnotify reports what happens in a       *)
(* watched directory, and to a watched directory itself, while there is    *)
(* room in the kernel's queue.  That there was none is an error, which the *)
(* watcher logs.                                                           *)

Disturb ==
  /\ changes < MaxChanges
  /\ changes' = changes + 1

Report(dirs, name) ==
  events' = IF dirs \cap watches # {} /\ Len(events) < QueueSize
            THEN Append(events, name) ELSE events

(* A file is written, replaced, truncated (Empty) or removed (Missing).    *)
Change(f, c) ==
  /\ Disturb
  /\ f = "user" => depth = Depth
  /\ c # content[f]
  /\ content' = [content EXCEPT ![f] = c]
  /\ Report({DirOf(f)}, f)
  /\ missed' = IF events' = events THEN missed \cup {f} ELSE missed
  /\ UNCHANGED <<depth, watches, watchedDirs, cfg, loading, timer, pc, started, closing>>

(* Some other file of the project directory changes.                       *)
ChangeOther ==
  /\ Disturb
  /\ Report({ProjDir}, "other")
  /\ UNCHANGED <<content, depth, watches, watchedDirs, cfg, loading, timer, pc,
                 started, closing, missed>>

MakeDir ==
  /\ Disturb
  /\ depth < Depth
  /\ depth' = depth + 1
  /\ Report({depth}, "other")
  /\ UNCHANGED <<content, watches, watchedDirs, cfg, loading, timer, pc, started, closing, missed>>

(* The kernel's watch of a directory goes with the directory.              *)
RemoveDir ==
  /\ Disturb
  /\ depth > 0
  /\ content["user"] = Missing
  /\ depth' = depth - 1
  /\ watches' = watches \ {depth}
  /\ Report({depth, depth - 1}, "other")
  /\ UNCHANGED <<content, watchedDirs, cfg, loading, timer, pc, started, closing, missed>>

-----------------------------------------------------------------------------
(* Load.  At the start its failure ends the program, later it keeps cfg.   *)

Goto(from, to) == pc = from /\ pc' = to

LoadFailed == IF started THEN "select" ELSE "failed"

(* Mutant of ReadUser: a file that does not load is taken as it is.        *)
ReadUserAnyway ==
  /\ Goto("readUser", "statProj")
  /\ got' = [got EXCEPT !["user"] = content["user"]]
  /\ missed' = missed \ {"user"}
  /\ UNCHANGED <<disk, notify, watchedDirs, cfg, exists, timer, started, closing>>

ReadUser ==
  /\ Goto("readUser", IF content["user"] = Bad THEN LoadFailed ELSE "statProj")
  /\ got' = [got EXCEPT !["user"] = content["user"]]
  /\ missed' = missed \ {"user"}
  /\ UNCHANGED <<disk, notify, watchedDirs, cfg, exists, timer, started, closing>>

StatProj ==
  /\ Goto("statProj", "readProj")
  /\ exists' = (content["proj"] # Missing)
  /\ missed' = missed \ {"proj"}
  /\ UNCHANGED <<disk, notify, watchedDirs, cfg, got, timer, started, closing>>

(* validateSelfProtectPolicy also rejects a policy without tools.          *)
SelfProtects(c) == c \in Values \ Unprotected

Rejected(c) == c = Bad \/ (exists /\ Strict /\ ~SelfProtects(c))

ReadProj ==
  /\ Goto("readProj", IF Rejected(content["proj"]) THEN LoadFailed ELSE "install")
  /\ got' = [got EXCEPT !["proj"] = content["proj"]]
  /\ UNCHANGED <<disk, notify, watchedDirs, cfg, exists, timer, started, closing, missed>>

(* Mutant of Install: events that came during the load are thrown away.    *)
InstallDrains ==
  /\ Goto("install", IF started THEN "select" ELSE "watchUser")
  /\ cfg' = Parsed(got)
  /\ events' = <<>>
  /\ UNCHANGED <<disk, watches, watchedDirs, loading, timer, started, closing, missed>>

(* The merged configuration replaces the one in force.                     *)
Install ==
  /\ Goto("install", IF started THEN "select" ELSE "watchUser")
  /\ cfg' = Parsed(got)
  /\ UNCHANGED <<disk, notify, watchedDirs, loading, timer, started, closing, missed>>

-----------------------------------------------------------------------------
(* NewWatcher adds the watches after the first load: on the nearest        *)
(* directory above the user's file that exists, on the project directory,  *)
(* and on the user's own directory when it exists.                         *)

IsThere(d) == d = ProjDir \/ d <= depth

(* addWatchDir: a directory believed to be watched is not looked at again. *)
AddWatchDirs(dirs) ==
  LET new == {d \in dirs \ watchedDirs : IsThere(d)} IN
  /\ watchedDirs' = watchedDirs \cup new
  /\ watches' = watches \cup new

WatchUser ==
  /\ Goto("watchUser", "watchProj")
  /\ AddWatchDirs({depth})
  /\ UNCHANGED <<disk, events, cfg, loading, timer, started, closing, missed>>

WatchProj ==
  /\ Goto("watchProj", "refresh")
  /\ AddWatchDirs({ProjDir})
  /\ UNCHANGED <<disk, events, cfg, loading, timer, started, closing, missed>>

(* refreshWatchDirs, and the goroutine of loop is launched.                *)
Refresh ==
  /\ Goto("refresh", "select")
  /\ AddWatchDirs({UserDir, ProjDir})
  /\ started' = TRUE
  /\ UNCHANGED <<disk, events, cfg, loading, timer, closing, missed>>

-----------------------------------------------------------------------------
(* loop: it takes whichever of the timer, an event and done is ready.      *)

TimerFires ==
  /\ timer = "armed"
  /\ timer' = "due"
  /\ UNCHANGED <<disk, notify, watchedDirs, cfg, loading, pc, started, closing, missed>>

TakeTimer ==
  /\ timer = "due"
  /\ Goto("select", "readUser")
  /\ timer' = "off"
  /\ UNCHANGED <<disk, notify, watchedDirs, cfg, loading, started, closing, missed>>

(* Mutant of TakeEvent: a timer that runs is stopped and not started again.*)
TakeEventStops ==
  /\ Goto("select", "select")
  /\ events # <<>>
  /\ events' = Tail(events)
  /\ AddWatchDirs({UserDir, ProjDir})
  /\ timer' = IF Head(events) \notin Files THEN timer
              ELSE IF timer = "off" THEN "armed" ELSE "off"
  /\ UNCHANGED <<disk, cfg, loading, started, closing, missed>>

(* An event of a policy file starts the timer over.                        *)
TakeEvent ==
  /\ Goto("select", "select")
  /\ events # <<>>
  /\ events' = Tail(events)
  /\ AddWatchDirs({UserDir, ProjDir})
  /\ timer' = IF Head(events) \in Files THEN "armed" ELSE timer
  /\ UNCHANGED <<disk, cfg, loading, started, closing, missed>>

(* Mutant of TakeDone: done is looked at only when the timer is due.       *)
TakeDoneWhenDue ==
  /\ closing /\ timer = "due"
  /\ Goto("select", "stopped")
  /\ timer' = "off"
  /\ UNCHANGED <<disk, notify, watchedDirs, cfg, loading, started, closing, missed>>

TakeDone ==
  /\ closing
  /\ Goto("select", "stopped")
  /\ timer' = "off"
  /\ UNCHANGED <<disk, notify, watchedDirs, cfg, loading, started, closing, missed>>

(* Close closes done, and the file watcher once the goroutine has ended.   *)
Close ==
  /\ started /\ ~closing
  /\ closing' = TRUE
  /\ UNCHANGED <<disk, notify, watchedDirs, cfg, loading, timer, pc, started, missed>>

CloseNotify ==
  /\ Goto("stopped", "closed")
  /\ watches' = {}
  /\ events' = <<>>
  /\ UNCHANGED <<disk, watchedDirs, cfg, loading, timer, started, closing, missed>>

-----------------------------------------------------------------------------
Edit ==
  \/ \E f \in Files, c \in Contents : Change(f, c)
  \/ ChangeOther \/ MakeDir \/ RemoveDir

Load == ReadUser \/ StatProj \/ ReadProj \/ Install

Watch == WatchUser \/ WatchProj \/ Refresh

Loop == TakeTimer \/ TakeEvent \/ TakeDone \/ CloseNotify

Next == Edit \/ Load \/ Watch \/ TimerFires \/ Loop \/ Close

(* The goroutine runs when it can and the timer fires; nobody has to edit. *)
Fairness == WF_vars(Load \/ Watch \/ Loop) /\ WF_vars(TimerFires)

Spec == Init /\ [][Next]_vars

FairSpec == Spec /\ Fairness

-----------------------------------------------------------------------------
(* Properties.                                                             *)

TypeOK ==
  /\ content \in [Files -> Contents]
  /\ depth \in 0..Depth
  /\ changes \in 0..MaxChanges
  /\ watches \subseteq 0..ProjDir
  /\ events \in Seq({"user", "proj", "other"})
  /\ watchedDirs \subseteq 0..ProjDir
  /\ cfg \in [Files -> Values \cup {Empty}]
  /\ got \in [Files -> Contents]
  /\ exists \in BOOLEAN
  /\ timer \in {"off", "armed", "due"}
  /\ pc \in {"readUser", "statProj", "readProj", "install", "watchUser", "watchProj",
             "refresh", "select", "failed", "stopped", "closed"}
  /\ {started, closing} \subseteq BOOLEAN
  /\ missed \subseteq Files

(* Is the watcher at work, or about to be?                                 *)
Open == pc \notin {"failed", "stopped", "closed"}

Queued(f) == \E i \in 1..Len(events) : events[i] = f

(* Will the load under way still read the file?                            *)
ToRead(f) ==
  \/ pc = "readUser"
  \/ f = "proj" /\ pc \in {"statProj", "readProj"}

(* No change that was reported is lost between the kernel, the debounce    *)
(* timer and a load that has read the file already: when what was last     *)
(* read differs from what is there, another load is coming.  The project's *)
(* file waits while the user's does not load.  Only the user's directory   *)
(* may go unwatched once NewWatcher has returned.                          *)
NoChangeLost ==
  Open =>
    /\ started => ProjDir \in watches
    /\ \A f \in Files :
         \/ got[f] = content[f]
         \/ Queued(f) \/ timer # "off" \/ ToRead(f)
         \/ f = "proj" /\ got["user"] = Bad
         \/ f \in missed

(* A pair of files that a load would take.                                 *)
Loads(k) ==
  /\ k["user"] # Bad /\ k["proj"] # Bad
  /\ (Strict /\ k["proj"] # Missing) => SelfProtects(k["proj"])

(* When nothing is under way, the policies in force are those of the disk, *)
(* however many changes, events and loads overlapped to get there, unless  *)
(* one was not reported and its file has not been read since.              *)
QuiescentInForce ==
  (pc = "select" /\ events = <<>> /\ timer = "off" /\ missed = {} /\ Loads(content))
    => cfg = Parsed(content)

(* Files that stop changing and load are in force in the end, unless the   *)
(* watcher is closed.                                                      *)
InForceAtLast ==
  <>[](Open /\ ~closing /\ missed = {}) => <>[](Loads(content) => cfg = Parsed(content))

(* Close returns.                                                          *)
CloseReturns == closing ~> pc = "closed"

-----------------------------------------------------------------------------
(* What the documentation says and the code does not do.                   *)

(* "Policy file changes are hot-reloaded at runtime.  Editing either user  *)
(* config or .no-pilot.yaml applies updated restrictions" (README.md:411), *)
(* also when the directory of the user's file is made while the program    *)
(* runs.                                                                   *)
HotReload ==
  [](~started => changes = 0) /\ <>[](Open /\ ~closing) =>
    <>[](Loads(content) => cfg = Parsed(content))

(* The same of a user's directory that is there, and is watched, when      *)
(* NewWatcher returns: also when it is removed and made again.             *)
HotReloadAgain ==
  [](~started => changes = 0 /\ depth = Depth) /\ <>[](Open /\ ~closing) =>
    <>[](Loads(content) => cfg = Parsed(content))
=============================================================================
