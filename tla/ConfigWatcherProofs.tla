------------------------ MODULE ConfigWatcherProofs ------------------------
(***************************************************************************)
(* Proofs about ConfigWatcher, for all policies and any number of changes. *)
(***************************************************************************)
EXTENDS ConfigWatcher, SequenceTheorems, TLAPS

(* The project's directory is none of the user's.                          *)
LEMMA ProjDirApart == ProjDir \notin 0..Depth
  BY WatcherAssumption DEF WatcherAssumption, ProjDir

(* What a step does to the queue of events.                                *)
LEMMA Reported ==
  ASSUME events \in Seq({"user", "proj", "other"}), NEW dirs,
         NEW name \in {"user", "proj", "other"}, Report(dirs, name)
  PROVE  /\ events' \in Seq({"user", "proj", "other"})
         /\ \A f \in Files : Queued(f) => Queued(f)'
         /\ events' # events => Queued(name)'
  <1>1. CASE events' = events
    BY <1>1 DEF Queued
  <1>2. CASE events' = Append(events, name)
    <2>1. /\ Len(events') = Len(events) + 1
          /\ events'[Len(events) + 1] = name
          /\ \A i \in 1..Len(events) : events'[i] = events[i]
          /\ Len(events) \in Nat
      BY <1>2
    <2>2. \A f \in Files : Queued(f) => Queued(f)'
      BY <2>1 DEF Queued
    <2>3. Queued(name)'
      BY <2>1 DEF Queued
    <2> QED
      BY <1>2, <2>2, <2>3
  <1> QED
    BY <1>1, <1>2 DEF Report

LEMMA Taken ==
  ASSUME events \in Seq({"user", "proj", "other"}), events # <<>>, events' = Tail(events)
  PROVE  /\ events' \in Seq({"user", "proj", "other"})
         /\ Head(events) \in {"user", "proj", "other"}
         /\ \A f \in Files : Queued(f) => Queued(f)' \/ f = Head(events)
  <1>1. /\ Len(events) \in Nat /\ Len(events) > 0 /\ Head(events) = events[1]
        /\ Len(events') = Len(events) - 1
        /\ \A i \in 1..Len(events') : events'[i] = events[i + 1]
    OBVIOUS
  <1>2. ASSUME NEW f \in Files, NEW i \in 1..Len(events), events[i] = f, f # Head(events)
        PROVE  Queued(f)'
    <2>1. i - 1 \in 1..Len(events') /\ events'[i - 1] = f
      BY <1>1, <1>2
    <2> QED
      BY <2>1 DEF Queued
  <1> QED
    BY <1>1, <1>2 DEF Queued

-----------------------------------------------------------------------------
(* Type correctness.                                                       *)

(* What a load has read and taken is no file that does not load.           *)
Types ==
  /\ TypeOK
  /\ pc \in {"statProj", "readProj", "install"} => got["user"] # Bad
  /\ pc = "install" => got["proj"] # Bad

LEMMA WatchesAdded ==
  ASSUME TypeOK, NEW dirs \in SUBSET (0..ProjDir), AddWatchDirs(dirs)
  PROVE  watchedDirs' \subseteq 0..ProjDir /\ watches' \subseteq 0..ProjDir
  BY DEF TypeOK, AddWatchDirs

LEMMA DirSets ==
  ASSUME TypeOK
  PROVE  {depth} \subseteq 0..ProjDir /\ {ProjDir} \subseteq 0..ProjDir
         /\ {UserDir, ProjDir} \subseteq 0..ProjDir
  BY WatcherAssumption DEF WatcherAssumption, TypeOK, UserDir, ProjDir

LEMMA TypesInit == Init => Types
  <1> SUFFICES ASSUME Init PROVE Types
    OBVIOUS
  <1>1. content \in [Files -> Contents] /\ 0 \in 0..MaxChanges
    BY WatcherAssumption DEF WatcherAssumption, Init
  <1>2. events \in Seq({"user", "proj", "other"})
    BY DEF Init
  <1>3. TypeOK
    BY <1>1, <1>2 DEF Init, TypeOK, Contents
  <1> QED
    BY <1>3 DEF Init, Types

LEMMA TypesStep == Types /\ [Next]_vars => Types'
  <1> SUFFICES ASSUME Types, [Next]_vars PROVE Types'
    OBVIOUS
  <1> USE DEF Types, TypeOK
  <1>1. ASSUME NEW f \in Files, NEW c \in Contents, Change(f, c) PROVE Types'
    <2>1. events' \in Seq({"user", "proj", "other"})
      BY <1>1, Reported DEF Change, Files
    <2> QED
      BY <1>1, <2>1, WatcherAssumption DEF WatcherAssumption, Change, Disturb, loading
  <1>2. CASE ChangeOther
    <2>1. events' \in Seq({"user", "proj", "other"})
      BY <1>2, Reported DEF ChangeOther, Files
    <2> QED
      BY <1>2, <2>1, WatcherAssumption DEF WatcherAssumption, ChangeOther, Disturb, loading
  <1>3. CASE MakeDir
    <2>1. events' \in Seq({"user", "proj", "other"})
      BY <1>3, Reported DEF MakeDir, Files
    <2> QED
      BY <1>3, <2>1, WatcherAssumption DEF WatcherAssumption, MakeDir, Disturb, loading
  <1>4. CASE RemoveDir
    <2>1. events' \in Seq({"user", "proj", "other"})
      BY <1>4, Reported DEF RemoveDir, Files
    <2> QED
      BY <1>4, <2>1, WatcherAssumption DEF WatcherAssumption, RemoveDir, Disturb, loading
  <1>5. CASE ReadUser
    BY <1>5 DEF ReadUser, Goto, LoadFailed, disk, notify, Files
  <1>6. CASE StatProj
    BY <1>6 DEF StatProj, Goto, disk, notify
  <1>7. CASE ReadProj
    BY <1>7 DEF ReadProj, Rejected, Goto, LoadFailed, disk, notify, Files
  <1>8. CASE Install
    <2>1. Parsed(got) \in [Files -> Values \cup {Empty}]
      BY <1>8, WatcherAssumption
      DEF WatcherAssumption, Install, Goto, Parsed, Parse, Contents, Files
    <2> QED
      BY <1>8, <2>1 DEF Install, Goto, disk, notify, loading
  <1>9. CASE Watch
    <2>1. watchedDirs' \subseteq 0..ProjDir /\ watches' \subseteq 0..ProjDir
      BY <1>9, DirSets, WatchesAdded DEF Watch, WatchUser, WatchProj, Refresh
    <2> QED
      BY <1>9, <2>1 DEF Watch, WatchUser, WatchProj, Refresh, Goto, disk, loading
  <1>10. CASE TakeEvent
    <2>1. watchedDirs' \subseteq 0..ProjDir /\ watches' \subseteq 0..ProjDir
      BY <1>10, DirSets, WatchesAdded DEF TakeEvent
    <2> QED
      BY <1>10, <2>1, Taken DEF TakeEvent, Goto, disk, loading
  <1>11. CASE TakeTimer \/ TakeDone \/ TimerFires \/ Close
    BY <1>11 DEF TakeTimer, TakeDone, TimerFires, Close, Goto, disk, notify, loading
  <1>12. CASE CloseNotify
    <2>1. events' \in Seq({"user", "proj", "other"})
      BY <1>12 DEF CloseNotify
    <2> QED
      BY <1>12, <2>1 DEF CloseNotify, Goto, disk, loading
  <1>13. CASE UNCHANGED vars
    BY <1>13 DEF vars, disk, notify, loading
  <1> QED
    BY <1>1, <1>2, <1>3, <1>4, <1>5, <1>6, <1>7, <1>8, <1>9, <1>10, <1>11, <1>12, <1>13
    DEF Next, Edit, Load, Loop

(* Every variable keeps its type; above all, no policy is in force that    *)
(* does not load.                                                          *)
THEOREM TypeCorrect == Spec => []TypeOK
  <1>1. Types => TypeOK
    BY DEF Types
  <1> QED
    BY <1>1, TypesInit, TypesStep, PTL DEF Spec

-----------------------------------------------------------------------------
(* No reported change is lost.  Three things beside it make that           *)
(* inductive: the project's directory, once believed to be watched, is;    *)
(* what fileExists told a load is as good as what the load read; and the   *)
(* policies in force are those of the last load unless it failed.          *)

Coming == timer # "off" \/ pc = "readUser"

Settled == pc \in {"select", "watchUser", "watchProj", "refresh"}

RunInv ==
  /\ started => pc \notin {"watchUser", "watchProj", "refresh", "failed"}
  /\ Open /\ ProjDir \in watchedDirs => ProjDir \in watches
  /\ Open => \/ exists = (content["proj"] # Missing)
             \/ Queued("proj") \/ Coming \/ pc = "statProj"
             \/ got["user"] = Bad
             \/ "proj" \in missed
  /\ Settled => cfg = Parsed(got) \/ got["user"] = Bad \/ Rejected(got["proj"])

SyncInv == Types /\ RunInv /\ NoChangeLost

LEMMA SyncInit == Init => SyncInv
  BY TypesInit DEF Init, SyncInv, RunInv, NoChangeLost, Open, ToRead, Coming, Settled

LEMMA SyncEdit ==
  ASSUME SyncInv, Types', Edit
  PROVE  SyncInv'
  <1> USE DEF SyncInv, Types, TypeOK, NoChangeLost, RunInv, Coming, Settled, Open,
              ToRead, Rejected
  <1>1. UNCHANGED <<watchedDirs, cfg, got, exists, timer, pc, started, closing>>
    BY DEF Edit, Change, ChangeOther, MakeDir, RemoveDir, Disturb, loading
  <1>2. ASSUME NEW f \in Files, NEW c \in Contents, Change(f, c) PROVE SyncInv'
    <2>1. \A g \in Files : Queued(g) => Queued(g)'
      BY <1>2, Reported DEF Change, Files
    <2>2. Queued(f)' \/ f \in missed'
      BY <1>2, Reported DEF Change, Files
    <2>3. missed \subseteq missed'
      BY <1>2 DEF Change
    <2>4. \A g \in Files \ {f} : content'[g] = content[g]
      BY <1>2 DEF Change
    <2>5. watches' = watches /\ f \in {"user", "proj"}
      BY <1>2 DEF Change, Files
    <2> QED
      BY <1>1, <2>1, <2>2, <2>3, <2>4, <2>5 DEF Files, Parsed
  <1>3. CASE ChangeOther \/ MakeDir \/ RemoveDir
    <2>1. \A g \in Files : Queued(g) => Queued(g)'
      BY <1>3, Reported DEF ChangeOther, MakeDir, RemoveDir
    <2>2. content' = content /\ missed' = missed
      BY <1>3 DEF ChangeOther, MakeDir, RemoveDir
    <2>3. ProjDir \in watches => ProjDir \in watches'
      <3>1. depth # ProjDir
        BY ProjDirApart
      <3>2. CASE RemoveDir
        BY <3>1, <3>2 DEF RemoveDir
      <3>3. CASE ChangeOther \/ MakeDir
        BY <3>3 DEF ChangeOther, MakeDir
      <3> QED
        BY <1>3, <3>2, <3>3
    <2> QED
      BY <1>1, <2>1, <2>2, <2>3 DEF Files, Parsed
  <1> QED
    BY <1>2, <1>3 DEF Edit

LEMMA SyncLoad ==
  ASSUME SyncInv, Types', Load
  PROVE  SyncInv'
  <1> USE DEF SyncInv, Types, TypeOK, NoChangeLost, RunInv, Coming, Settled, Open,
              ToRead, Rejected, Queued, Goto, LoadFailed, disk, notify, loading, Files
  <1>1. CASE ReadUser
    BY <1>1 DEF ReadUser
  <1>2. CASE StatProj
    BY <1>2 DEF StatProj
  <1>3. CASE ReadProj
    BY <1>3 DEF ReadProj
  <1>4. CASE Install
    BY <1>4 DEF Install, Parsed
  <1> QED
    BY <1>1, <1>2, <1>3, <1>4 DEF Load

(* The project's directory is always there, so looking at it watches it.   *)
LEMMA ProjWatched ==
  ASSUME SyncInv, Open, NEW dirs, AddWatchDirs(dirs)
  PROVE  /\ watches \subseteq watches'
         /\ ProjDir \in watchedDirs' => ProjDir \in watches'
         /\ ProjDir \in dirs => ProjDir \in watches'
  BY DEF SyncInv, RunInv, AddWatchDirs, IsThere

LEMMA SyncWatch ==
  ASSUME SyncInv, Types', Watch
  PROVE  SyncInv'
  <1>1. /\ pc \in {"watchUser", "watchProj", "refresh"}
        /\ pc' \in {"watchProj", "refresh", "select"}
        /\ started' => pc' = "select"
        /\ UNCHANGED <<content, events, cfg, got, exists, timer, missed>>
    BY DEF Watch, WatchUser, WatchProj, Refresh, Goto, disk, loading, SyncInv, RunInv
  <1>2. Open
    BY <1>1 DEF Open
  <1>3. /\ watches \subseteq watches'
        /\ ProjDir \in watchedDirs' => ProjDir \in watches'
        /\ started' => ProjDir \in watches'
    BY <1>2, ProjWatched DEF Watch, WatchUser, WatchProj, Refresh, SyncInv, NoChangeLost
  <1>4. RunInv'
    BY <1>1, <1>2, <1>3
    DEF SyncInv, RunInv, Coming, Settled, Queued, Rejected, Parsed
  <1>5. NoChangeLost'
    BY <1>1, <1>2, <1>3 DEF SyncInv, NoChangeLost, Queued, ToRead
  <1> QED
    BY <1>4, <1>5 DEF SyncInv

LEMMA SyncLoop ==
  ASSUME SyncInv, Types', Loop \/ TimerFires \/ Close
  PROVE  SyncInv'
  <1>1. CASE TakeTimer \/ TimerFires \/ Close
    BY <1>1
    DEF TakeTimer, TimerFires, Close, SyncInv, Types, TypeOK, NoChangeLost, RunInv, Coming,
        Settled, Open, ToRead, Rejected, Parsed, Queued, Goto, disk, notify, loading, Files
  <1>2. CASE TakeEvent
    <2>1. pc = "select" /\ pc' = "select" /\ Open /\ Open'
          /\ UNCHANGED <<content, cfg, got, exists, started, missed>>
      BY <1>2 DEF TakeEvent, Goto, Open, disk, loading
    <2>2. \A f \in Files : Queued(f) => Queued(f)' \/ timer' # "off"
      BY <1>2, Taken DEF TakeEvent, Files, SyncInv, Types, TypeOK
    <2>3. ProjDir \in watches'
      BY <1>2, <2>1, ProjWatched DEF TakeEvent
    <2>4. timer # "off" => timer' # "off"
      BY <1>2 DEF TakeEvent
    <2>5. RunInv'
      BY <2>1, <2>2, <2>3, <2>4
      DEF SyncInv, RunInv, Coming, Settled, Rejected, Parsed, Files
    <2>6. NoChangeLost'
      BY <2>1, <2>2, <2>3, <2>4 DEF SyncInv, NoChangeLost, ToRead
    <2> QED
      BY <2>5, <2>6 DEF SyncInv
  <1>3. CASE TakeDone \/ CloseNotify
    BY <1>3
    DEF TakeDone, CloseNotify, SyncInv, RunInv, NoChangeLost, Open, Settled, Goto
  <1> QED
    BY <1>1, <1>2, <1>3 DEF Loop

LEMMA SyncStep == SyncInv /\ [Next]_vars => SyncInv'
  <1> SUFFICES ASSUME SyncInv, [Next]_vars PROVE SyncInv'
    OBVIOUS
  <1>1. Types'
    BY TypesStep DEF SyncInv
  <1>2. CASE UNCHANGED vars
    BY <1>1, <1>2
    DEF vars, disk, notify, loading, SyncInv, NoChangeLost, RunInv, Coming, Settled, Open,
        ToRead, Rejected, Queued, Parsed
  <1> QED
    BY <1>1, <1>2, SyncEdit, SyncLoad, SyncWatch, SyncLoop DEF Next

(* A change of a policy file that was reported is always followed by a     *)
(* load that reads it, whatever else changes in the meantime, and the      *)
(* project's directory is watched from the time NewWatcher returns.        *)
THEOREM NoChangeLostCorrect == Spec => []NoChangeLost
  <1>1. SyncInv => NoChangeLost
    BY DEF SyncInv
  <1> QED
    BY <1>1, SyncInit, SyncStep, PTL DEF Spec

(* With nothing under way and no change missed, the policies in force are  *)
(* those of the files.                                                     *)
THEOREM QuiescentCorrect == Spec => []QuiescentInForce
  <1>1. SyncInv => QuiescentInForce
    <2> SUFFICES ASSUME SyncInv, pc = "select", events = <<>>, timer = "off",
                        missed = {}, Loads(content)
                 PROVE  cfg = Parsed(content)
      BY DEF QuiescentInForce
    <2>1. \A f \in Files : ~Queued(f) /\ ~ToRead(f) /\ f \notin missed
      BY DEF Files, Queued, ToRead
    <2>2. got["user"] = content["user"] /\ got["user"] # Bad
      BY <2>1 DEF SyncInv, NoChangeLost, Open, Files, Loads
    <2>3. got["proj"] = content["proj"]
      BY <2>1, <2>2 DEF SyncInv, NoChangeLost, Open, Files
    <2>4. exists = (content["proj"] # Missing)
      BY <2>1, <2>2 DEF SyncInv, RunInv, Open, Coming, Files
    <2>5. ~Rejected(got["proj"])
      BY <2>3, <2>4 DEF Rejected, Loads
    <2>6. cfg = Parsed(got)
      BY <2>2, <2>5 DEF SyncInv, RunInv, Settled
    <2> QED
      BY <2>2, <2>3, <2>6 DEF Parsed, Files
  <1> QED
    BY <1>1, SyncInit, SyncStep, PTL DEF Spec
=============================================================================
