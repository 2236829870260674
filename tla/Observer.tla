------------------------------- MODULE Observer -------------------------------
(***************************************************************************)
(* internal/observer/engine.go: the policy file, the configuration that    *)
(* NewObserverEngine loads from it and the goroutine of Watch, which polls *)
(* the modification time and reloads.  The file is edited from outside at  *)
(* any moment; an editor may truncate it before writing it, replace it by  *)
(* a file with an older modification time, or remove it.                   *)
(***************************************************************************)
EXTENDS Naturals

CONSTANTS
  Policy,     \* contents of the file that decode to a list of rules
  Blank,      \* an empty file, which decodes to a configuration without rules
  Malformed,  \* contents that yaml.Unmarshal rejects
  Missing,    \* no file; also no configuration
  MaxTime     \* bound on the modification times

ASSUME ObserverAssumption ==
  /\ MaxTime \in Nat
  /\ Blank \notin Policy /\ Malformed \notin Policy /\ Missing \notin Policy
  /\ Blank # Malformed /\ Blank # Missing /\ Malformed # Missing

VARIABLES
  file, mtime,  \* the policy file and its modification time
  clock,        \* the latest modification time any edit has had
  config,       \* e.config
  watch,        \* where NewObserverEngine and then Watch are
  lastMod,      \* lastMod of Watch
  statMod,      \* the time of the stat that started a reload
  newConfig,    \* newConfig of Reload
  stopped,      \* stopChan is closed
  unseen        \* history: the last edit left no later time to be noticed by

fileVars  == <<file, mtime, clock, unseen>>
watchVars == <<config, watch, lastMod, statMod, newConfig>>
observerVars == <<fileVars, watchVars, stopped>>

Config   == Policy \cup {Blank}
Contents == Config \cup {Malformed, Missing}

ObserverInit ==
  /\ file \in Contents /\ mtime = 1 /\ clock = 1
  /\ config = Missing /\ newConfig = Missing
  /\ watch = "load" /\ lastMod = 0 /\ statMod = 0
  /\ stopped = FALSE /\ unseen = FALSE

-----------------------------------------------------------------------------
\* NewObserverEngine: without a valid policy, or when it cannot be read, main
\* ends the process.
LoadInitial ==
  /\ watch = "load"
  /\ \/ file \in Config /\ config' = file /\ watch' = "arm"
     \/ watch' = "failed" /\ UNCHANGED config
  /\ UNCHANGED <<fileVars, lastMod, statMod, newConfig, stopped>>

ArmAtNow ==
  /\ watch = "arm"
  /\ lastMod' = clock + 1
  /\ watch' = "wait"
  /\ UNCHANGED <<fileVars, config, statMod, newConfig, stopped>>

\* The goroutine of Watch starts with the time of the file, if there is one.
Arm ==
  /\ watch = "arm"
  /\ lastMod' = IF file = Missing THEN 0 ELSE mtime
  /\ watch' = "wait"
  /\ UNCHANGED <<fileVars, config, statMod, newConfig, stopped>>

\* A tick: the file has a later time than lastMod, or nothing happens.
Changed == file # Missing /\ mtime > lastMod

TickChanged ==
  /\ watch = "wait" /\ Changed
  /\ statMod' = mtime
  /\ watch' = "read"
  /\ UNCHANGED <<fileVars, config, lastMod, newConfig, stopped>>

TickIdle ==
  /\ watch = "wait" /\ ~Changed
  /\ UNCHANGED observerVars

\* loadConfig in Reload; a file it cannot decode, and one it cannot read just
\* then, leave everything as it was, and the next tick tries again.
ReadPolicy ==
  /\ watch = "read"
  /\ \/ file \in Config /\ newConfig' = file /\ watch' = "install"
     \/ file \notin Config /\ watch' = "wait" /\ UNCHANGED newConfig
  /\ UNCHANGED <<fileVars, config, lastMod, statMod, stopped>>

\* The time is remembered although nothing was loaded.
ReadFailsForGood ==
  /\ watch = "read" /\ file \in Config
  /\ lastMod' = statMod
  /\ watch' = "wait"
  /\ UNCHANGED <<fileVars, config, statMod, newConfig, stopped>>

ReadFails ==
  /\ watch = "read" /\ file \in Config
  /\ watch' = "wait"
  /\ UNCHANGED <<fileVars, config, lastMod, statMod, newConfig, stopped>>

InstallPolicyLateStat ==
  /\ watch = "install"
  /\ config' = newConfig /\ lastMod' = mtime
  /\ newConfig' = Missing
  /\ watch' = "wait"
  /\ UNCHANGED <<fileVars, statMod, stopped>>

\* The assignment under the lock, and then that of lastMod.
InstallPolicy ==
  /\ watch = "install"
  /\ config' = newConfig /\ lastMod' = statMod
  /\ newConfig' = Missing
  /\ watch' = "wait"
  /\ UNCHANGED <<fileVars, statMod, stopped>>

\* Stop, which may be called more than once, and the end of the goroutine.
Stop ==
  /\ watch \notin {"load", "failed"}
  /\ stopped' = TRUE
  /\ UNCHANGED <<fileVars, watchVars>>

WatchEnds ==
  /\ watch = "wait" /\ stopped
  /\ watch' = "done"
  /\ UNCHANGED <<fileVars, config, lastMod, statMod, newConfig, stopped>>

-----------------------------------------------------------------------------
\* The world outside: an edit has a later time than any before it, unless it
\* moves a file into place or follows another within the resolution of the
\* clock.  An edit before Arm is one Watch has no time to compare with.
Edit(c) ==
  /\ clock < MaxTime
  /\ clock' = clock + 1 /\ mtime' = clock'
  /\ file' = c
  /\ unseen' = (watch = "arm")
  /\ UNCHANGED <<watchVars, stopped>>

Backdate(c, t) ==
  /\ t <= clock
  /\ mtime' = t /\ file' = c
  /\ unseen' = TRUE
  /\ UNCHANGED <<clock, watchVars, stopped>>

WatchStep ==
  LoadInitial \/ Arm \/ TickChanged \/ TickIdle \/ ReadPolicy \/ InstallPolicy \/ WatchEnds

ObserverNext ==
  \/ WatchStep \/ ReadFails \/ Stop
  \/ \E c \in Contents : Edit(c)
  \/ \E c \in Contents, t \in 1 .. MaxTime : Backdate(c, t)

ObserverSpec == ObserverInit /\ [][ObserverNext]_observerVars

\* The goroutine of Watch is scheduled and its ticker ticks; nobody has to
\* edit the file or to stop the engine.  A good file that is read again and
\* again can be read in the end.
ObserverFairSpec ==
  ObserverSpec /\ WF_observerVars(WatchStep) /\ SF_observerVars(ReadPolicy)

-----------------------------------------------------------------------------

ObserverTypeOK ==
  /\ file \in Contents /\ mtime \in Nat /\ clock \in Nat
  /\ config \in Config \cup {Missing} /\ newConfig \in Config \cup {Missing}
  /\ watch \in {"load", "failed", "arm", "wait", "read", "install", "done"}
  /\ lastMod \in Nat /\ statMod \in Nat
  /\ stopped \in BOOLEAN /\ unseen \in BOOLEAN

(* The time Watch remembers never vouches for rules it has not loaded: a   *)
(* watcher that would not reload has the rules of the file, however edits  *)
(* fall between the stat, the read and the assignment of a reload          *)
(* (engine.go:117-140), unless the last edit left no later time.           *)
FreshWhenSettled ==
  (watch = "wait" /\ ~unseen /\ file # Missing /\ mtime <= lastMod) => config = file

\* What each step of a reload may rely on: the load before Arm, a time that
\* is still later than lastMod before the read, and contents at least as new
\* as the stat before the assignment.
StepsRely ==
  ~unseen =>
    /\ watch = "arm" => config = file
    /\ watch = "read" => mtime > lastMod
    /\ (watch = "install" /\ file # Missing /\ mtime <= statMod) => newConfig = file

(* The inductive invariant behind FreshWhenSettled: no remembered time is  *)
(* later than the last edit, and each step of a reload finds what the one  *)
(* before it left (engine.go:117-140).                                     *)
ObserverInv ==
  /\ ObserverTypeOK
  /\ mtime <= clock /\ lastMod <= clock /\ statMod <= clock
  /\ StepsRely /\ FreshWhenSettled

(* A policy that stays in the file is loaded in the end, also after        *)
(* reloads that failed on a file half written or on a good one, and after  *)
(* edits that left no later time, once an edit does (engine.go:126-138).   *)
PolicyCatchesUp ==
  \A p \in Policy :
    (file = p) ~> (config = p \/ file # p \/ unseen \/ stopped \/ watch = "failed")
=============================================================================
