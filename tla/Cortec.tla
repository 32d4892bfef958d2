------------------------------- MODULE Cortec -------------------------------
(***************************************************************************)
(* The Cortec context of packages/core/src/index.ts: the registry of       *)
(* modules, load(), which loads them one after the other, and dispose(),   *)
(* which disposes them in reverse order and ends the process.              *)
(*                                                                         *)
(* A call of load() or dispose() is a record: where its pEachSeries is, and *)
(* the array it iterates over, which is copied from the registry when the  *)
(* call is made.  Every await is a step boundary, so the continuations of  *)
(* several calls, the timers and the signals interleave as the event loop  *)
(* lets them.  The modules are external: the promise of module.load() or   *)
(* module.dispose() may fulfil, reject or never settle.                    *)
(***************************************************************************)
EXTENDS Integers, Sequences, SequencesExt

CONSTANTS
  Instances,      \* the module objects the application creates
  Names,          \* the names of modules
  NameOf,         \* Instances -> Names: module.name
  ConfigModule,   \* the Config instance the constructor registers
  SyncThrowers,   \* instances whose dispose() throws instead of rejecting
  AppCodes,       \* the codes the application itself passes to dispose()
  MaxLoads        \* bound: how often the application calls load()

ASSUME ConfigAssumption ==
  /\ ConfigModule \in Instances
  /\ NameOf \in [Instances -> Names]
  /\ SyncThrowers \subseteq Instances
  /\ AppCodes \subseteq Int
  /\ MaxLoads \in Nat

VARIABLES
  fresh,        \* instances the application has not yet passed to use()
  modules,      \* the values of the Map `modules`, in insertion order
  isDisposing,
  loads,        \* the calls of load(), in the order they were made
  calls,        \* <<l, i>>: module.load() of loads[l].snap[i] has not settled
  disposes,     \* the calls of dispose() that passed the guard
  live,         \* instances whose load() fulfilled with no dispose() settled since
  signalled,    \* history: a SIGINT or SIGTERM arrived
  exit          \* the code given to exit(), Running before

vars == <<fresh, modules, isDisposing, loads, calls, disposes, live, signalled, exit>>

Running == -1

-----------------------------------------------------------------------------
(* dispose(code), up to its first await.  The guard makes it a no-op while *)
(* a disposal is under way; `loadsNow' is the value of loads after the     *)
(* step that calls it.  quiet and epoch are history: no load was under way *)
(* when the series began, and how many loads had been started by then.     *)

LoadResolved(l) == loads[l].pc = "resolved"

Quiescent == calls = {} /\ \A l \in DOMAIN loads : LoadResolved(l)

SeriesInOrder(code, quiet) ==      \* mutant: the registry is not reversed
  [code |-> code, snap |-> modules, i |-> 1, pc |-> "next",
   settled |-> FALSE, quiet |-> quiet, epoch |-> Len(loads)]

Series(code, quiet) ==
  [code |-> code, snap |-> Reverse(modules), i |-> 1, pc |-> "next",
   settled |-> FALSE, quiet |-> quiet, epoch |-> Len(loads)]

CallDisposeUnguarded(code, quiet) ==      \* mutant: no guard
  /\ isDisposing' = TRUE
  /\ disposes' = Append(disposes, Series(code, quiet))

CallDispose(code, quiet) ==
  IF isDisposing
  THEN UNCHANGED <<isDisposing, disposes>>
  ELSE /\ isDisposing' = TRUE
       /\ disposes' = Append(disposes, Series(code, quiet))

-----------------------------------------------------------------------------
Init ==
  /\ fresh = Instances \ {ConfigModule}
  /\ modules = <<ConfigModule>>
  /\ isDisposing = FALSE
  /\ loads = <<>>
  /\ calls = {}
  /\ disposes = <<>>
  /\ live = {}
  /\ signalled = FALSE
  /\ exit = Running

(* use(module): a Map keeps the place of a key that is set again.  The     *)
(* application registers an object once, and may do so at any time.        *)
Registered(name) == \E k \in DOMAIN modules : NameOf[modules[k]] = name

Use(m) ==
  /\ fresh' = fresh \ {m}
  /\ modules' = IF Registered(NameOf[m])
                THEN [k \in DOMAIN modules |->
                       IF NameOf[modules[k]] = NameOf[m] THEN m ELSE modules[k]]
                ELSE Append(modules, m)
  /\ UNCHANGED <<isDisposing, loads, calls, disposes, live, signalled, exit>>

-----------------------------------------------------------------------------
(* load().  `clean' is history: every disposal had finished when it began. *)

SeriesOver(d) == disposes[d].pc \in {"ended", "aborted"}

CallLoad ==
  /\ Len(loads) < MaxLoads
  /\ isDisposing' = FALSE
  /\ loads' = Append(loads, [snap |-> modules, i |-> 1, pc |-> "next", failed |-> FALSE,
                             clean |-> \A d \in DOMAIN disposes : SeriesOver(d)])
  /\ UNCHANGED <<fresh, modules, calls, disposes, live, signalled, exit>>

(* The next iteration calls module.load() and waits for it under pTimeout. *)
LoadNext(l) ==
  /\ loads[l].pc = "next"
  /\ loads[l].i <= Len(loads[l].snap)
  /\ loads' = [loads EXCEPT ![l].pc = "waiting"]
  /\ calls' = calls \cup {<<l, loads[l].i>>}
  /\ UNCHANGED <<fresh, modules, isDisposing, disposes, live, signalled, exit>>

LoadDone(l) ==
  /\ loads[l].pc = "next"
  /\ loads[l].i > Len(loads[l].snap)
  /\ loads' = [loads EXCEPT ![l].pc = "resolved"]
  /\ UNCHANGED <<fresh, modules, isDisposing, calls, disposes, live, signalled, exit>>

(* The call is the one its load() is waiting for; after a load timeout it  *)
(* is not, and its outcome is dropped.                                     *)
Awaited(l, i) == loads[l].pc = "waiting" /\ loads[l].i = i

ModuleLoaded(l, i) ==
  /\ <<l, i>> \in calls
  /\ calls' = calls \ {<<l, i>>}
  /\ live' = live \cup {loads[l].snap[i]}
  /\ loads' = IF Awaited(l, i)
              THEN [loads EXCEPT ![l].pc = "next", ![l].i = i + 1]
              ELSE loads
  /\ UNCHANGED <<fresh, modules, isDisposing, disposes, signalled, exit>>

(* A load() that fails calls dispose(1), does not wait for it, and its own *)
(* promise fulfils.                                                        *)
FailLoadPending(l) == [loads EXCEPT ![l].pc = "failed"]      \* mutant: never resolves

FailLoad(l) == [loads EXCEPT ![l].pc = "resolved", ![l].failed = TRUE]

QuietWithout(l, pending) ==
  pending = {} /\ \A k \in DOMAIN loads \ {l} : LoadResolved(k)

ModuleLoadFails(l, i) ==
  /\ <<l, i>> \in calls
  /\ calls' = calls \ {<<l, i>>}
  /\ IF Awaited(l, i)
     THEN loads' = FailLoad(l) /\ CallDispose(1, QuietWithout(l, calls'))
     ELSE UNCHANGED <<loads, isDisposing, disposes>>
  /\ UNCHANGED <<fresh, modules, live, signalled, exit>>

LoadTimeoutSkips(l) ==      \* mutant: goes on with the next module
  /\ loads[l].pc = "waiting"
  /\ loads' = [loads EXCEPT ![l].pc = "next", ![l].i = @ + 1]
  /\ UNCHANGED <<fresh, modules, isDisposing, calls, disposes, live, signalled, exit>>

LoadTimeoutNoDispose(l) ==      \* mutant: only logs
  /\ loads[l].pc = "waiting"
  /\ loads' = FailLoad(l)
  /\ UNCHANGED <<fresh, modules, isDisposing, calls, disposes, live, signalled, exit>>

LoadTimeout(l) ==
  /\ loads[l].pc = "waiting"
  /\ loads' = FailLoad(l)
  /\ CallDispose(1, FALSE)
  /\ UNCHANGED <<fresh, modules, calls, live, signalled, exit>>

-----------------------------------------------------------------------------
(* What calls dispose(): the signal handlers, the handler of uncaught      *)
(* exceptions, and the application.                                        *)

Signal ==
  /\ signalled' = TRUE
  /\ CallDispose(0, Quiescent)
  /\ UNCHANGED <<fresh, modules, loads, calls, live, exit>>

Uncaught ==
  /\ CallDispose(1, Quiescent)
  /\ UNCHANGED <<fresh, modules, loads, calls, live, signalled, exit>>

AppDispose(code) ==
  /\ CallDispose(code, Quiescent)
  /\ UNCHANGED <<fresh, modules, loads, calls, live, signalled, exit>>

-----------------------------------------------------------------------------
(* The series of dispose() calls.  The promise of pTimeout settles once,   *)
(* and its finally() exits the process unless the code is negative.        *)

SettleZero(d) ==      \* mutant: the code is not passed on
  exit' = IF ~disposes[d].settled /\ disposes[d].code >= 0 THEN 0 ELSE exit

SettlePositive(d) ==      \* mutant: code > 0 && exit(code)
  exit' = IF ~disposes[d].settled /\ disposes[d].code > 0 THEN disposes[d].code ELSE exit

Settle(d) ==
  exit' = IF ~disposes[d].settled /\ disposes[d].code >= 0 THEN disposes[d].code ELSE exit

DisposeNext(d) ==
  /\ disposes[d].pc = "next"
  /\ disposes[d].i <= Len(disposes[d].snap)
  /\ disposes' = [disposes EXCEPT ![d].pc = "waiting"]
  /\ UNCHANGED <<fresh, modules, isDisposing, loads, calls, live, signalled, exit>>

(* module.dispose() settled; a rejection is logged and the series goes on. *)
DisposeSettled(d) ==
  /\ disposes[d].pc = "waiting"
  /\ live' = live \ {disposes[d].snap[disposes[d].i]}
  /\ disposes' = [disposes EXCEPT ![d].pc = "next", ![d].i = @ + 1]
  /\ UNCHANGED <<fresh, modules, isDisposing, loads, calls, signalled, exit>>

(* module.dispose() throws: the iterator throws and the series is over.    *)
DisposeThrows(d) ==
  /\ disposes[d].pc = "next"
  /\ disposes[d].i <= Len(disposes[d].snap)
  /\ disposes[d].snap[disposes[d].i] \in SyncThrowers
  /\ disposes' = [disposes EXCEPT ![d].pc = "aborted", ![d].settled = TRUE]
  /\ Settle(d)
  /\ UNCHANGED <<fresh, modules, isDisposing, loads, calls, live, signalled>>

DisposeDone(d) ==
  /\ disposes[d].pc = "next"
  /\ disposes[d].i > Len(disposes[d].snap)
  /\ disposes' = [disposes EXCEPT ![d].pc = "ended", ![d].settled = TRUE]
  /\ Settle(d)
  /\ UNCHANGED <<fresh, modules, isDisposing, loads, calls, live, signalled>>

NoDisposeTimeout(d) == FALSE      \* mutant: the series awaited without pTimeout

(* The timer of pTimeout rejects; nothing stops the series itself.         *)
DisposeTimeout(d) ==
  /\ ~disposes[d].settled
  /\ disposes' = [disposes EXCEPT ![d].settled = TRUE]
  /\ Settle(d)
  /\ UNCHANGED <<fresh, modules, isDisposing, loads, calls, live, signalled>>

-----------------------------------------------------------------------------
LoadStep(l) ==
  \/ LoadNext(l)
  \/ LoadDone(l)
  \/ LoadTimeout(l)
  \/ \E i \in DOMAIN loads[l].snap : ModuleLoaded(l, i) \/ ModuleLoadFails(l, i)

DisposeStep(d) ==
  \/ DisposeNext(d)
  \/ DisposeSettled(d)
  \/ DisposeThrows(d)
  \/ DisposeDone(d)
  \/ DisposeTimeout(d)

Next ==
  /\ exit = Running
  /\ \/ \E m \in fresh : Use(m)
     \/ CallLoad
     \/ \E l \in DOMAIN loads : LoadStep(l)
     \/ Signal
     \/ Uncaught
     \/ \E code \in AppCodes : AppDispose(code)
     \/ \E d \in DOMAIN disposes : DisposeStep(d)

Spec == Init /\ [][Next]_vars

(* Fairness: continuations of settled promises run and timers fire.  That  *)
(* a module's own promise settles is not assumed.                          *)
LoadProgress(l) ==
  exit = Running /\ l \in DOMAIN loads /\ (LoadNext(l) \/ LoadDone(l) \/ LoadTimeout(l))

SeriesProgress(d) ==
  /\ exit = Running
  /\ d \in DOMAIN disposes
  /\ DisposeNext(d) \/ DisposeThrows(d) \/ DisposeDone(d)

TimerProgress(d) == exit = Running /\ d \in DOMAIN disposes /\ DisposeTimeout(d)

Fairness ==
  /\ \A l \in 1..MaxLoads : WF_vars(LoadProgress(l))
  /\ \A d \in 1..(MaxLoads + 1) : WF_vars(SeriesProgress(d)) /\ WF_vars(TimerProgress(d))

FairSpec == Spec /\ Fairness

-----------------------------------------------------------------------------
LoadRecord ==
  [snap : Seq(Instances), i : Nat \ {0}, pc : {"next", "waiting", "resolved"},
   failed : BOOLEAN, clean : BOOLEAN]

SeriesRecord ==
  [code : AppCodes \cup {0, 1}, snap : Seq(Instances), i : Nat \ {0},
   pc : {"next", "waiting", "ended", "aborted"}, settled : BOOLEAN,
   quiet : BOOLEAN, epoch : Nat]

(* Every variable has its type: the registry and the snapshots hold module *)
(* objects, and a pending module.load() belongs to a call of load().       *)
TypeOK ==
  /\ fresh \subseteq Instances
  /\ modules \in Seq(Instances)
  /\ isDisposing \in BOOLEAN
  /\ loads \in Seq(LoadRecord)
  /\ calls \subseteq (Nat \X Nat)
  /\ disposes \in Seq(SeriesRecord)
  /\ live \subseteq Instances
  /\ signalled \in BOOLEAN
  /\ exit \in {Running} \cup AppCodes \cup {0, 1}

(* The guard of dispose() lets at most one disposal pass for the process   *)
(* and one more for every load(): however many signals, uncaught           *)
(* exceptions, failing loads and application calls there are.              *)
OneSeriesPerLoad == Len(disposes) <= Len(loads) + 1

(* A disposal that began when no load was under way, and before any later  *)
(* one, disposes in the reverse order of registration: while it is at a    *)
(* module, every module registered after that one is down, so nothing is   *)
(* disposed while something registered later still uses it.                *)
Undisturbed(d) == disposes[d].quiet /\ disposes[d].epoch = Len(loads)

OrderlyTeardown ==
  \A d \in DOMAIN disposes :
    Undisturbed(d) /\ disposes[d].pc = "waiting" =>
      \A j, k \in DOMAIN modules :
        modules[j] = disposes[d].snap[disposes[d].i] /\ j < k => modules[k] \notin live

(* When such a disposal reaches its end, nothing that is registered is     *)
(* left up, whatever rejected or settled late on the way.                  *)
TeardownComplete ==
  \A d \in DOMAIN disposes :
    Undisturbed(d) /\ disposes[d].pc = "ended" => ToSet(modules) \cap live = {}

(* Both: an undisturbed dispose() is orderly and complete.                 *)
Teardown == OrderlyTeardown /\ TeardownComplete

(* While the latest load() runs, and no disposal overlapped it, a module   *)
(* is loaded only after everything registered before it is up (later       *)
(* modules require() earlier ones), and once load() has resolved without a *)
(* disposal every module it saw is up.                                     *)
DependenciesUp ==
  \A l \in DOMAIN loads :
    l = Len(loads) /\ loads[l].clean /\ ~isDisposing =>
      /\ \A j \in DOMAIN loads[l].snap : j < loads[l].i => loads[l].snap[j] \in live
      /\ loads[l].pc = "resolved" => ToSet(loads[l].snap) \subseteq live

-----------------------------------------------------------------------------
(* Every disposal that passed the guard with a code that is not negative   *)
(* ends the process, even when a module's dispose() never settles: the     *)
(* timer of dispose() is there for that.                                   *)
DisposeExits ==
  \A d \in 1..(MaxLoads + 1) :
    (d \in DOMAIN disposes /\ disposes[d].code >= 0) ~> (exit # Running)

(* "If any of the modules fail to load, exit the process": also when the   *)
(* failing load() finds a disposal under way, whose code then counts,      *)
(* unless the application has asked for a disposal that does not exit.     *)
NeverKept == \A d \in DOMAIN disposes : disposes[d].code >= 0

LoadFailureExits ==
  \A l \in 1..MaxLoads :
    (l \in DOMAIN loads /\ loads[l].failed /\ NeverKept) ~> (exit # Running)

(* SIGINT and SIGTERM end the process through dispose(), also when load()  *)
(* reopens the gate meanwhile, unless the application has asked for a      *)
(* disposal that does not exit: after that one the guard ignores a signal. *)
SignalExits == (signalled /\ NeverKept) ~> (exit # Running)

(* The context implements the abstract shutdown: its gate is the flag, the *)
(* accepted requests are the disposals in the order they passed the guard. *)
Requests == [d \in DOMAIN disposes |-> disposes[d].code]

Abstract == INSTANCE Shutdown WITH
  Codes <- AppCodes \cup {0, 1}, open <- ~isDisposing, accepted <- Requests, ended <- exit

ImplementsShutdown == Abstract!ASpec

-----------------------------------------------------------------------------
(* What a comment says of it, and the code does not keep.                  *)

(* "Don't dispose if already disposing": no two disposals run at once.     *)
NotDisposingTwice ==
  \A d, e \in DOMAIN disposes : d # e => SeriesOver(d) \/ SeriesOver(e)
=============================================================================
