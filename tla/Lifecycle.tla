-------------------------------- MODULE Lifecycle --------------------------------
(***************************************************************************)
(* The life of the indexing process: lifecycleCmd sets the application up,  *)
(* starts its services, waits for an interrupt or a critical failure, and   *)
(* stops it.  What the services do is in the other modules; here they are   *)
(* goroutines that can end, and that can be waited for.                     *)
(***************************************************************************)
EXTENDS Naturals, Sequences, FiniteSets

CONSTANTS
  Workers,    \* goroutines of the tickers of a processor
  MaxSignals  \* bound: interrupt signals

Syncs      == {"L1Sync", "L2Sync"}
Processors == {"BridgeProcessor", "BusinessProcessor"}
Services   == Syncs \cup Processors

ASSUME LifecycleAssumption ==
  /\ Workers \in [Processors -> Nat \ {0}] /\ MaxSignals \in Nat

VARIABLES
  main,     \* what lifecycleCmd is doing
  made,     \* how many parts of Setup are there
  started,  \* how many services of StartOrder are started
  stopped,  \* how many parts of StopOrder Stop has come past
  closing,  \* Close of the next part of StopOrder has been called
  tasks,    \* goroutines of a service that are running
  stuck,    \* synchronizers whose producer waits for a handler that has ended
  appDone,  \* appCtx is cancelled
  stopDone, \* stopCtx is cancelled
  first,    \* the blocker of the running application
  second,   \* the blocker of the stop
  signals   \* interrupt signals so far

setupVars  == <<made, started>>
stopVars   == <<stopped, closing>>
taskVars   == <<tasks, stuck>>
signalVars == <<first, second, signals, stopDone>>
lifeVars   == <<main, setupVars, stopVars, taskVars, appDone, signalVars>>

(* initFromConfig, Start and Stop: the parts in their order. *)
Setup      == <<"clients", "db", "L1Sync", "L2Sync",
                "BridgeProcessor", "BusinessProcessor", "api", "metrics">>
StartOrder == <<"L1Sync", "L2Sync", "BridgeProcessor", "BusinessProcessor">>

StopOrder  == <<"L1Sync", "L2Sync", "BridgeProcessor", "BusinessProcessor",
                "clients", "api", "db", "metrics">>

Made    == {Setup[n] : n \in 1..made}
Started == {StartOrder[n] : n \in 1..started}
Closed  == {StopOrder[n] : n \in 1..stopped} \cap Made
Running == {s \in Services : tasks[s] > 0}

Blocker == {"listening", "took", "gone"}

LifeTypeOK ==
  /\ main \in {"setup", "start", "wait", "stop", "exited", "killed"}
  /\ made \in 0..Len(Setup) /\ started \in 0..Len(StartOrder)
  /\ stopped \in 0..Len(StopOrder) /\ closing \in BOOLEAN
  /\ tasks \in [Services -> Nat] /\ stuck \subseteq Syncs
  /\ \A s \in Services : tasks[s] > 0 => s \in Started
  /\ appDone \in BOOLEAN /\ stopDone \in BOOLEAN
  /\ first \in Blocker /\ second \in Blocker
  /\ signals \in 0..MaxSignals

LifeInit ==
  /\ main = "setup" /\ made = 0 /\ started = 0
  /\ stopped = 0 /\ closing = FALSE
  /\ tasks = [s \in Services |-> 0] /\ stuck = {}
  /\ appDone = FALSE /\ stopDone = FALSE
  /\ first = "listening" /\ second = "gone" /\ signals = 0

-----------------------------------------------------------------------------
(* Signals.  A blocker that took a signal leaves its channel registered, so that
   later signals do not kill the process; a blocker that its context ended
   unregisters it.  With no channel registered a signal kills. *)

Registered == first # "gone" \/ second # "gone"

Signal ==
  /\ main \notin {"exited", "killed"} /\ signals < MaxSignals /\ signals' = signals + 1
  /\ first'  = IF first  = "listening" THEN "took" ELSE first
  /\ second' = IF second = "listening" THEN "took" ELSE second
  /\ main' = IF Registered THEN main ELSE "killed"
  /\ appDone'  = (appDone \/ first = "listening")
  /\ stopDone' = (stopDone \/ second = "listening")
  /\ UNCHANGED <<setupVars, stopVars, taskVars>>

(* The context of the first blocker ends without a signal. *)
BlockerEnds ==
  /\ appDone /\ first = "listening" /\ first' = "gone"
  /\ UNCHANGED <<main, setupVars, stopVars, taskVars, appDone, second, signals, stopDone>>

-----------------------------------------------------------------------------
(* initFromConfig: one part after another; a part that fails leaves the rest
   out, and NewLithosphere stops what is there. *)
MakePart ==
  /\ main = "setup"
  /\ IF made < Len(Setup) THEN made' = made + 1 /\ UNCHANGED main
                          ELSE main' = "start"  /\ UNCHANGED made
  /\ UNCHANGED <<started, stopVars, taskVars, appDone, signalVars>>

SetupFails ==
  /\ main = "setup" /\ made < Len(Setup) /\ main' = "stop"
  /\ UNCHANGED <<setupVars, stopVars, taskVars, appDone, signalVars>>

(* Lithosphere.Start: it does not look at its context, and no service that is
   started once returns an error. *)
StartService ==
  /\ main = "start"
  /\ IF started < Len(StartOrder)
     THEN /\ started' = started + 1
          /\ tasks' = [tasks EXCEPT ![StartOrder[started + 1]] =
                         IF StartOrder[started + 1] \in Syncs THEN 1
                                                              ELSE Workers[StartOrder[started + 1]]]
          /\ UNCHANGED main
     ELSE main' = "wait" /\ UNCHANGED <<started, tasks>>
  /\ UNCHANGED <<made, stopVars, stuck, appDone, signalVars>>

(* <-appCtx.Done(), and the blocker of the stop. *)
BeginStop ==
  /\ main = "wait" /\ appDone
  /\ main' = "stop" /\ second' = "listening"
  /\ UNCHANGED <<setupVars, stopVars, taskVars, appDone, first, signals, stopDone>>

-----------------------------------------------------------------------------
(* Mutant of HandleCrit: the failure is not passed on. *)
HandleCritLogs == UNCHANGED appDone

HandleCrit == appDone' = TRUE

(* A goroutine panics, and HandleCrit asks for the shutdown. *)
Panic(s) ==
  /\ main # "killed" /\ s \in Running
  /\ tasks' = [tasks EXCEPT ![s] = @ - 1]
  /\ HandleCrit
  /\ IF s \in Syncs THEN stuck' \in {stuck, stuck \cup {s}} ELSE UNCHANGED stuck
  /\ UNCHANGED <<main, setupVars, stopVars, signalVars>>

(* The handler of a synchronizer returns an error, which nobody sees. *)
HandlerFails(s) ==
  /\ main # "killed" /\ s \in Running
  /\ tasks' = [tasks EXCEPT ![s] = @ - 1]
  /\ stuck' \in {stuck, stuck \cup {s}}
  /\ UNCHANGED <<main, setupVars, stopVars, appDone, signalVars>>

CanEnd(s) == s \in Running /\ s \notin stuck

(* The producer of a synchronizer ends by Close, which closes the channel that
   the handler ranges over.  A ticker's channel is never closed: the goroutines
   of a processor do not end. *)
HandlerEnds(s) ==
  /\ main = "stop" /\ closing /\ StopOrder[stopped + 1] = s
  /\ CanEnd(s) /\ tasks' = [tasks EXCEPT ![s] = @ - 1]
  /\ UNCHANGED <<main, setupVars, stopVars, stuck, appDone, signalVars>>

-----------------------------------------------------------------------------
(* Mutants of Awaited: Close does not wait for the goroutines; Close waits for
   a goroutine that only Start makes. *)
AwaitedNot(p)     == p \notin stuck
AwaitedStarted(p) == p \in Services => p \in Started /\ tasks[p] = 0 /\ p \notin stuck

(* Close of a service waits for its producer and for its goroutines. *)
Awaited(p) == p \in Services => tasks[p] = 0 /\ p \notin stuck

(* Stop: each part that is there is closed, whatever became of the one before. *)
StopPart ==
  /\ main = "stop"
  /\ \/ stopped < Len(StopOrder) /\ ~ closing /\ closing' = TRUE /\ UNCHANGED <<main, stopped>>
     \/ /\ closing /\ (StopOrder[stopped + 1] \in Made => Awaited(StopOrder[stopped + 1]))
        /\ closing' = FALSE /\ stopped' = stopped + 1 /\ UNCHANGED main
     \/ stopped = Len(StopOrder) /\ main' = "exited" /\ UNCHANGED <<stopped, closing>>
  /\ UNCHANGED <<setupVars, taskVars, appDone, signalVars>>

LifeNext ==
  \/ Signal \/ BlockerEnds
  \/ MakePart \/ SetupFails \/ StartService \/ BeginStop
  \/ \E s \in Services : Panic(s)
  \/ \E s \in Syncs : HandlerFails(s) \/ HandlerEnds(s)
  \/ StopPart

LifeSpec == LifeInit /\ [][LifeNext]_lifeVars

LifeFairSpec ==
  /\ LifeSpec
  /\ WF_lifeVars(MakePart) /\ WF_lifeVars(StartService)
  /\ WF_lifeVars(BeginStop) /\ WF_lifeVars(StopPart)
  /\ \A s \in Syncs : WF_lifeVars(HandlerEnds(s))

-----------------------------------------------------------------------------
(* No goroutine of a service runs while, or after, the clients or the database
   it uses are closed (lithosphere.go:119-139), and an orderly exit leaves
   nothing running or open. *)
NoUseAfterClose ==
  /\ Closed \cap {"clients", "db"} # {} => Running = {}
  /\ main = "exited" => Running = {} /\ Closed = Made

(* A set-up that fails, with services made and none started, always comes to
   its end (lithosphere.go:57-66). *)
FailedSetupExits == (main = "stop" /\ started = 0) ~> main = "exited"

(* A critical failure of a service leads to the stop, whenever it happens
   (lithosphere.go:70-71). *)
FailureReachesStop ==
  \A s \in Processors :
    (s \in Started /\ tasks[s] < Workers[s]) ~> main \in {"stop", "exited", "killed"}

(* "The node still has to completely stop" (common/cliapp/lifecycle.go:19-21),
   with synchronizers that end.  Does not hold: the goroutines of the processors
   range over tickers, which have no end. *)
StopCompletes ==
  [](stuck = {}) => (main = "stop" ~> main \in {"exited", "killed"})
=============================================================================
