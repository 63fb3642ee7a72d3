------------------------------ MODULE Container ------------------------------
(***************************************************************************)
(* IOServiceContainer.cpp in thread mode: run() starts one thread per      *)
(* IOService and joins them in the same order, stop() asks one service     *)
(* after the other to leave its loop.  The services are those of           *)
(* DeferredCaller; stop() may be called by any thread, before, during and  *)
(* after run(), and by several threads at a time.                          *)
(***************************************************************************)
EXTENDS DeferredCaller

CONSTANTS Main,      \* the thread that calls run()
          ioservices \* ioservices_: the services in the order of creation

ASSUME MainAssumption == Main \in Users
ASSUME ServicesAssumption ==
  /\ ioservices \in Seq(Loops) /\ Len(ioservices) > 0
  /\ \A l \in Loops : \E i \in DOMAIN ioservices : ioservices[i] = l

VARIABLES
  runAt,   \* where Main is in run(), see RunSteps
  runIdx,  \* the index i of the loop that Main is in
  spawned, \* the services whose thread has been created
  stopIdx  \* the index i of a thread inside stop(), 0 outside of it

RunSteps == {"before", "start", "join", "returned"}
cvars == <<runAt, runIdx, spawned, stopIdx>>
allVars == <<vars, cvars>>

ContainerInit ==
  /\ Init
  /\ runAt = "before" /\ runIdx = 1 /\ spawned = {}
  /\ stopIdx = [t \in Threads |-> 0]

-----------------------------------------------------------------------------
(* run() *)

ContainerRun ==
  /\ runAt = "before" /\ at[Main] = "out" /\ stopIdx[Main] = 0
  /\ runAt' = "start"
  /\ UNCHANGED <<vars, runIdx, spawned, stopIdx>>

(* The loops over the services: at the end of each the index starts again.  *)
NextIndex(step) ==
  IF runIdx < Len(ioservices) THEN runIdx' = runIdx + 1 /\ UNCHANGED runAt
  ELSE runIdx' = 1 /\ runAt' = step

(* runWithoutJoinThread *)
StartThread ==
  /\ runAt = "start"
  /\ spawned' = spawned \cup {ioservices[runIdx]}
  /\ NextIndex("join")
  /\ UNCHANGED <<vars, stopIdx>>

(* joinThread; the mutation waits for any thread that has ended. *)
JoinThread_Any ==
  /\ runAt = "join"
  /\ \E l \in Loops : phase[l] = "exited"
  /\ NextIndex("returned")
  /\ UNCHANGED <<vars, spawned, stopIdx>>

JoinThread ==
  /\ runAt = "join"
  /\ phase[ioservices[runIdx]] = "exited"
  /\ NextIndex("returned")
  /\ UNCHANGED <<vars, spawned, stopIdx>>

-----------------------------------------------------------------------------
(* stop() *)

(* A thread does other things than run() and stop(): a loop's thread runs a *)
(* handler or a callback, any other thread is outside of deferredCall.      *)
Free(t) == /\ stopIdx[t] = 0
           /\ t = Main => runAt \in {"before", "returned"}

BeginStop(t) ==
  /\ Free(t) /\ at[t] = "out"
  /\ t \in Loops => phase[t] \in {"dispatch", "run"}
  /\ \E l \in Loops : ~ exitFlag[l]
  /\ stopIdx' = [stopIdx EXCEPT ![t] = 1]
  /\ UNCHANGED <<vars, runAt, runIdx, spawned>>

(* IOService::stop of one service, without effect on a stopped one. *)
StopService(t) ==
  /\ stopIdx[t] > 0
  /\ LET l == ioservices[stopIdx[t]]
     IN IF exitFlag[l] THEN UNCHANGED vars ELSE Stop(l)
  /\ stopIdx' = [stopIdx EXCEPT ![t] = IF @ < Len(ioservices) THEN @ + 1 ELSE 0]
  /\ UNCHANGED <<runAt, runIdx, spawned>>

-----------------------------------------------------------------------------
(* The steps of DeferredCaller, by threads that exist and are not in here.  *)
Posting == \E t \in Threads, l \in Loops, j \in Jobs :
             Free(t) /\ DeferredCall(t, l, j) /\ UNCHANGED cvars
Calling(t) == CallStep(t) /\ UNCHANGED cvars
Looping(l) == l \in spawned /\ stopIdx[l] = 0 /\ LoopStep(l) /\ UNCHANGED cvars
MainStep == StartThread \/ JoinThread

ContainerNext ==
  \/ ContainerRun \/ MainStep \/ Posting
  \/ \E t \in Threads : BeginStop(t) \/ StopService(t) \/ Calling(t)
  \/ \E l \in Loops : Looping(l)

(* Every thread that can go on goes on; nobody has to call anything. *)
ContainerSpec ==
  /\ ContainerInit /\ [][ContainerNext]_allVars
  /\ WF_allVars(MainStep)
  /\ \A t \in Threads : WF_allVars(StopService(t)) /\ WF_allVars(Calling(t))
  /\ \A l \in Loops : WF_allVars(Looping(l))

-----------------------------------------------------------------------------
(* run() returns after the threads of all services have ended: no callback  *)
(* and no handler runs beside what the program does after run().            *)
NothingRunsAfterRun == runAt = "returned" => \A l \in Loops : phase[l] = "exited"

(* Once somebody has called stop(), be it from a callback, while run() is   *)
(* still starting threads or before it, run() returns.                      *)
StopCalled == \/ \E t \in Threads : stopIdx[t] > 0
              \/ \A l \in Loops : exitFlag[l]
StopEndsRun == (runAt # "before" /\ StopCalled) ~> runAt = "returned"

=============================================================================
