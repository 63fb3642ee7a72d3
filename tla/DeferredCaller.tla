--------------------------- MODULE DeferredCaller ---------------------------
(***************************************************************************)
(* The deferred-call machinery of an IOService: IOServiceImpl.h            *)
(* (deferredCall, fireDeferredEvent, run) over LibeventIOServiceImpl.h     *)
(* (triggerDeferredEvent, stop, dispatchEvent).  DeferredCallerImpl.h is   *)
(* the same code with its own vector and lock.                             *)
(*                                                                         *)
(* Every loop has one thread, named like the loop; Users are the other     *)
(* threads of the program.  A call is pushed under lockDeferredCaller_,    *)
(* a recursive mutex, which fireDeferredEvent holds while the callbacks    *)
(* run; the loop is woken after the mutex has been released.               *)
(***************************************************************************)
EXTENDS Naturals, Sequences

CONSTANTS Loops,     \* IOServices, each with the thread that runs its loop
          Users,     \* threads that run no event loop
          Jobs,      \* one element per invocation of deferredCall
          CrossPost, \* <<l, m>>: a callback deferred on l may call m.deferredCall
          None       \* no owner, no call

ASSUME ThreadsAssumption == Loops \cap Users = {}
ASSUME CrossPostAssumption == CrossPost \subseteq Loops \X Loops
ASSUME NoneAssumption == None \notin Loops \cup Users \cup Jobs

Threads == Loops \cup Users

VARIABLES
  phase,     \* what the thread of a loop is doing, see Phases
  index,     \* the number of callbacks begun in the current fireDeferredEvent
  callbacks, \* deferredCallbacks_
  owner,     \* the thread that holds lockDeferredCaller_, or None
  depth,     \* how often its owner has locked it
  active,    \* event_ is in libevent's active queue
  exitFlag,  \* loopExitFlag_
  at,        \* where a thread is inside deferredCall, see CallSteps
  dst,       \* the loop it has called, or None
  arg,       \* the call it hands over, or None
  accepted,  \* history: the calls pushed, by loop
  executed   \* history: the calls begun, by loop

lockVars == <<owner, depth>>
callVars == <<at, dst, arg>>
histVars == <<accepted, executed>>
vars == <<phase, index, callbacks, owner, depth, active, exitFlag,
          at, dst, arg, accepted, executed>>

(* "created": no thread yet.  "dispatch": inside event_base_dispatch or in  *)
(* the handler of another event.  "lock": fireDeferredEvent waits for the   *)
(* mutex.  "scan": at the loop test.  "run": inside a callback.             *)
Phases == {"created", "dispatch", "lock", "scan", "run", "exited"}
CallSteps == {"out", "lock", "push", "trigger"}

Init ==
  /\ phase = [l \in Loops |-> "created"]
  /\ index = [l \in Loops |-> 0]
  /\ callbacks = [l \in Loops |-> <<>>]
  /\ owner = [l \in Loops |-> None]
  /\ depth = [l \in Loops |-> 0]
  /\ active = [l \in Loops |-> FALSE]
  /\ exitFlag = [l \in Loops |-> FALSE]
  /\ at = [t \in Threads |-> "out"]
  /\ dst = [t \in Threads |-> None]
  /\ arg = [t \in Threads |-> None]
  /\ accepted = [l \in Loops |-> <<>>]
  /\ executed = [l \in Loops |-> <<>>]

-----------------------------------------------------------------------------
(* Mutex: a boost::recursive_mutex, multithread mode being on. *)
CanLock_NotRecursive(t, l) == owner[l] = None
CanLock(t, l) == owner[l] \in {None, t}

Lock(t, l) == /\ CanLock(t, l)
              /\ owner' = [owner EXCEPT ![l] = t]
              /\ depth' = [depth EXCEPT ![l] = @ + 1]

Unlock_IgnoringDepth(l) == /\ owner' = [owner EXCEPT ![l] = None]
                           /\ depth' = [depth EXCEPT ![l] = @ - 1]

Unlock(l) == /\ owner' = [owner EXCEPT ![l] = IF depth[l] = 1 THEN None ELSE @]
             /\ depth' = [depth EXCEPT ![l] = @ - 1]

-----------------------------------------------------------------------------
(* deferredCall *)

(* A thread may call deferredCall when it is outside of one: a user thread  *)
(* and a loop's thread in the handler of some event at any time and on any  *)
(* loop, a loop's thread in a deferred callback on its own loop and on      *)
(* those that CrossPost allows.                                             *)
MayCall_Anything(t, l) ==
  \/ t \in Users
  \/ t \in Loops /\ phase[t] \in {"dispatch", "run"}

MayCall(t, l) ==
  \/ t \in Users
  \/ t \in Loops /\ phase[t] = "dispatch"
  \/ t \in Loops /\ phase[t] = "run" /\ (t = l \/ <<t, l>> \in CrossPost)

(* Each element of Jobs names one invocation. *)
Fresh(j) == /\ \A t \in Threads : arg[t] # j
            /\ \A l \in Loops : \A k \in DOMAIN accepted[l] : accepted[l][k] # j

DeferredCall(t, l, j) ==
  /\ at[t] = "out" /\ MayCall(t, l) /\ Fresh(j)
  /\ at' = [at EXCEPT ![t] = "lock"]
  /\ dst' = [dst EXCEPT ![t] = l]
  /\ arg' = [arg EXCEPT ![t] = j]
  /\ UNCHANGED <<phase, index, callbacks, lockVars, active, exitFlag, histVars>>

DeferredCall_Lock(t) ==
  /\ at[t] = "lock"
  /\ Lock(t, dst[t])
  /\ at' = [at EXCEPT ![t] = "push"]
  /\ UNCHANGED <<phase, index, callbacks, active, exitFlag, dst, arg, histVars>>

(* push_back and unlock, both under the mutex. *)
DeferredCall_Push(t) ==
  /\ at[t] = "push"
  /\ callbacks' = [callbacks EXCEPT ![dst[t]] = Append(@, arg[t])]
  /\ accepted' = [accepted EXCEPT ![dst[t]] = Append(@, arg[t])]
  /\ Unlock(dst[t])
  /\ at' = [at EXCEPT ![t] = "trigger"]
  /\ UNCHANGED <<phase, index, active, exitFlag, dst, arg, executed>>

(* Mutation: only the call that finds itself alone wakes the loop. *)
DeferredCall_Trigger_IfAlone(t) ==
  /\ at[t] = "trigger"
  /\ active' = [active EXCEPT ![dst[t]] = @ \/ Len(callbacks[dst[t]]) = 1]
  /\ at' = [at EXCEPT ![t] = "out"]
  /\ dst' = [dst EXCEPT ![t] = None]
  /\ arg' = [arg EXCEPT ![t] = None]
  /\ UNCHANGED <<phase, index, callbacks, lockVars, exitFlag, histVars>>

(* triggerDeferredEvent: event_active, which has no effect on an event that *)
(* is active already.                                                       *)
DeferredCall_Trigger(t) ==
  /\ at[t] = "trigger"
  /\ active' = [active EXCEPT ![dst[t]] = TRUE]
  /\ at' = [at EXCEPT ![t] = "out"]
  /\ dst' = [dst EXCEPT ![t] = None]
  /\ arg' = [arg EXCEPT ![t] = None]
  /\ UNCHANGED <<phase, index, callbacks, lockVars, exitFlag, histVars>>

-----------------------------------------------------------------------------
(* The event loop *)

(* run: the loop's thread enters event_base_dispatch.  The mutation loses a *)
(* stop that came earlier, like event_base_loopbreak would.                 *)
Run_ForgetsStop(l) ==
  /\ phase[l] = "created"
  /\ phase' = [phase EXCEPT ![l] = "dispatch"]
  /\ exitFlag' = [exitFlag EXCEPT ![l] = FALSE]
  /\ UNCHANGED <<index, callbacks, lockVars, active, callVars, histVars>>

Run(l) ==
  /\ phase[l] = "created"
  /\ phase' = [phase EXCEPT ![l] = "dispatch"]
  /\ UNCHANGED <<index, callbacks, lockVars, active, exitFlag, callVars, histVars>>

(* libevent takes the event off its active queue and calls                  *)
(* deferred_event_cb, which calls fireDeferredEvent.                        *)
DeferredEventCb(l) ==
  /\ phase[l] = "dispatch" /\ at[l] = "out" /\ active[l]
  /\ active' = [active EXCEPT ![l] = FALSE]
  /\ phase' = [phase EXCEPT ![l] = "lock"]
  /\ UNCHANGED <<index, callbacks, lockVars, exitFlag, callVars, histVars>>

FireDeferredEvent_Lock(l) ==
  /\ phase[l] = "lock"
  /\ Lock(l, l)
  /\ phase' = [phase EXCEPT ![l] = "scan"]
  /\ UNCHANGED <<index, callbacks, active, exitFlag, callVars, histVars>>

(* The loop test holds: the callback at the index is called. *)
FireDeferredEvent_Call(l) ==
  /\ phase[l] = "scan"
  /\ index[l] < Len(callbacks[l])
  /\ executed' = [executed EXCEPT ![l] = Append(@, callbacks[l][index[l] + 1])]
  /\ index' = [index EXCEPT ![l] = @ + 1]
  /\ phase' = [phase EXCEPT ![l] = "run"]
  /\ UNCHANGED <<callbacks, lockVars, active, exitFlag, callVars, accepted>>

(* The callback returns. *)
FireDeferredEvent_Return(l) ==
  /\ phase[l] = "run" /\ at[l] = "out"
  /\ phase' = [phase EXCEPT ![l] = "scan"]
  /\ UNCHANGED <<index, callbacks, lockVars, active, exitFlag, callVars, histVars>>

(* Mutations: the clear, or the unlock, is forgotten or done twice. *)
Fire_End(l, rest, d) ==
  /\ phase[l] = "scan" /\ index[l] >= Len(callbacks[l])
  /\ callbacks' = [callbacks EXCEPT ![l] = rest]
  /\ index' = [index EXCEPT ![l] = 0]
  /\ owner' = [owner EXCEPT ![l] = IF depth[l] <= d THEN None ELSE @]
  /\ depth' = [depth EXCEPT ![l] = @ - d]
  /\ phase' = [phase EXCEPT ![l] = "dispatch"]
  /\ UNCHANGED <<active, exitFlag, callVars, histVars>>

FireDeferredEvent_NoClear(l) == Fire_End(l, callbacks[l], 1)
FireDeferredEvent_NoUnlock(l) == Fire_End(l, <<>>, 0)
FireDeferredEvent_UnlockTwice(l) == Fire_End(l, <<>>, 2)

(* The loop test fails: clear and unlock.  The index is a local variable    *)
(* that the next fireDeferredEvent starts from 0 again.                     *)
FireDeferredEvent_Clear(l) ==
  /\ phase[l] = "scan"
  /\ index[l] >= Len(callbacks[l])
  /\ callbacks' = [callbacks EXCEPT ![l] = <<>>]
  /\ index' = [index EXCEPT ![l] = 0]
  /\ Unlock(l)
  /\ phase' = [phase EXCEPT ![l] = "dispatch"]
  /\ UNCHANGED <<active, exitFlag, callVars, histVars>>

(* stop, by any thread: the loop will exit 10 ms later. *)
Stop(l) ==
  /\ ~exitFlag[l]
  /\ exitFlag' = [exitFlag EXCEPT ![l] = TRUE]
  /\ UNCHANGED <<phase, index, callbacks, lockVars, active, callVars, histVars>>

(* The exit timer has fired: dispatch returns between two events, whether   *)
(* or not the deferred event is active.                                     *)
Dispatch_Exit(l) ==
  /\ phase[l] = "dispatch" /\ at[l] = "out" /\ exitFlag[l]
  /\ phase' = [phase EXCEPT ![l] = "exited"]
  /\ UNCHANGED <<index, callbacks, lockVars, active, exitFlag, callVars, histVars>>

-----------------------------------------------------------------------------
(* What a thread does by itself once it has begun; fairness is on these. *)
CallStep(t) == \/ DeferredCall_Lock(t)
               \/ DeferredCall_Push(t)
               \/ DeferredCall_Trigger(t)

LoopStep(l) == \/ Run(l)
               \/ DeferredEventCb(l)
               \/ FireDeferredEvent_Lock(l)
               \/ FireDeferredEvent_Call(l)
               \/ FireDeferredEvent_Return(l)
               \/ FireDeferredEvent_Clear(l)
               \/ Dispatch_Exit(l)

Next ==
  \/ \E t \in Threads, l \in Loops, j \in Jobs : DeferredCall(t, l, j)
  \/ \E t \in Threads : CallStep(t)
  \/ \E l \in Loops : LoopStep(l) \/ Stop(l)

Spec == Init /\ [][Next]_vars

(* Threads that can take a step inside deferredCall or the event loop       *)
(* eventually take one.  Nobody has to call deferredCall or stop.           *)
FairSpec ==
  /\ Spec
  /\ \A t \in Threads : WF_vars(CallStep(t))
  /\ \A l \in Loops : WF_vars(LoopStep(l))

-----------------------------------------------------------------------------
(* The type invariant. *)
TypeOK ==
  /\ phase \in [Loops -> Phases]
  /\ index \in [Loops -> Nat]
  /\ callbacks \in [Loops -> Seq(Jobs)]
  /\ owner \in [Loops -> Threads \cup {None}]
  /\ depth \in [Loops -> Nat]
  /\ active \in [Loops -> BOOLEAN]
  /\ exitFlag \in [Loops -> BOOLEAN]
  /\ at \in [Threads -> CallSteps]
  /\ dst \in [Threads -> Loops \cup {None}]
  /\ arg \in [Threads -> Jobs \cup {None}]
  /\ accepted \in [Loops -> Seq(Jobs)]
  /\ executed \in [Loops -> Seq(Jobs)]

(* Every thread that is about to change or to read deferredCallbacks_ of a  *)
(* loop (push_back in deferredCall, the scan and the callbacks of           *)
(* fireDeferredEvent) holds that loop's lockDeferredCaller_, with the depth *)
(* its nesting of calls implies: the recursive mutex is released exactly    *)
(* when the outermost holder leaves.                                        *)
Firing(l) == phase[l] \in {"scan", "run"}
Pushing(t, l) == at[t] = "push" /\ dst[t] = l
Nesting(t, l) == (IF t = l /\ Firing(l) THEN 1 ELSE 0)
                 + (IF Pushing(t, l) THEN 1 ELSE 0)

GuardedAt(l) ==
  /\ Firing(l) => owner[l] = l
  /\ \A t \in Threads : Pushing(t, l) => owner[l] = t
  /\ owner[l] = None => depth[l] = 0
  /\ owner[l] # None => depth[l] = Nesting(owner[l], l) /\ depth[l] > 0

CallbacksGuarded == \A l \in Loops : GuardedAt(l)

(* No lost wakeup: whenever calls are waiting in deferredCallbacks_ and the *)
(* loop is not inside fireDeferredEvent, the deferred event is active or    *)
(* some thread between its push_back and its triggerDeferredEvent is still  *)
(* to activate it ("this function must be called last").                    *)
WillWake(l) ==
  \/ active[l]
  \/ phase[l] \in {"lock", "scan", "run"}
  \/ \E t \in Threads : at[t] = "trigger" /\ dst[t] = l

NoLostWakeup == \A l \in Loops : callbacks[l] # <<>> => WillWake(l)

(* Thread t waits for a mutex that thread u holds. *)
WaitsFor(t, u) ==
  \/ at[t] = "lock" /\ ~ CanLock(t, dst[t]) /\ owner[dst[t]] = u
  \/ t \in Loops /\ phase[t] = "lock" /\ ~ CanLock(t, t) /\ owner[t] = u

(* No set of threads in which everyone waits for a member: the mutex that   *)
(* fireDeferredEvent holds around user callbacks never closes a cycle, as   *)
(* long as CrossPost has none.                                              *)
NoDeadlockedSet ==
  ~ \E S \in (SUBSET Threads) \ {{}} : \A t \in S : \E u \in S : WaitsFor(t, u)

(* A thread that holds a lockDeferredCaller_ does not wait for another one. *)
(* Holds when deferred callbacks post to their own loop only.               *)
HoldersNeverWait ==
  \A l \in Loops, u \in Threads : owner[l] \in Threads => ~ WaitsFor(owner[l], u)

(* The calls that a loop has begun are the calls it accepted, each once, in *)
(* order: the queue refines DeferredQueue.                                  *)
Q == INSTANCE DeferredQueue
FifoExactlyOnce == Q!QSpec

(* Every accepted call is begun unless the loop exits. *)
IsExecuted(l, j) == \E k \in DOMAIN executed[l] : executed[l][k] = j
IsAccepted(l, j) == \E k \in DOMAIN accepted[l] : accepted[l][k] = j
AcceptedCallsRun ==
  \A l \in Loops, j \in Jobs :
    IsAccepted(l, j) ~> (IsExecuted(l, j) \/ phase[l] = "exited")

(* deferredCall returns: nobody is blocked for ever on lockDeferredCaller_, *)
(* even by a loop that has been stopped.                                    *)
DeferredCallReturns == \A t \in Threads : at[t] = "lock" ~> at[t] = "out"

=============================================================================
