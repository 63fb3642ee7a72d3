------------------------ MODULE DeferredCallerProofs ------------------------
(***************************************************************************)
(* Proofs about DeferredCaller, for any number of loops, threads and calls, *)
(* and about Container, for any number of services and threads: run()       *)
(* returns after all loops have ended, and a container takes only steps of  *)
(* DeferredCaller, so that what is proved about the deferred calls of an    *)
(* IOService holds for its services.                                        *)
(***************************************************************************)
EXTENDS Container, WellFoundedInduction, TLAPS

(* The step-by-step content of every action, opened by the leaves below. *)
USE DEF Threads, Phases, CallSteps, lockVars, callVars, histVars

(* A thread inside deferredCall has a loop and a call; the thread of a loop *)
(* is inside deferredCall only from an event handler or a callback.         *)
CallShape ==
  /\ \A t \in Threads : at[t] # "out" => dst[t] \in Loops /\ arg[t] \in Jobs
  /\ \A l \in Loops : at[l] # "out" => phase[l] \in {"dispatch", "run"}

(* The variables keep their types, and a call in progress its arguments. *)
TypeInv == TypeOK /\ CallShape

LEMMA InitTypeInv == Init => TypeInv
BY ThreadsAssumption, NoneAssumption DEF Init, TypeInv, TypeOK, CallShape

(* A mutex is unlocked only by a thread that has locked it, so its depth    *)
(* stays natural: the types depend on the locking discipline.               *)
LEMMA NextTypeInv == TypeInv /\ CallbacksGuarded /\ [Next]_vars => TypeInv'
<1> SUFFICES ASSUME TypeInv, CallbacksGuarded, [Next]_vars PROVE TypeInv'
  OBVIOUS
<1> USE ThreadsAssumption, NoneAssumption DEF TypeInv, TypeOK, CallShape
<1>1. ASSUME NEW t \in Threads, NEW l \in Loops, NEW j \in Jobs,
             DeferredCall(t, l, j)
      PROVE TypeInv'
  BY <1>1 DEF DeferredCall, MayCall
<1>2. ASSUME NEW t \in Threads, DeferredCall_Lock(t) PROVE TypeInv'
  BY <1>2 DEF DeferredCall_Lock, Lock, CanLock
<1>3. ASSUME NEW t \in Threads, DeferredCall_Push(t) PROVE TypeInv'
  <2>1. PICK m \in Loops, a \in Jobs : m = dst[t] /\ a = arg[t]
    BY <1>3 DEF DeferredCall_Push
  <2>2. GuardedAt(m) /\ Pushing(t, m)
    BY <1>3, <2>1 DEF CallbacksGuarded, Pushing, DeferredCall_Push
  <2>3. owner[m] = t /\ t # None
    BY <2>2 DEF GuardedAt
  <2>4. depth[m] \in Nat \ {0}
    BY <2>2, <2>3 DEF GuardedAt
  <2>5. /\ callbacks' = [callbacks EXCEPT ![m] = Append(@, a)]
        /\ accepted' = [accepted EXCEPT ![m] = Append(@, a)]
        /\ owner' = [owner EXCEPT ![m] = IF depth[m] = 1 THEN None ELSE @]
        /\ depth' = [depth EXCEPT ![m] = @ - 1]
        /\ at' = [at EXCEPT ![t] = "trigger"]
        /\ UNCHANGED <<phase, index, active, exitFlag, dst, arg, executed>>
    BY <1>3, <2>1 DEF DeferredCall_Push, Unlock
  <2>6. TypeOK'
    BY <2>4, <2>5
  <2>7. CallShape'
    BY <1>3, <2>5 DEF DeferredCall_Push
  <2> QED
    BY <2>6, <2>7
<1>4. ASSUME NEW t \in Threads, DeferredCall_Trigger(t) PROVE TypeInv'
  BY <1>4 DEF DeferredCall_Trigger
<1>5. ASSUME NEW l \in Loops, Run(l) PROVE TypeInv'
  BY <1>5 DEF Run
<1>6. ASSUME NEW l \in Loops, DeferredEventCb(l) PROVE TypeInv'
  BY <1>6 DEF DeferredEventCb
<1>7. ASSUME NEW l \in Loops, FireDeferredEvent_Lock(l) PROVE TypeInv'
  BY <1>7, SMTT(40) DEF FireDeferredEvent_Lock, Lock, CanLock
<1>8. ASSUME NEW l \in Loops, FireDeferredEvent_Call(l) PROVE TypeInv'
  BY <1>8 DEF FireDeferredEvent_Call
<1>9. ASSUME NEW l \in Loops, FireDeferredEvent_Return(l) PROVE TypeInv'
  BY <1>9 DEF FireDeferredEvent_Return
<1>10. ASSUME NEW l \in Loops, FireDeferredEvent_Clear(l) PROVE TypeInv'
  <2>1. GuardedAt(l)
    BY DEF CallbacksGuarded
  <2>2. depth[l] \in Nat \ {0}
    BY <1>10, <2>1 DEF FireDeferredEvent_Clear, GuardedAt, Firing
  <2> QED
    BY <1>10, <2>2 DEF FireDeferredEvent_Clear, Unlock
<1>11. ASSUME NEW l \in Loops, Stop(l) PROVE TypeInv'
  BY <1>11 DEF Stop
<1>12. ASSUME NEW l \in Loops, Dispatch_Exit(l) PROVE TypeInv'
  BY <1>12 DEF Dispatch_Exit
<1>13. CASE UNCHANGED vars
  BY <1>13 DEF vars
<1> QED
  BY <1>1, <1>2, <1>3, <1>4, <1>5, <1>6, <1>7, <1>8, <1>9, <1>10, <1>11,
     <1>12, <1>13 DEF Next, CallStep, LoopStep

-----------------------------------------------------------------------------
LEMMA InitGuarded == Init => CallbacksGuarded
BY DEF Init, CallbacksGuarded, GuardedAt, Firing, Pushing

LEMMA NextGuarded ==
  TypeInv /\ CallbacksGuarded /\ [Next]_vars => CallbacksGuarded'
<1> SUFFICES ASSUME TypeInv, CallbacksGuarded, [Next]_vars, NEW k \in Loops
             PROVE GuardedAt(k)'
  BY DEF CallbacksGuarded
<1>0. GuardedAt(k)
  BY DEF CallbacksGuarded
<1> USE <1>0, ThreadsAssumption, NoneAssumption
    DEF TypeInv, TypeOK, CallShape, GuardedAt, Firing, Pushing, Nesting
<1>1. ASSUME NEW t \in Threads, NEW l \in Loops, NEW j \in Jobs,
             DeferredCall(t, l, j)
      PROVE GuardedAt(k)'
  BY <1>1, ZenonT(40) DEF DeferredCall, MayCall
<1>2. ASSUME NEW t \in Threads, DeferredCall_Lock(t) PROVE GuardedAt(k)'
  <2>1. PICK m \in Loops : m = dst[t]
    BY <1>2 DEF DeferredCall_Lock
  <2>2. CASE m = k
    <3>1. ~ Pushing(t, k)
      BY <1>2 DEF DeferredCall_Lock
    <3>2. /\ Firing(k)' <=> Firing(k)
          /\ \A u \in Threads : Pushing(u, k)' <=> (u = t \/ Pushing(u, k))
      BY <1>2, <2>1, <2>2 DEF DeferredCall_Lock
    <3>3. owner'[k] = t /\ depth'[k] = depth[k] + 1 /\ owner[k] \in {None, t}
      BY <1>2, <2>1, <2>2 DEF DeferredCall_Lock, Lock, CanLock
    <3>4. Nesting(t, k)' = Nesting(t, k) + 1
      BY <3>1, <3>2
    <3>5. depth[k] = Nesting(t, k)
      BY <3>1, <3>3, SMTT(30)
    <3>6. Nesting(t, k) \in Nat
      BY SMTT(30)
    <3>7. \A u \in Threads : Pushing(u, k)' => u = t
      BY <3>2, <3>3, SMTT(30)
    <3>8. Firing(k)' => k = t
      BY <3>2, <3>3
    <3> HIDE DEF Nesting, Pushing, Firing
    <3> QED
      BY <3>3, <3>4, <3>5, <3>6, <3>7, <3>8, SMTT(30)
  <2>3. CASE m # k
    BY <1>2, <2>1, <2>3, SMTT(30) DEF DeferredCall_Lock, Lock
  <2> QED
    BY <2>2, <2>3
<1>3. ASSUME NEW t \in Threads, DeferredCall_Push(t) PROVE GuardedAt(k)'
  <2>1. PICK m \in Loops : m = dst[t]
    BY <1>3 DEF DeferredCall_Push
  <2>2. CASE m = k
    <3>1. Pushing(t, k) /\ owner[k] = t
      BY <1>3, <2>1, <2>2 DEF DeferredCall_Push
    <3>2. (Firing(k)' <=> Firing(k)) /\ \A u \in Threads : ~ Pushing(u, k)'
      BY <1>3, <2>1, <2>2, <3>1 DEF DeferredCall_Push
    <3>3. owner'[k] = (IF depth[k] = 1 THEN None ELSE t) /\ depth'[k] = depth[k] - 1
      BY <1>3, <2>1, <2>2, <3>1 DEF DeferredCall_Push, Unlock
    <3> QED
      BY <3>1, <3>2, <3>3, SMTT(30)
  <2>3. CASE m # k
    <3>1. /\ Firing(k)' <=> Firing(k)
          /\ \A u \in Threads : Pushing(u, k)' <=> Pushing(u, k)
      BY <1>3, <2>1, <2>3 DEF DeferredCall_Push
    <3>2. owner'[k] = owner[k] /\ depth'[k] = depth[k]
      BY <1>3, <2>1, <2>3 DEF DeferredCall_Push, Unlock
    <3> QED
      BY <3>1, <3>2, SMTT(30)
  <2> QED
    BY <2>2, <2>3
<1>4. ASSUME NEW t \in Threads, DeferredCall_Trigger(t) PROVE GuardedAt(k)'
  BY <1>4 DEF DeferredCall_Trigger
<1>5. ASSUME NEW l \in Loops, Run(l) PROVE GuardedAt(k)'
  BY <1>5 DEF Run
<1>6. ASSUME NEW l \in Loops, DeferredEventCb(l) PROVE GuardedAt(k)'
  BY <1>6 DEF DeferredEventCb
<1>7. ASSUME NEW l \in Loops, FireDeferredEvent_Lock(l) PROVE GuardedAt(k)'
  BY <1>7, SMTT(30) DEF FireDeferredEvent_Lock, Lock, CanLock
<1>8. ASSUME NEW l \in Loops, FireDeferredEvent_Call(l) PROVE GuardedAt(k)'
  BY <1>8 DEF FireDeferredEvent_Call
<1>9. ASSUME NEW l \in Loops, FireDeferredEvent_Return(l) PROVE GuardedAt(k)'
  BY <1>9 DEF FireDeferredEvent_Return
<1>10. ASSUME NEW l \in Loops, FireDeferredEvent_Clear(l) PROVE GuardedAt(k)'
  <2>1. CASE l = k
    <3>1. Firing(k) /\ owner[k] = k /\ at[k] = "out"
      BY <1>10, <2>1 DEF FireDeferredEvent_Clear
    <3>2. depth[k] = 1
      BY <3>1
    <3> QED
      BY <1>10, <2>1, <3>1, <3>2 DEF FireDeferredEvent_Clear, Unlock
  <2>2. CASE l # k
    BY <1>10, <2>2 DEF FireDeferredEvent_Clear, Unlock
  <2> QED
    BY <2>1, <2>2
<1>11. ASSUME NEW l \in Loops, Stop(l) PROVE GuardedAt(k)'
  BY <1>11 DEF Stop
<1>12. ASSUME NEW l \in Loops, Dispatch_Exit(l) PROVE GuardedAt(k)'
  BY <1>12 DEF Dispatch_Exit
<1>13. CASE UNCHANGED vars
  BY <1>13 DEF vars
<1> QED
  BY <1>1, <1>2, <1>3, <1>4, <1>5, <1>6, <1>7, <1>8, <1>9, <1>10, <1>11,
     <1>12, <1>13 DEF Next, CallStep, LoopStep

(* Types and locking discipline, which are inductive together. *)
LEMMA SafetyBase == Spec => [](TypeInv /\ CallbacksGuarded)
BY InitTypeInv, NextTypeInv, InitGuarded, NextGuarded, PTL DEF Spec

(* Every variable keeps its type in every behaviour of the deferred-call    *)
(* machinery.                                                               *)
THEOREM TypeCorrect == Spec => []TypeOK
<1>1. TypeInv => TypeOK
  BY DEF TypeInv
<1> QED
  BY SafetyBase, <1>1, PTL

(* deferredCall and fireDeferredEvent touch deferredCallbacks_ only under   *)
(* lockDeferredCaller_, whose depth is the nesting of its owner's calls.    *)
THEOREM CallbacksAlwaysGuarded == Spec => []CallbacksGuarded
BY SafetyBase, PTL

-----------------------------------------------------------------------------
LEMMA InitWakeup == Init => NoLostWakeup
BY DEF Init, NoLostWakeup

LEMMA NextWakeup == TypeInv /\ NoLostWakeup /\ [Next]_vars => NoLostWakeup'
<1> SUFFICES ASSUME TypeInv, NoLostWakeup, [Next]_vars, NEW k \in Loops,
                    callbacks'[k] # <<>>
             PROVE WillWake(k)'
  BY DEF NoLostWakeup
<1> USE ThreadsAssumption, NoneAssumption
    DEF TypeInv, TypeOK, CallShape, NoLostWakeup, WillWake
<1>1. ASSUME NEW t \in Threads, NEW l \in Loops, NEW j \in Jobs,
             DeferredCall(t, l, j)
      PROVE WillWake(k)'
  BY <1>1 DEF DeferredCall
<1>2. ASSUME NEW t \in Threads, DeferredCall_Lock(t) PROVE WillWake(k)'
  BY <1>2 DEF DeferredCall_Lock
<1>3. ASSUME NEW t \in Threads, DeferredCall_Push(t) PROVE WillWake(k)'
  <2>1. PICK m \in Loops : m = dst[t]
    BY <1>3 DEF DeferredCall_Push
  <2>2. CASE m = k
    BY <1>3, <2>1, <2>2 DEF DeferredCall_Push
  <2>3. CASE m # k
    <3>1. callbacks[k] # <<>>
      BY <1>3, <2>1, <2>3 DEF DeferredCall_Push
    <3> QED
      BY <1>3, <2>1, <2>3, <3>1 DEF DeferredCall_Push
  <2> QED
    BY <2>2, <2>3
<1>4. ASSUME NEW t \in Threads, DeferredCall_Trigger(t) PROVE WillWake(k)'
  <2>1. PICK m \in Loops : m = dst[t]
    BY <1>4 DEF DeferredCall_Trigger
  <2>2. WillWake(k)
    BY <1>4 DEF DeferredCall_Trigger
  <2>3. CASE m = k
    BY <1>4, <2>1, <2>3 DEF DeferredCall_Trigger
  <2>4. CASE m # k
    <3>1. ASSUME NEW u \in Threads, at[u] = "trigger", dst[u] = k
          PROVE at'[u] = "trigger" /\ dst'[u] = k
      BY <1>4, <2>1, <2>4, <3>1 DEF DeferredCall_Trigger
    <3>2. active'[k] = active[k] /\ phase'[k] = phase[k]
      BY <1>4, <2>1, <2>4 DEF DeferredCall_Trigger
    <3> QED
      BY <2>2, <3>1, <3>2
  <2> QED
    BY <2>3, <2>4
<1>5. ASSUME NEW l \in Loops, Run(l) PROVE WillWake(k)'
  BY <1>5 DEF Run
<1>6. ASSUME NEW l \in Loops, DeferredEventCb(l) PROVE WillWake(k)'
  BY <1>6 DEF DeferredEventCb
<1>7. ASSUME NEW l \in Loops, FireDeferredEvent_Lock(l) PROVE WillWake(k)'
  BY <1>7 DEF FireDeferredEvent_Lock
<1>8. ASSUME NEW l \in Loops, FireDeferredEvent_Call(l) PROVE WillWake(k)'
  BY <1>8 DEF FireDeferredEvent_Call
<1>9. ASSUME NEW l \in Loops, FireDeferredEvent_Return(l) PROVE WillWake(k)'
  BY <1>9 DEF FireDeferredEvent_Return
<1>10. ASSUME NEW l \in Loops, FireDeferredEvent_Clear(l) PROVE WillWake(k)'
  BY <1>10 DEF FireDeferredEvent_Clear
<1>11. ASSUME NEW l \in Loops, Stop(l) PROVE WillWake(k)'
  BY <1>11 DEF Stop
<1>12. ASSUME NEW l \in Loops, Dispatch_Exit(l) PROVE WillWake(k)'
  BY <1>12 DEF Dispatch_Exit
<1>13. CASE UNCHANGED vars
  BY <1>13 DEF vars
<1> QED
  BY <1>1, <1>2, <1>3, <1>4, <1>5, <1>6, <1>7, <1>8, <1>9, <1>10, <1>11,
     <1>12, <1>13 DEF Next, CallStep, LoopStep

(* No lost wakeup: calls waiting in deferredCallbacks_ of a loop that is not *)
(* firing have an activation of the deferred event on the way, whatever the *)
(* interleaving of deferredCall and fireDeferredEvent.                      *)
THEOREM WakeupNeverLost == Spec => []NoLostWakeup
BY SafetyBase, InitWakeup, NextWakeup, PTL DEF Spec

-----------------------------------------------------------------------------
(* Where the vector stands in the history: it holds the calls accepted last; *)
(* those before it, and the first index[l] of it, have been begun.          *)
Base(l) == Len(accepted[l]) - Len(callbacks[l])

QueueAt(l) ==
  /\ Len(callbacks[l]) <= Len(accepted[l])
  /\ index[l] <= Len(callbacks[l])
  /\ ~ Firing(l) => index[l] = 0
  /\ Len(executed[l]) = Base(l) + index[l]
  /\ \A i \in 1..Len(callbacks[l]) : callbacks[l][i] = accepted[l][Base(l) + i]

QueueInv == \A l \in Loops : QueueAt(l)

(* The length of a sequence. *)
LEMMA LengthIsNat == ASSUME NEW S, NEW s \in Seq(S) PROVE Len(s) \in Nat
  OBVIOUS

(* An index into the vector is an index into the history, shifted. *)
LEMMA ShiftedIndex ==
  \A x, y \in Nat : \A i \in 1..x : x <= y => (y - x) + i \in 1..y
OBVIOUS

LEMMA InitQueue == Init => QueueInv
<1> SUFFICES ASSUME Init, NEW l \in Loops PROVE QueueAt(l)
  BY DEF QueueInv
<1>1. /\ callbacks[l] = <<>> /\ accepted[l] = <<>> /\ executed[l] = <<>>
      /\ index[l] = 0
  BY DEF Init
<1> QED
  BY <1>1 DEF QueueAt, Base

LEMMA NextQueue == TypeInv /\ QueueInv /\ [Next]_vars => QueueInv'
<1> SUFFICES ASSUME TypeInv, QueueInv, [Next]_vars, NEW k \in Loops
             PROVE QueueAt(k)'
  BY DEF QueueInv
<1>0. QueueAt(k)
  BY DEF QueueInv
<1> USE <1>0, ThreadsAssumption, NoneAssumption
    DEF TypeInv, TypeOK, CallShape, QueueAt, Base, Firing
<1>1. ASSUME NEW t \in Threads, NEW l \in Loops, NEW j \in Jobs,
             DeferredCall(t, l, j)
      PROVE QueueAt(k)'
  BY <1>1 DEF DeferredCall
<1>2. ASSUME NEW t \in Threads, DeferredCall_Lock(t) PROVE QueueAt(k)'
  BY <1>2 DEF DeferredCall_Lock
<1>3. ASSUME NEW t \in Threads, DeferredCall_Push(t) PROVE QueueAt(k)'
  <2>1. PICK m \in Loops, a \in Jobs : m = dst[t] /\ a = arg[t]
    BY <1>3 DEF DeferredCall_Push
  <2>2. CASE m = k
    <3>1. /\ callbacks'[k] = Append(callbacks[k], a)
          /\ accepted'[k] = Append(accepted[k], a)
          /\ UNCHANGED <<phase, index, executed>>
      BY <1>3, <2>1, <2>2 DEF DeferredCall_Push
    <3>2. callbacks[k] \in Seq(Jobs) /\ accepted[k] \in Seq(Jobs)
      OBVIOUS
    <3>3. /\ Len(callbacks'[k]) = Len(callbacks[k]) + 1
          /\ Len(accepted'[k]) = Len(accepted[k]) + 1
      BY <3>1, <3>2
    <3>4. Base(k)' = Base(k)
      BY <3>2, <3>3
    <3>5. ASSUME NEW i \in 1..Len(callbacks'[k])
          PROVE callbacks'[k][i] = accepted'[k][Base(k)' + i]
      <4>1. Base(k) \in Nat
        BY <3>2
      <4>2. CASE i = Len(callbacks[k]) + 1
        <5>1. Base(k) + i = Len(accepted[k]) + 1
          BY <3>2, <4>2
        <5>2. callbacks'[k][i] = a /\ accepted'[k][Base(k) + i] = a
          BY <3>1, <3>2, <4>2, <5>1
        <5> QED
          BY <3>4, <5>2
      <4>3. CASE i \in 1..Len(callbacks[k])
        <5>1. Base(k) + i \in 1..Len(accepted[k])
          <6>0. Len(callbacks[k]) \in Nat /\ Len(accepted[k]) \in Nat
            BY <3>2, LengthIsNat, Zenon
          <6>1. PICK x \in Nat, y \in Nat : x = Len(callbacks[k]) /\ y = Len(accepted[k])
            BY <6>0, Zenon
          <6>2. Base(k) = y - x /\ x <= y /\ i \in 1..x
            BY <4>3, <6>1
          <6>3. (y - x) + i \in 1..y
            BY <6>2, ShiftedIndex
          <6> QED
            BY <6>1, <6>2, <6>3
        <5>2. /\ callbacks'[k][i] = callbacks[k][i]
              /\ accepted'[k][Base(k) + i] = accepted[k][Base(k) + i]
          BY <3>1, <3>2, <4>3, <5>1
        <5>3. callbacks[k][i] = accepted[k][Base(k) + i]
          BY <4>3
        <5> HIDE <1>0
        <5> HIDE DEF Base, TypeInv
        <5> QED
          BY <3>4, <5>2, <5>3
      <4> QED
        BY <3>2, <3>3, <4>2, <4>3, SMTT(30)
    <3>6. /\ Len(callbacks'[k]) <= Len(accepted'[k])
          /\ index'[k] <= Len(callbacks'[k])
          /\ Firing(k)' <=> Firing(k)
          /\ Len(executed'[k]) = Base(k)' + index'[k]
      BY <3>1, <3>2, <3>3, <3>4
    <3> HIDE DEF Base, Firing, TypeInv
    <3> QED
      BY <3>1, <3>5, <3>6
  <2>3. CASE m # k
    BY <1>3, <2>1, <2>3 DEF DeferredCall_Push
  <2> QED
    BY <2>2, <2>3
<1>4. ASSUME NEW t \in Threads, DeferredCall_Trigger(t) PROVE QueueAt(k)'
  BY <1>4 DEF DeferredCall_Trigger
<1>5. ASSUME NEW l \in Loops, Run(l) PROVE QueueAt(k)'
  BY <1>5 DEF Run
<1>6. ASSUME NEW l \in Loops, DeferredEventCb(l) PROVE QueueAt(k)'
  BY <1>6 DEF DeferredEventCb
<1>7. ASSUME NEW l \in Loops, FireDeferredEvent_Lock(l) PROVE QueueAt(k)'
  BY <1>7 DEF FireDeferredEvent_Lock
<1>8. ASSUME NEW l \in Loops, FireDeferredEvent_Call(l) PROVE QueueAt(k)'
  BY <1>8, SMTT(40) DEF FireDeferredEvent_Call
<1>9. ASSUME NEW l \in Loops, FireDeferredEvent_Return(l) PROVE QueueAt(k)'
  BY <1>9 DEF FireDeferredEvent_Return
<1>10. ASSUME NEW l \in Loops, FireDeferredEvent_Clear(l) PROVE QueueAt(k)'
  <2>1. CASE l = k
    <3>1. callbacks'[k] = <<>> /\ index'[k] = 0 /\ UNCHANGED histVars
      BY <1>10, <2>1 DEF FireDeferredEvent_Clear
    <3>2. index[k] = Len(callbacks[k])
      BY <1>10, <2>1 DEF FireDeferredEvent_Clear
    <3> QED
      BY <3>1, <3>2
  <2>2. CASE l # k
    BY <1>10, <2>2 DEF FireDeferredEvent_Clear
  <2> QED
    BY <2>1, <2>2
<1>11. ASSUME NEW l \in Loops, Stop(l) PROVE QueueAt(k)'
  BY <1>11 DEF Stop
<1>12. ASSUME NEW l \in Loops, Dispatch_Exit(l) PROVE QueueAt(k)'
  BY <1>12 DEF Dispatch_Exit
<1>13. CASE UNCHANGED vars
  BY <1>13 DEF vars
<1> QED
  BY <1>1, <1>2, <1>3, <1>4, <1>5, <1>6, <1>7, <1>8, <1>9, <1>10, <1>11,
     <1>12, <1>13 DEF Next, CallStep, LoopStep

(* A step of the machinery is a step of the abstract queue, or leaves it    *)
(* alone: push_back accepts, the loop test that holds executes.             *)
LEMMA StepRefines == TypeInv /\ QueueInv /\ [Next]_vars => [Q!QNext]_(Q!qvars)
<1> SUFFICES ASSUME TypeInv, QueueInv, [Next]_vars
             PROVE Q!QNext \/ UNCHANGED histVars
  BY DEF Q!qvars
<1> USE DEF TypeInv, TypeOK, CallShape
<1>1. ASSUME NEW t \in Threads, DeferredCall_Push(t)
      PROVE Q!QNext
  <2>1. PICK m \in Loops, a \in Jobs : m = dst[t] /\ a = arg[t]
    BY <1>1 DEF DeferredCall_Push
  <2>2. Q!Accept(m, a)
    BY <1>1, <2>1 DEF DeferredCall_Push, Q!Accept
  <2> QED
    BY <2>2 DEF Q!QNext
<1>2. ASSUME NEW l \in Loops, FireDeferredEvent_Call(l)
      PROVE Q!QNext
  <2>1. QueueAt(l)
    BY DEF QueueInv
  <2>2. index[l] + 1 \in 1..Len(callbacks[l])
    BY <1>2, <2>1 DEF FireDeferredEvent_Call, QueueAt
  <2>3. /\ Len(executed[l]) < Len(accepted[l])
        /\ callbacks[l][index[l] + 1] = accepted[l][Len(executed[l]) + 1]
    BY <2>1, <2>2 DEF QueueAt, Base
  <2>4. Q!Execute(l)
    BY <1>2, <2>3 DEF FireDeferredEvent_Call, Q!Execute
  <2> QED
    BY <2>4 DEF Q!QNext
<1>3. ASSUME NEW t \in Threads,
             \/ DeferredCall_Lock(t)
             \/ DeferredCall_Trigger(t)
             \/ \E l \in Loops, j \in Jobs : DeferredCall(t, l, j)
      PROVE UNCHANGED histVars
  BY <1>3 DEF DeferredCall_Lock, DeferredCall_Trigger, DeferredCall
<1>4. ASSUME NEW l \in Loops,
             \/ Run(l) \/ DeferredEventCb(l) \/ FireDeferredEvent_Lock(l)
             \/ FireDeferredEvent_Return(l) \/ FireDeferredEvent_Clear(l)
             \/ Dispatch_Exit(l) \/ Stop(l)
      PROVE UNCHANGED histVars
  BY <1>4 DEF Run, DeferredEventCb, FireDeferredEvent_Lock, Dispatch_Exit,
     FireDeferredEvent_Return, FireDeferredEvent_Clear, Stop
<1>5. CASE UNCHANGED vars
  BY <1>5 DEF vars
<1> QED
  BY <1>1, <1>2, <1>3, <1>4, <1>5 DEF Next, CallStep, LoopStep

(* deferredCall and fireDeferredEvent implement the abstract queue: every   *)
(* loop begins the calls it accepted, each once, in order.                  *)
THEOREM DeferredCallsAreFifo == Spec => FifoExactlyOnce
<1>1. Init => Q!QInit
  BY DEF Init, Q!QInit
<1> QED
  BY SafetyBase, InitQueue, NextQueue, StepRefines, <1>1, PTL
     DEF Spec, FifoExactlyOnce, Q!QSpec

-----------------------------------------------------------------------------
(* A loop's thread that is inside deferredCall from a callback has called   *)
(* its own loop or one that CrossPost allows.                               *)
MayPost(l, m) == m = l \/ <<l, m>> \in CrossPost
PostsAllowed == \A l \in Loops : phase[l] = "run" /\ at[l] # "out" => MayPost(l, dst[l])

LEMMA NextPostsAllowed == TypeInv /\ PostsAllowed /\ [Next]_vars => PostsAllowed'
<1> SUFFICES ASSUME TypeInv, PostsAllowed, [Next]_vars, NEW k \in Loops,
                    phase'[k] = "run", at'[k] # "out"
             PROVE MayPost(k, dst'[k])
  BY DEF PostsAllowed
<1> USE ThreadsAssumption, NoneAssumption
    DEF TypeInv, TypeOK, CallShape, PostsAllowed
<1>1. ASSUME NEW t \in Threads, NEW l \in Loops, NEW j \in Jobs,
             DeferredCall(t, l, j)
      PROVE MayPost(k, dst'[k])
  BY <1>1, ZenonT(40) DEF DeferredCall, MayCall, MayPost
<1>2. ASSUME NEW t \in Threads, DeferredCall_Lock(t) PROVE MayPost(k, dst'[k])
  BY <1>2 DEF DeferredCall_Lock
<1>3. ASSUME NEW t \in Threads, DeferredCall_Push(t) PROVE MayPost(k, dst'[k])
  BY <1>3 DEF DeferredCall_Push
<1>4. ASSUME NEW t \in Threads, DeferredCall_Trigger(t) PROVE MayPost(k, dst'[k])
  BY <1>4 DEF DeferredCall_Trigger
<1>5. ASSUME NEW l \in Loops, Run(l) PROVE MayPost(k, dst'[k])
  BY <1>5 DEF Run
<1>6. ASSUME NEW l \in Loops, DeferredEventCb(l) PROVE MayPost(k, dst'[k])
  BY <1>6 DEF DeferredEventCb
<1>7. ASSUME NEW l \in Loops, FireDeferredEvent_Lock(l) PROVE MayPost(k, dst'[k])
  BY <1>7 DEF FireDeferredEvent_Lock
<1>8. ASSUME NEW l \in Loops, FireDeferredEvent_Call(l) PROVE MayPost(k, dst'[k])
  BY <1>8 DEF FireDeferredEvent_Call
<1>9. ASSUME NEW l \in Loops, FireDeferredEvent_Return(l) PROVE MayPost(k, dst'[k])
  BY <1>9 DEF FireDeferredEvent_Return
<1>10. ASSUME NEW l \in Loops, FireDeferredEvent_Clear(l) PROVE MayPost(k, dst'[k])
  BY <1>10 DEF FireDeferredEvent_Clear
<1>11. ASSUME NEW l \in Loops, Stop(l) PROVE MayPost(k, dst'[k])
  BY <1>11 DEF Stop
<1>12. ASSUME NEW l \in Loops, Dispatch_Exit(l) PROVE MayPost(k, dst'[k])
  BY <1>12 DEF Dispatch_Exit
<1>13. CASE UNCHANGED vars
  BY <1>13 DEF vars
<1> QED
  BY <1>1, <1>2, <1>3, <1>4, <1>5, <1>6, <1>7, <1>8, <1>9, <1>10, <1>11,
     <1>12, <1>13 DEF Next, CallStep, LoopStep

(* A thread that holds a mutex and waits for another one is the thread of   *)
(* the loop whose mutex it holds, inside of a deferred callback.            *)
LEMMA WaitingHolder ==
  ASSUME TypeInv, CallbacksGuarded, NEW l \in Loops, NEW h \in Threads, NEW u \in Threads,
         owner[l] = h, WaitsFor(h, u)
  PROVE  h = l /\ phase[l] = "run" /\ at[l] = "lock"
<1> USE ThreadsAssumption, NoneAssumption DEF TypeInv, TypeOK, CallShape
<1>1. GuardedAt(l) /\ h # None
  BY DEF CallbacksGuarded
<1>2. (h = l /\ Firing(l)) \/ Pushing(h, l)
  BY <1>1 DEF GuardedAt, Nesting
<1>3. CASE at[h] = "lock"
  BY <1>2, <1>3 DEF Pushing, Firing
<1>4. CASE h \in Loops /\ phase[h] = "lock"
  BY <1>2, <1>4 DEF Pushing, Firing
<1> QED
  BY <1>3, <1>4 DEF WaitsFor

(* Inside of a callback it does not wait for its own loop.                  *)
LEMMA WaitsForAnother ==
  ASSUME TypeInv, CallbacksGuarded, PostsAllowed, NEW l \in Loops, NEW u \in Threads,
         phase[l] = "run", at[l] = "lock", WaitsFor(l, u)
  PROVE  owner[dst[l]] = u /\ dst[l] # l /\ <<l, dst[l]>> \in CrossPost /\ dst[l] \in Loops
<1> USE ThreadsAssumption, NoneAssumption DEF TypeInv, TypeOK, CallShape
<1>1. ~ CanLock(l, dst[l]) /\ owner[dst[l]] = u
  BY DEF WaitsFor
<1>2. owner[l] = l
  BY DEF CallbacksGuarded, GuardedAt, Firing
<1>3. dst[l] # l
  BY <1>1, <1>2 DEF CanLock
<1> QED
  BY <1>1, <1>3, CrossPostAssumption DEF PostsAllowed, MayPost

LEMMA HolderDoesNotWait ==
  ASSUME CrossPost = {}
  PROVE  TypeInv /\ CallbacksGuarded /\ PostsAllowed => HoldersNeverWait
<1> SUFFICES ASSUME TypeInv, CallbacksGuarded, PostsAllowed,
                    NEW l \in Loops, NEW u \in Threads, NEW h \in Threads,
                    owner[l] = h, WaitsFor(h, u)
             PROVE FALSE
  BY DEF HoldersNeverWait
<1>1. h = l /\ phase[l] = "run" /\ at[l] = "lock"
  BY WaitingHolder
<1>2. <<l, dst[l]>> \in CrossPost
  BY <1>1, WaitsForAnother
<1> QED BY <1>2

(* The invariant about the targets holds in every state. *)
LEMMA PostsAlwaysAllowed == Spec => []PostsAllowed
<1>1. Init => PostsAllowed
  BY DEF Init, PostsAllowed
<1> QED
  BY SafetyBase, <1>1, NextPostsAllowed, PTL DEF Spec

(* As long as deferred callbacks call deferredCall on their own loop only,  *)
(* no thread waits for a lockDeferredCaller_ while it holds one.            *)
THEOREM NoHoldAndWait ==
  ASSUME CrossPost = {}
  PROVE Spec => []HoldersNeverWait
<1> QED
  BY SafetyBase, PostsAlwaysAllowed, HolderDoesNotWait, PTL

(* Callbacks never post from loop to loop in a circle: there is no endless  *)
(* chain of loops l1, l2, ... in which each may post to the next one.       *)
PostedBy == {p \in Loops \X Loops : p[1] # p[2] /\ <<p[2], p[1]>> \in CrossPost}
NoCircle == IsWellFoundedOn(PostedBy, Loops)

(* Then no set of threads ever waits for itself: of the loops in such a     *)
(* set whose threads wait inside of a callback, one would post to none of   *)
(* the others, but it waits for the loop that it posts to, and that loop    *)
(* is one of them.                                                          *)
LEMMA CircleOfWaiters ==
  ASSUME NoCircle
  PROVE  TypeInv /\ CallbacksGuarded /\ PostsAllowed => NoDeadlockedSet
<1> SUFFICES ASSUME TypeInv, CallbacksGuarded, PostsAllowed,
                    NEW S \in (SUBSET Threads) \ {{}},
                    \A t \in S : \E u \in S : WaitsFor(t, u)
             PROVE FALSE
  BY DEF NoDeadlockedSet
<1> DEFINE H == {l \in Loops \cap S : phase[l] = "run" /\ at[l] = "lock"}
<1>1. ASSUME NEW t \in S, NEW u \in S, NEW l \in Loops, owner[l] = u
      PROVE  u = l /\ u \in H
  <2>1. PICK v \in S : WaitsFor(u, v)
    OBVIOUS
  <2>2. u = l /\ phase[l] = "run" /\ at[l] = "lock"
    BY <1>1, <2>1, WaitingHolder
  <2> QED BY <2>2
<1>2. H # {}
  <2>1. PICK t \in S : TRUE
    OBVIOUS
  <2>2. PICK u \in S : WaitsFor(t, u)
    OBVIOUS
  <2>3. PICK l \in Loops : owner[l] = u
    BY <2>2 DEF WaitsFor, TypeInv, TypeOK, CallShape
  <2> QED BY <1>1, <2>1, <2>3
<1>3. PICK x \in H : \A y \in H : <<y, x>> \notin PostedBy
  <2>1. H \subseteq Loops
    OBVIOUS
  <2> HIDE DEF H
  <2> QED BY <1>2, <2>1, WFMin DEF NoCircle
<1>4. PICK v \in S : WaitsFor(x, v)
  BY <1>3
<1>5. owner[dst[x]] = v /\ dst[x] # x /\ <<x, dst[x]>> \in CrossPost /\ dst[x] \in Loops
  BY <1>3, <1>4, WaitsForAnother
<1>6. dst[x] \in H
  BY <1>1, <1>3, <1>5
<1>7. <<dst[x], x>> \in PostedBy
  BY <1>5, <1>3 DEF PostedBy
<1> QED BY <1>3, <1>6, <1>7

(* As long as deferred callbacks do not post in a circle, no set of threads *)
(* ever waits for itself on the mutexes lockDeferredCaller_.                *)
THEOREM DeadlockFree ==
  ASSUME NoCircle
  PROVE Spec => []NoDeadlockedSet
<1> QED
  BY SafetyBase, PostsAlwaysAllowed, CircleOfWaiters, PTL

-----------------------------------------------------------------------------
(* The container *)

HIDE DEF Threads, Phases, CallSteps, lockVars, callVars, histVars

(* The indices of run() and of every stop() are those of services. *)
IndexOK ==
  /\ runAt \in RunSteps /\ runIdx \in 1 .. Len(ioservices)
  /\ stopIdx \in [Threads -> 0 .. Len(ioservices)]

(* The services that have been joined have ended. *)
Joined == runAt = "join" => \A i \in 1 .. (runIdx - 1) : phase[ioservices[i]] = "exited"

(* The inductive invariant, beside the types of DeferredCaller. *)
CInv == IndexOK /\ Joined /\ NothingRunsAfterRun

-----------------------------------------------------------------------------
(* Every step of the container is a step of DeferredCaller or changes none  *)
(* of its variables.                                                        *)
LEMMA ContainerStep == IndexOK /\ [ContainerNext]_allVars => [Next]_vars
<1> SUFFICES ASSUME IndexOK, ContainerNext PROVE [Next]_vars
  BY DEF allVars
<1>1. CASE ContainerRun \/ MainStep
  BY <1>1 DEF ContainerRun, MainStep, StartThread, JoinThread
<1>2. CASE Posting
  BY <1>2 DEF Posting, Next
<1>3. ASSUME NEW t \in Threads, BeginStop(t) PROVE UNCHANGED vars
  BY <1>3 DEF BeginStop
<1>4. ASSUME NEW t \in Threads, StopService(t) PROVE [Next]_vars
  <2>1. ioservices[stopIdx[t]] \in Loops
    BY <1>4, ServicesAssumption DEF StopService, IndexOK
  <2> QED BY <1>4, <2>1 DEF StopService, Next
<1>5. ASSUME NEW t \in Threads, Calling(t) PROVE Next
  BY <1>5 DEF Calling, Next
<1>6. ASSUME NEW l \in Loops, Looping(l) PROVE Next
  BY <1>6 DEF Looping, Next
<1> QED BY <1>1, <1>2, <1>3, <1>4, <1>5, <1>6 DEF ContainerNext

(* A loop that has ended does not run again. *)
LEMMA ExitedStays ==
  ASSUME phase \in [Loops -> Phases], [Next]_vars, NEW l \in Loops, phase[l] = "exited"
  PROVE  phase'[l] = "exited"
<1>1. CASE UNCHANGED phase
  BY <1>1
<1>2. ASSUME NEW m \in Loops, LoopStep(m) PROVE phase'[l] = "exited"
  BY <1>2 DEF LoopStep, Run, DeferredEventCb, FireDeferredEvent_Lock, FireDeferredEvent_Call,
              FireDeferredEvent_Return, FireDeferredEvent_Clear, Dispatch_Exit
<1>3. ASSUME NEW t \in Threads, CallStep(t) PROVE UNCHANGED phase
  BY <1>3 DEF CallStep, DeferredCall_Lock, DeferredCall_Push, DeferredCall_Trigger
<1> QED BY <1>1, <1>2, <1>3 DEF Next, vars, DeferredCall, Stop

-----------------------------------------------------------------------------
(* Nothing has been joined in the initial state. *)
LEMMA InitCInv == ContainerInit => CInv
<1> SUFFICES ASSUME ContainerInit PROVE CInv
  OBVIOUS
<1>1. Len(ioservices) \in Nat \ {0}
  BY ServicesAssumption
<1>2. IndexOK
  BY <1>1 DEF ContainerInit, IndexOK, RunSteps
<1> QED BY <1>2 DEF ContainerInit, CInv, Joined, NothingRunsAfterRun

(* The indices stay in range, at the ends of the loops too. *)
LEMMA NextIndexOK == IndexOK /\ [ContainerNext]_allVars => IndexOK'
<1> SUFFICES ASSUME IndexOK, [ContainerNext]_allVars PROVE IndexOK'
  OBVIOUS
<1> USE DEF RunSteps
<1>2. Len(ioservices) \in Nat \ {0}
  BY ServicesAssumption
<1>3. CASE UNCHANGED cvars
  BY <1>3 DEF IndexOK, cvars
<1>4. CASE ContainerRun
  BY <1>4 DEF IndexOK, ContainerRun
<1>5. CASE MainStep
  BY <1>2, <1>5 DEF IndexOK, MainStep, StartThread, JoinThread, NextIndex
<1>6. ASSUME NEW t \in Threads, BeginStop(t) \/ StopService(t) PROVE IndexOK'
  <2>1. UNCHANGED <<runAt, runIdx>>
    BY <1>6 DEF BeginStop, StopService
  <2>2. stopIdx' \in [Threads -> 0 .. Len(ioservices)]
    BY <1>2, <1>6 DEF IndexOK, BeginStop, StopService
  <2> QED BY <2>1, <2>2 DEF IndexOK
<1> QED BY <1>3, <1>4, <1>5, <1>6 DEF ContainerNext, Posting, Calling, Looping, allVars, cvars

(* joinThread returns for the services in order, each after its loop has    *)
(* ended, and a loop that has ended does not start again.                   *)
LEMMA NextCInv == TypeOK /\ CInv /\ [ContainerNext]_allVars => CInv'
<1> SUFFICES ASSUME TypeOK, CInv, [ContainerNext]_allVars PROVE CInv'
  OBVIOUS
<1>1. IndexOK /\ IndexOK' /\ [Next]_vars
  BY NextIndexOK, ContainerStep DEF CInv
<1>2. \A l \in Loops : phase[l] = "exited" => phase'[l] = "exited"
  BY <1>1, ExitedStays DEF TypeOK
<1>3. Len(ioservices) \in Nat /\ \A i \in 1 .. Len(ioservices) : ioservices[i] \in Loops
  BY ServicesAssumption
<1>4. CASE UNCHANGED <<runAt, runIdx>>
  BY <1>1, <1>2, <1>3, <1>4 DEF CInv, IndexOK, Joined, NothingRunsAfterRun
<1>5. CASE ContainerRun
  BY <1>1, <1>5 DEF CInv, ContainerRun, Joined, NothingRunsAfterRun
<1>6. CASE StartThread
  <2>1. runAt' = "start" \/ (runAt' = "join" /\ runIdx' = 1)
    BY <1>6 DEF StartThread, NextIndex
  <2> QED BY <1>1, <2>1 DEF CInv, Joined, NothingRunsAfterRun
<1>7. CASE JoinThread
  <2>1. UNCHANGED phase
    BY <1>7 DEF JoinThread, vars
  <2>2. \A i \in 1 .. runIdx : phase[ioservices[i]] = "exited"
    BY <1>1, <1>7 DEF CInv, IndexOK, Joined, JoinThread
  <2>3. CASE runIdx < Len(ioservices)
    <3>1. runIdx' - 1 = runIdx /\ runAt' = "join"
      BY <1>1, <1>7, <2>3 DEF JoinThread, NextIndex, IndexOK
    <3> QED BY <1>1, <2>1, <2>2, <3>1 DEF CInv, Joined, NothingRunsAfterRun
  <2>4. CASE ~ (runIdx < Len(ioservices))
    <3>1. runAt' = "returned" /\ runIdx = Len(ioservices)
      BY <1>1, <1>3, <1>7, <2>4 DEF JoinThread, NextIndex, IndexOK
    <3>2. \A l \in Loops : phase'[l] = "exited"
      BY <2>1, <2>2, <3>1, ServicesAssumption
    <3> QED BY <1>1, <3>1, <3>2 DEF CInv, Joined, NothingRunsAfterRun
  <2> QED BY <2>3, <2>4
<1> QED BY <1>4, <1>5, <1>6, <1>7
       DEF ContainerNext, MainStep, Posting, Calling, Looping, BeginStop, StopService, allVars, cvars

-----------------------------------------------------------------------------
(* The services of a container behave as DeferredCaller says, whatever      *)
(* run() and stop() do: what is proved of its Spec holds for them.          *)
THEOREM ContainerImplementsServices == ContainerSpec => Spec
<1>1. ContainerInit => Init /\ IndexOK
  BY InitCInv DEF ContainerInit, CInv
<1> QED BY <1>1, NextIndexOK, ContainerStep, PTL DEF ContainerSpec, Spec

(* run() returns after the loops of all services have ended, for any number *)
(* of services and of threads that call stop(), before, during and after    *)
(* run().                                                                   *)
THEOREM RunReturnsLast == ContainerSpec => []NothingRunsAfterRun
<1>1. CInv => NothingRunsAfterRun
  BY DEF CInv
<1> QED BY <1>1, InitCInv, NextCInv, ContainerImplementsServices, TypeCorrect, PTL
       DEF ContainerSpec

(* Inside a container no set of threads waits in a circle for the mutexes   *)
(* of its services, if its callbacks do not post to services in a circle.   *)
THEOREM ContainerDeadlockFree ==
  ASSUME NoCircle
  PROVE  ContainerSpec => []NoDeadlockedSet
<1> QED BY ContainerImplementsServices, DeadlockFree, PTL
=============================================================================
