-------------------------------- MODULE Timer --------------------------------
(***************************************************************************)
(* A Timer object, LibeventTimerImpl.h: a map from ids to contexts, each   *)
(* with a libevent timer event, under the recursive mutex timerLock_,      *)
(* which the callback holds while the handler runs.  The handler may set   *)
(* and kill timers, and may use a socket, which takes the mutex of the     *)
(* IOService (ScopedIOServiceLock).  Other threads use sockets and the     *)
(* Timer too.                                                              *)
(*                                                                         *)
(* Every setTimer has a number; a context is named by the setTimer that    *)
(* allocated it.                                                           *)
(***************************************************************************)
EXTENDS Naturals, Sequences, SequencesExt

CONSTANTS Ids,       \* timer ids
          Others,    \* threads that do not run the loop
          Loop,      \* the thread that does
          MaxSets,   \* bound: calls of setTimer
          RemoteOps, \* what Others do with the Timer, see RemoteKinds
          None       \* nobody holds the mutex, no operation

(* "new": set a timer whose id is not in use.  "old": set it again or kill  *)
(* it.  "locked": do so inside of a ScopedIOServiceLock, as a socket does.  *)
RemoteKinds == {"new", "old", "locked"}

ASSUME TimerAssumption ==
  /\ MaxSets \in Nat /\ RemoteOps \subseteq RemoteKinds
  /\ Loop \notin Others /\ None \notin Others \cup {Loop} \cup Ids

Threads == Others \cup {Loop}
Settings == 1 .. MaxSets

VARIABLES
  mapTimers, \* mapTimers_: the context of an id, 0 for none
  context,   \* the contexts: id, repeat and the last setTimer
  pending,   \* contexts whose event waits for its timeout
  queue,     \* libevent's active queue: contexts whose timeout has passed
  firing,    \* the context that a callback is about to read, or 0
  phase,     \* where the loop's thread is, see Phases
  owner,     \* timerLock_
  depth,
  service,   \* who holds the mutex of the IOService
  op,        \* what a thread of Others is doing, see Ops
  sets,      \* the number of setTimers so far
  due,       \* history: settings whose own timeout has passed
  fired,     \* history: settings for which the handler was called
  live       \* history: the setting that counts for an id, 0 after killTimer

eventVars == <<context, pending, queue>>
lockVars == <<owner, depth>>
histVars == <<due, fired, live>>
vars == <<mapTimers, context, pending, queue, firing, phase, owner, depth,
          service, op, sets, due, fired, live>>

(* "lock": timer_cb waits for timerLock_; "handler": inside of the handler; *)
(* "socket" and "locked": the handler waits for and holds the mutex of the  *)
(* IOService; "last": that was its last act.                                *)
Phases == {"dispatch", "lock", "handler", "socket", "locked", "last"}

(* "socket": inside of a ScopedIOServiceLock; "set" and "kill": at timerLock_; *)
(* "wait": inside of event_del with timerLock_ held.                           *)
Ops == {"out", "socket", "set", "kill", "wait"}
NoContext == [id |-> None, repeat |-> FALSE, setting |-> 0]

Init ==
  /\ mapTimers = [i \in Ids |-> 0]
  /\ context = [c \in Settings |-> NoContext]
  /\ pending = {} /\ queue = <<>> /\ firing = 0 /\ phase = "dispatch"
  /\ owner = None /\ depth = 0 /\ service = None
  /\ op = [t \in Others |-> [kind |-> "out", id |-> None, repeat |-> FALSE]]
  /\ sets = 0 /\ due = {} /\ fired = {}
  /\ live = [i \in Ids |-> 0]

-----------------------------------------------------------------------------
(* The bodies of setTimer and killTimer, timerLock_ being held. *)

EventDel(c) == /\ pending' = pending \ {c}
               /\ queue' = RemoveFirst(queue, c)

(* evtimer_del and evtimer_add leave the event pending and not active.  The *)
(* mutations do without evtimer_del, so that an active event stays active,  *)
(* and without evtimer_add for an event that exists.                        *)
Rearm_NoDel(c) == pending' = pending \cup {c} /\ UNCHANGED queue
Rearm_NoAdd(c) ==
  /\ pending' = IF context[c] = NoContext THEN pending \cup {c} ELSE pending \ {c}
  /\ queue' = RemoveFirst(queue, c)
Rearm(c) == /\ pending' = pending \cup {c}
            /\ queue' = RemoveFirst(queue, c)

setTimer(id, repeat) ==
  LET s == sets + 1
      c == IF mapTimers[id] = 0 THEN s ELSE mapTimers[id]
  IN /\ sets < MaxSets
     /\ sets' = s
     /\ mapTimers' = [mapTimers EXCEPT ![id] = c]
     /\ context' = [context EXCEPT ![c] = [id |-> id, repeat |-> repeat, setting |-> s]]
     /\ Rearm(c)
     /\ live' = [live EXCEPT ![id] = s]
     /\ UNCHANGED <<due, fired>>

killTimer(id) ==
  /\ IF mapTimers[id] = 0 THEN UNCHANGED eventVars
     ELSE /\ EventDel(mapTimers[id])
          /\ context' = [context EXCEPT ![mapTimers[id]] = NoContext]
  /\ mapTimers' = [mapTimers EXCEPT ![id] = 0]
  /\ live' = [live EXCEPT ![id] = 0]
  /\ UNCHANGED <<sets, due, fired>>

CanLock(t) == owner \in {None, t}

-----------------------------------------------------------------------------
(* The loop's thread *)

(* External: the timeout of an event passes. *)
Timeout(c) ==
  /\ c \in pending
  /\ pending' = pending \ {c}
  /\ queue' = Append(queue, c)
  /\ due' = due \cup {context[c].setting}
  /\ UNCHANGED <<mapTimers, context, firing, phase, lockVars, service, op, sets, fired, live>>

(* timer_cb, as far as timerLock_ in fire_onTimer_Timer. *)
TimerCb ==
  /\ phase = "dispatch" /\ queue # <<>>
  /\ firing' = Head(queue) /\ queue' = Tail(queue) /\ phase' = "lock"
  /\ UNCHANGED <<mapTimers, context, pending, lockVars, service, op, sets, histVars>>

(* The context is read under the lock; a repeating timer is armed again, a  *)
(* single one kills itself, then the handler is called.                     *)
Fire_Begin ==
  /\ phase = "lock" /\ CanLock(Loop)
  /\ owner' = Loop /\ depth' = depth + 1 /\ phase' = "handler"
  /\ fired' = fired \cup {context[firing].setting}
  /\ firing' = 0
  /\ UNCHANGED <<service, op, sets, due>>

(* The mutation does not arm it again. *)
Fire_Repeat_NoAdd ==
  /\ Fire_Begin /\ context[firing].repeat
  /\ UNCHANGED <<mapTimers, live, eventVars>>

Fire_Repeat ==
  /\ Fire_Begin /\ context[firing].repeat
  /\ pending' = pending \cup {firing}
  /\ UNCHANGED <<mapTimers, live, context, queue>>

Fire_Single ==
  /\ Fire_Begin /\ ~ context[firing].repeat
  /\ mapTimers' = [mapTimers EXCEPT ![context[firing].id] = 0]
  /\ live' = [live EXCEPT ![context[firing].id] = 0]
  /\ context' = [context EXCEPT ![firing] = NoContext]
  /\ UNCHANGED <<pending, queue>>

(* The handler, and the handlers of other events, set and kill timers. *)
InHandler == phase \in {"dispatch", "handler"}
LoopSets(id, repeat) ==
  /\ InHandler /\ CanLock(Loop) /\ setTimer(id, repeat)
  /\ UNCHANGED <<firing, phase, lockVars, service, op>>
LoopKills(id) ==
  /\ InHandler /\ CanLock(Loop) /\ mapTimers[id] # 0 /\ killTimer(id)
  /\ UNCHANGED <<firing, phase, lockVars, service, op>>

(* It uses a socket: ScopedIOServiceLock and its release. *)
LoopUsesSocket ==
  /\ phase = "handler" /\ phase' = "socket"
  /\ UNCHANGED <<mapTimers, eventVars, firing, lockVars, service, op, sets, histVars>>
LoopLocksService ==
  /\ phase = "socket" /\ service = None
  /\ service' = Loop /\ phase' = "locked"
  /\ UNCHANGED <<mapTimers, eventVars, firing, lockVars, op, sets, histVars>>
LoopUnlocksService ==
  /\ phase = "locked" /\ service' = None /\ phase' = "last"
  /\ UNCHANGED <<mapTimers, eventVars, firing, lockVars, op, sets, histVars>>

(* The mutation is an unlock that the handler can skip. *)
Fire_Return_KeepsLock ==
  /\ phase \in {"handler", "last"}
  /\ phase' = "dispatch"
  /\ UNCHANGED <<mapTimers, eventVars, firing, lockVars, service, op, sets, histVars>>

Fire_Return ==
  /\ phase \in {"handler", "last"}
  /\ phase' = "dispatch"
  /\ depth' = depth - 1
  /\ owner' = IF depth = 1 THEN None ELSE owner
  /\ UNCHANGED <<mapTimers, eventVars, firing, service, op, sets, histVars>>

-----------------------------------------------------------------------------
(* The other threads *)

Idle(t) == op[t].kind = "out"
SetOp(t, kind, id, repeat) == op' = [op EXCEPT ![t] = [kind |-> kind, id |-> id, repeat |-> repeat]]

OtherLocksService(t) ==
  /\ Idle(t) /\ service = None
  /\ service' = t /\ SetOp(t, "socket", None, FALSE)
  /\ UNCHANGED <<mapTimers, eventVars, firing, phase, lockVars, sets, histVars>>

(* The socket operation ends. *)
OtherUnlocksService(t) ==
  /\ service = t /\ op[t].kind = "socket"
  /\ service' = None /\ SetOp(t, "out", None, FALSE)
  /\ UNCHANGED <<mapTimers, eventVars, firing, phase, lockVars, sets, histVars>>

(* setTimer or killTimer is called; the id's state is seen later. *)
OtherCalls(t, kind, id, repeat) ==
  /\ Idle(t) \/ (op[t].kind = "socket" /\ "locked" \in RemoteOps)
  /\ IF kind = "set" THEN sets < MaxSets ELSE "old" \in RemoteOps /\ ~ repeat
  /\ SetOp(t, kind, id, repeat)
  /\ UNCHANGED <<mapTimers, eventVars, firing, phase, lockVars, service, sets, histVars>>

AfterCall(t) == SetOp(t, IF service = t THEN "socket" ELSE "out", None, FALSE)

(* Deleting the event of a running callback from another thread waits for   *)
(* the end of the callback (libevent with threads).                         *)
MustWait(t) == "old" \in RemoteOps /\ firing # 0 /\ mapTimers[op[t].id] = firing

(* Under timerLock_, which the thread keeps if it has to wait; there is no  *)
(* end of the wait, because the callback needs timerLock_.  Without "old" a *)
(* program only sets ids that are not in use.                               *)
OtherRuns(t) ==
  /\ op[t].kind \in {"set", "kill"} /\ CanLock(t)
  /\ IF MustWait(t)
     THEN /\ owner' = t /\ depth' = depth + 1
          /\ op' = [op EXCEPT ![t].kind = "wait"]
          /\ UNCHANGED <<mapTimers, eventVars, sets, histVars>>
     ELSE /\ IF op[t].kind = "kill" THEN killTimer(op[t].id)
             ELSE IF sets = MaxSets \/ (mapTimers[op[t].id] # 0 /\ "old" \notin RemoteOps)
             THEN UNCHANGED <<mapTimers, eventVars, sets, histVars>>
             ELSE setTimer(op[t].id, op[t].repeat)
          /\ AfterCall(t)
          /\ UNCHANGED lockVars
  /\ UNCHANGED <<firing, phase, service>>

-----------------------------------------------------------------------------
LoopStep == \/ TimerCb \/ Fire_Repeat \/ Fire_Single \/ Fire_Return
            \/ LoopLocksService \/ LoopUnlocksService
OtherStep(t) == OtherUnlocksService(t) \/ OtherRuns(t)

Next ==
  \/ \E c \in Settings : Timeout(c)
  \/ LoopStep \/ LoopUsesSocket
  \/ \E id \in Ids, repeat \in BOOLEAN : LoopSets(id, repeat)
  \/ \E id \in Ids : LoopKills(id)
  \/ \E t \in Others : OtherLocksService(t) \/ OtherStep(t)
  \/ \E t \in Others, kind \in {"set", "kill"}, id \in Ids, repeat \in BOOLEAN :
       OtherCalls(t, kind, id, repeat)

(* Time passes, and threads that can go on do; a thread that waits for a    *)
(* mutex gets it if it is free again and again.  The active queue is served *)
(* in order, so a timer that fires again and again does not starve others.  *)
Spec ==
  /\ Init /\ [][Next]_vars
  /\ \A c \in Settings : WF_vars(Timeout(c))
  /\ SF_vars(LoopStep)
  /\ \A t \in Others : SF_vars(OtherStep(t))

-----------------------------------------------------------------------------
(* The type invariant. *)
TypeOK ==
  /\ mapTimers \in [Ids -> 0 .. MaxSets]
  /\ \A c \in Settings : context[c] = NoContext \/ context[c].id \in Ids
  /\ pending \subseteq Settings /\ queue \in Seq(Settings)
  /\ firing \in 0 .. MaxSets /\ phase \in Phases
  /\ owner \in Threads \cup {None} /\ service \in Threads \cup {None}
  /\ (owner = None) = (depth = 0) /\ depth \in 0 .. 1
  /\ \A t \in Others : op[t].kind \in Ops
  /\ due \subseteq Settings /\ live \in [Ids -> 0 .. MaxSets]

(* A timer in mapTimers_ will fire: its event waits for its timeout, is     *)
(* active, or its callback is about to run; and libevent knows no event     *)
(* whose context has left the map, and no event twice.                      *)
EventsMatchMap ==
  LET Armed == pending \cup ToSet(queue)
  IN /\ TypeOK
     /\ \A i \in Ids : mapTimers[i] # 0 =>
          \/ mapTimers[i] \in Armed
          \/ phase = "lock" /\ firing = mapTimers[i]
     /\ \A c \in Armed : context[c].id \in Ids /\ mapTimers[context[c].id] = c
     /\ pending \cap ToSet(queue) = {} /\ IsInjective(queue)

(* onTimer_Timer(id) is called only for the last setTimer(id), after that   *)
(* setting's own time has passed, and not after killTimer(id), also when    *)
(* both timers were due in the same pass of the loop; a timer that does not *)
(* repeat fires once.                                                       *)
FiresAsSet ==
  [][phase = "lock" /\ phase' = "handler" =>
       LET c == context[firing]
       IN /\ c.id \in Ids /\ live[c.id] = c.setting
          /\ c.setting \in due
          /\ c.repeat \/ c.setting \notin fired]_vars

(* A timer that has been set fires unless it is killed or set again: nobody *)
(* keeps timerLock_ and the mutex of the IOService from the loop for ever.  *)
Live(s) == \E i \in Ids : live[i] = s
TimersFire == \A s \in Settings : Live(s) ~> (s \in fired \/ ~ Live(s))

(* setTimer and killTimer return, and so do socket operations. *)
OthersReturn == \A t \in Others : op[t].kind # "out" ~> op[t].kind = "out"

=============================================================================
