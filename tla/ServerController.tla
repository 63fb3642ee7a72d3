--------------------------- MODULE ServerController ---------------------------
(***************************************************************************)
(* ServerController.cpp with the event loops of its clients: accepting a    *)
(* connection, the way of a close event from the client's thread to the     *)
(* server (ClientController.cpp, BaseControllerEvent.cpp), and the delayed  *)
(* removal that gives the client back to its own thread to die there.       *)
(*                                                                         *)
(* Every loop is a thread.  A client controller is alive while somebody     *)
(* holds a shared_ptr to it: the two sets of the server, the functors that  *)
(* wait in a deferred queue, a local variable of the server's thread.  The  *)
(* thread that drops the last reference destroys it.                        *)
(***************************************************************************)
EXTENDS Naturals, Sequences, SequencesExt

CONSTANTS Clients,    \* the client controllers, in the order nobody controls
          Loops,      \* the event loops (IOServices) and their threads
          Server,     \* the loop of the listener and of the server controller
          MaxCloses,  \* bound: close events of one client
          MayOverlap, \* accept may fall into a removal by another thread
          None

ASSUME ServerAssumption == Server \in Loops
ASSUME ServerNoneAssumption == None \notin Clients \cup Loops
ASSUME ServerBoundAssumption == MaxCloses \in Nat \ {0} /\ MayOverlap \in BOOLEAN

VARIABLES
  loop,       \* loop[c]: the IOService that the round robin gave c, or None
  observed,   \* clients whose eventClosedConnection has the server as observer
  installed,  \* clients whose socket events have been added
  closes,     \* closes[c]: the close events of c so far
  clients,    \* clients_
  delaySet,   \* delay_remove_clients_set_
  timer,      \* TIMERID_DELAYED_REMOVE is running
  notes,      \* close events on their way to the server's thread
  queue,      \* queue[l]: deferred calls of loop l, <<"closed", c>> or <<"remove", c>>
  firing,     \* firing[l]: loop l is inside fireDeferredEvent and holds its mutex
  ran,        \* ran[l]: the calls it has made in it
  lockOwner,  \* who holds lockClients_, or None
  sPhase,     \* what the server's thread is doing, see SPhases
  cur,        \* the client in its hands (a local shared_ptr), or None
  todo,       \* the rest of the iteration over delay_remove_clients_set_
  destroyedBy \* history: the thread that destroyed c, or None

svars == <<loop, observed, installed, closes, clients, delaySet, timer, notes,
           queue, firing, ran, lockOwner, sPhase, cur, todo, destroyedBy>>
loopVars == <<queue, firing, ran>>
acceptVars == <<loop, observed, installed>>

(* "insert", "register", "install": in onConnectionListener_Accept.         *)
(* "process", "relock": in processDelayedRemoveClientFromSet, with and      *)
(* without lockClients_.                                                    *)
SPhases == {"idle", "insert", "register", "install", "process", "relock"}

Init ==
  /\ loop = [c \in Clients |-> None]
  /\ observed = {} /\ installed = {}
  /\ closes = [c \in Clients |-> 0]
  /\ clients = {} /\ delaySet = {} /\ timer = FALSE /\ notes = <<>>
  /\ queue = [l \in Loops |-> <<>>]
  /\ firing = [l \in Loops |-> FALSE]
  /\ ran = [l \in Loops |-> 0]
  /\ lockOwner = None /\ sPhase = "idle" /\ cur = None /\ todo = {}
  /\ destroyedBy = [c \in Clients |-> None]

-----------------------------------------------------------------------------
(* Somebody holds a shared_ptr to c. *)
Held(c) ==
  \/ c \in clients \cup delaySet
  \/ c = cur
  \/ \E i \in DOMAIN notes : notes[i] = c
  \/ \E l \in Loops : \E i \in DOMAIN queue[l] : queue[l][i][2] = c

Alive(c) == loop[c] # None /\ destroyedBy[c] = None

(* Thread t has dropped references: what nobody holds any more dies here. *)
Drop(t) ==
  destroyedBy' = [c \in Clients |-> IF Alive(c) /\ ~ Held(c)' THEN t ELSE destroyedBy[c]]

(* The thread of l is between two events. *)
Idle(l) == ~ firing[l] /\ (l = Server => sPhase = "idle")

-----------------------------------------------------------------------------
(* onConnectionListener_Accept, on the server's thread.  insert takes no    *)
(* lock: while sPhase is "insert" the thread is inside clients_.insert.     *)
Accept(c, l) ==
  /\ Idle(Server) /\ loop[c] = None
  /\ MayOverlap \/ lockOwner = None
  /\ loop' = [loop EXCEPT ![c] = l]
  /\ cur' = c /\ sPhase' = "insert"
  /\ UNCHANGED <<observed, installed, closes, clients, delaySet, timer, notes,
                 loopVars, lockOwner, todo, destroyedBy>>

(* Faulty variant: the socket is installed before the server observes it. *)
Accept_Insert_Installs ==
  /\ sPhase = "insert"
  /\ clients' = clients \cup {cur}
  /\ installed' = installed \cup {cur}
  /\ sPhase' = "register"
  /\ UNCHANGED <<loop, observed, closes, delaySet, timer, notes, loopVars,
                 lockOwner, cur, todo, destroyedBy>>

Accept_Insert ==
  /\ sPhase = "insert"
  /\ clients' = clients \cup {cur}
  /\ sPhase' = "register"
  /\ UNCHANGED <<acceptVars, closes, delaySet, timer, notes, loopVars,
                 lockOwner, cur, todo, destroyedBy>>

Accept_Register ==
  /\ sPhase = "register"
  /\ observed' = observed \cup {cur}
  /\ sPhase' = "install"
  /\ UNCHANGED <<loop, installed, closes, clients, delaySet, timer, notes,
                 loopVars, lockOwner, cur, todo, destroyedBy>>

(* "for multithreading.. this method call last!" *)
Accept_Install ==
  /\ sPhase = "install"
  /\ installed' = installed \cup {cur}
  /\ sPhase' = "idle" /\ cur' = None
  /\ UNCHANGED <<loop, observed, closes, clients, delaySet, timer, notes,
                 loopVars, lockOwner, todo, destroyedBy>>

-----------------------------------------------------------------------------
(* _onPreControllerEvent_ClosedConnection, on the server's thread, under    *)
(* lockClients_: (re)start the timer, remember the client. *)
ClosedConnection(c) ==
  /\ lockOwner = None
  /\ timer' = TRUE
  /\ delaySet' = delaySet \cup {c}

(* onSocket_Close of c, on its thread: the application's onClosed is        *)
(* deferred, then the observers are told, directly on the server's thread,  *)
(* through the server's deferred caller on any other.                       *)
SocketClose(c) ==
  /\ c \in installed /\ Alive(c) /\ closes[c] < MaxCloses /\ Idle(loop[c])
  /\ closes' = [closes EXCEPT ![c] = @ + 1]
  /\ queue' = [queue EXCEPT ![loop[c]] = Append(@, <<"closed", c>>)]
  /\ CASE c \notin observed ->
            UNCHANGED <<timer, delaySet, notes>>
       [] c \in observed /\ loop[c] = Server ->
            ClosedConnection(c) /\ UNCHANGED notes
       [] c \in observed /\ loop[c] # Server ->
            notes' = Append(notes, c) /\ UNCHANGED <<timer, delaySet>>
  /\ UNCHANGED <<acceptVars, clients, firing, ran, lockOwner, sPhase, cur, todo,
                 destroyedBy>>

(* The server's deferred caller runs a close event. *)
CloseNote ==
  /\ Idle(Server) /\ notes # <<>>
  /\ ClosedConnection(Head(notes))
  /\ notes' = Tail(notes)
  /\ UNCHANGED <<acceptVars, closes, clients, loopVars, lockOwner, sPhase, cur,
                 todo, destroyedBy>>

-----------------------------------------------------------------------------
(* processDelayedRemoveClientFromSet, on the server's thread *)

Process ==
  /\ Idle(Server) /\ timer /\ lockOwner = None
  /\ timer' = FALSE
  /\ lockOwner' = Server /\ sPhase' = "process" /\ todo' = delaySet
  /\ UNCHANGED <<acceptVars, closes, clients, delaySet, notes, loopVars, cur,
                 destroyedBy>>

(* Faulty variant: every client goes. *)
Process_Direct_ErasesAll(c) ==
  /\ sPhase = "process" /\ c \in todo
  /\ c \in clients => loop[c] = Server
  /\ clients' = {}
  /\ todo' = todo \ {c}
  /\ UNCHANGED <<acceptVars, closes, delaySet, timer, notes, loopVars,
                 lockOwner, sPhase, cur, destroyedBy>>

(* A client of the server's own loop is erased directly; one that has been  *)
(* erased before is skipped.                                                *)
Process_Direct(c) ==
  /\ sPhase = "process" /\ c \in todo
  /\ c \in clients => loop[c] = Server
  /\ clients' = clients \ {c}
  /\ todo' = todo \ {c}
  /\ UNCHANGED <<acceptVars, closes, delaySet, timer, notes, loopVars,
                 lockOwner, sPhase, cur, destroyedBy>>

(* Any other client: unlock, and defer onDelayedClientRemove to its loop... *)
Process_Unlock(c) ==
  /\ sPhase = "process" /\ cur = None /\ c \in todo
  /\ c \in clients /\ loop[c] # Server
  /\ lockOwner' = None /\ cur' = c /\ sPhase' = "relock"
  /\ todo' = todo \ {c}
  /\ UNCHANGED <<acceptVars, closes, clients, delaySet, timer, notes, loopVars,
                 destroyedBy>>

(* ... which waits until that loop is not firing ...                        *)
Process_Defer ==
  /\ sPhase = "relock" /\ cur # None /\ ~ firing[loop[cur]]
  /\ queue' = [queue EXCEPT ![loop[cur]] = Append(@, <<"remove", cur>>)]
  /\ cur' = None
  /\ UNCHANGED <<acceptVars, closes, clients, delaySet, timer, notes, firing,
                 ran, lockOwner, sPhase, todo, destroyedBy>>

(* ... and lock again.                                                      *)
Process_Relock ==
  /\ sPhase = "relock" /\ cur = None /\ lockOwner = None
  /\ lockOwner' = Server /\ sPhase' = "process"
  /\ UNCHANGED <<acceptVars, closes, clients, delaySet, timer, notes, loopVars,
                 cur, todo, destroyedBy>>

(* Faulty variant: the delay set is not cleared. *)
Process_End_KeepsSet ==
  /\ sPhase = "process" /\ todo = {}
  /\ lockOwner' = None /\ sPhase' = "idle"
  /\ UNCHANGED <<acceptVars, closes, clients, delaySet, timer, notes, loopVars,
                 cur, todo>>
  /\ Drop(Server)

Process_End ==
  /\ sPhase = "process" /\ todo = {}
  /\ delaySet' = {} /\ lockOwner' = None /\ sPhase' = "idle"
  /\ UNCHANGED <<acceptVars, closes, clients, timer, notes, loopVars, cur, todo>>
  /\ Drop(Server)

-----------------------------------------------------------------------------
(* fireDeferredEvent of a loop (module DeferredCaller) *)

Fire(l) ==
  /\ Idle(l) /\ queue[l] # <<>>
  /\ firing' = [firing EXCEPT ![l] = TRUE]
  /\ UNCHANGED <<acceptVars, closes, clients, delaySet, timer, notes, queue, ran,
                 lockOwner, sPhase, cur, todo, destroyedBy>>

NextCall(l) == queue[l][ran[l] + 1]
HasCall(l, what) == firing[l] /\ ran[l] < Len(queue[l]) /\ NextCall(l)[1] = what

(* fire_onClosed *)
Fire_Closed(l) ==
  /\ HasCall(l, "closed")
  /\ ran' = [ran EXCEPT ![l] = @ + 1]
  /\ UNCHANGED <<acceptVars, closes, clients, delaySet, timer, notes, queue,
                 firing, lockOwner, sPhase, cur, todo, destroyedBy>>

(* onDelayedClientRemove takes lockClients_ ...                             *)
Fire_RemoveLock(l) ==
  /\ HasCall(l, "remove") /\ lockOwner = None
  /\ MayOverlap \/ sPhase # "insert"
  /\ lockOwner' = l
  /\ UNCHANGED <<acceptVars, closes, clients, delaySet, timer, notes, loopVars,
                 sPhase, cur, todo, destroyedBy>>

(* ... and erases the client. *)
Fire_Remove(l) ==
  /\ HasCall(l, "remove") /\ lockOwner = l
  /\ clients' = clients \ {NextCall(l)[2]}
  /\ ran' = [ran EXCEPT ![l] = @ + 1]
  /\ lockOwner' = None
  /\ UNCHANGED <<acceptVars, closes, delaySet, timer, notes, queue, firing,
                 sPhase, cur, todo, destroyedBy>>

(* The callbacks have run: clear destroys the functors. *)
Fire_Clear(l) ==
  /\ firing[l] /\ ran[l] = Len(queue[l])
  /\ queue' = [queue EXCEPT ![l] = <<>>]
  /\ ran' = [ran EXCEPT ![l] = 0]
  /\ firing' = [firing EXCEPT ![l] = FALSE]
  /\ UNCHANGED <<acceptVars, closes, clients, delaySet, timer, notes, lockOwner,
                 sPhase, cur, todo>>
  /\ Drop(l)

-----------------------------------------------------------------------------
ServerStep ==
  \/ Accept_Insert \/ Accept_Register \/ Accept_Install
  \/ CloseNote \/ Process \/ Process_Defer \/ Process_Relock \/ Process_End
  \/ \E c \in Clients : Process_Direct(c) \/ Process_Unlock(c)

FireStep(l) ==
  Fire(l) \/ Fire_Closed(l) \/ Fire_RemoveLock(l) \/ Fire_Remove(l) \/ Fire_Clear(l)

Next ==
  \/ \E c \in Clients : SocketClose(c) \/ \E l \in Loops : Accept(c, l)
  \/ ServerStep
  \/ \E l \in Loops : FireStep(l)

Spec == Init /\ [][Next]_svars

(* Every thread goes on with what it has begun and what waits for it. *)
FairSpec == Spec /\ WF_svars(ServerStep) /\ \A l \in Loops : WF_svars(FireStep(l))

-----------------------------------------------------------------------------
(* The type invariant. *)
TypeOK ==
  /\ loop \in [Clients -> Loops \cup {None}]
  /\ observed \subseteq Clients /\ installed \subseteq Clients
  /\ closes \in [Clients -> 0..MaxCloses]
  /\ clients \subseteq Clients /\ delaySet \subseteq Clients /\ todo \subseteq delaySet
  /\ timer \in BOOLEAN
  /\ notes \in Seq(Clients)
  /\ queue \in [Loops -> Seq({"closed", "remove"} \X Clients)]
  /\ firing \in [Loops -> BOOLEAN]
  /\ ran \in [Loops -> Nat]
  /\ lockOwner \in Loops \cup {None}
  /\ sPhase \in SPhases /\ cur \in Clients \cup {None}
  /\ destroyedBy \in [Clients -> Loops \cup {None}]

(* Only what closed is removed, and what is destroyed is in nobody's hands: *)
(* an installed client that has not closed stays in clients_, and no set,   *)
(* queue or local variable refers to a destroyed one.  What removes a       *)
(* client waits in the queue of its own loop (onDelayedClientRemove asserts *)
(* that).                                                                   *)
ClientsKept ==
  /\ TypeOK
  /\ \A c \in Clients :
       /\ c \in installed /\ closes[c] = 0 => c \in clients
       /\ destroyedBy[c] # None => ~ Held(c) /\ closes[c] > 0
  /\ \A l \in Loops : \A i \in DOMAIN queue[l] :
       queue[l][i][1] = "remove" => loop[queue[l][i][2]] = l

(* A close event is never forgotten: while a client that has closed is      *)
(* still in clients_, its removal is on its way: the close event waits for  *)
(* the server, the client is in the delay set with the timer running or     *)
(* being processed, or onDelayedClientRemove waits in its loop.             *)
RemovalOnItsWay ==
  \A c \in clients :
    closes[c] > 0 =>
      \/ \E i \in DOMAIN notes : notes[i] = c
      \/ c \in delaySet /\ (timer \/ c \in todo)
      \/ c = cur /\ sPhase = "relock"
      \/ \E i \in DOMAIN queue[loop[c]] :
            i > ran[loop[c]] /\ queue[loop[c]][i] = <<"remove", c>>

(* Every client that closes is destroyed in the end: nothing leaks, and     *)
(* the server's thread and a client's thread never wait for each other's    *)
(* mutex (lockClients_ and the lock of the deferred queue).                 *)
ClosedClientsAreDestroyed ==
  \A c \in Clients : closes[c] > 0 ~> destroyedBy[c] # None

(* clients_ is not used by two threads at once ("need thread-safe").        *)
NoClientsRace == sPhase = "insert" => lockOwner = None
=============================================================================
