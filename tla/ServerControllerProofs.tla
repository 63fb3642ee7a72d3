----------------------- MODULE ServerControllerProofs -----------------------
(***************************************************************************)
(* Proofs about ServerController, for any number of clients, loops and     *)
(* close events, and with accept overlapping a removal or not.             *)
(***************************************************************************)
EXTENDS ServerController, SequenceTheorems, TLAPS

Accepting == sPhase \in {"insert", "register", "install"}
Processing == sPhase \in {"process", "relock"}

(* What the server's thread has in its hands.  A client that is being       *)
(* accepted has no events yet; during the processing of the delay set the   *)
(* timer is off, because nothing can start it.                              *)
PhaseOK ==
  /\ sPhase \in {"idle", "process"} => cur = None
  /\ Accepting => /\ cur \in Clients /\ cur \notin installed /\ loop[cur] # None
                  /\ sPhase # "insert" => cur \in clients
                  /\ sPhase = "install" => cur \in observed
  /\ sPhase = "relock" /\ cur # None => closes[cur] > 0
  /\ IF Processing THEN timer = FALSE ELSE todo = {}

(* The life of a client: it has a loop, is observed, gets its events and    *)
(* may then close.                                                          *)
LifeOK ==
  /\ installed \subseteq observed
  /\ \A c \in Clients :
       /\ closes[c] > 0 => c \in installed
       /\ c \in installed \/ c \in clients => loop[c] # None
       /\ loop[c] # None => c \in installed \/ (Accepting /\ c = cur)

(* Whoever is on his way out has closed. *)
ClosedOK ==
  /\ \A c \in delaySet : closes[c] > 0
  /\ \A i \in DOMAIN notes : closes[notes[i]] > 0
  /\ \A l \in Loops : \A i \in DOMAIN queue[l] : closes[queue[l][i][2]] > 0

(* fireDeferredEvent stays inside of the vector. *)
RanOK == \A l \in Loops : ran[l] <= Len(queue[l])

(* The other conjuncts of ClientsKept, apart. *)
InstalledKept == \A c \in Clients : c \in installed /\ closes[c] = 0 => c \in clients
DestroyedOK == \A c \in Clients : destroyedBy[c] # None => ~ Held(c) /\ closes[c] > 0
RemovesOK == \A l \in Loops : \A i \in DOMAIN queue[l] :
               queue[l][i][1] = "remove" => loop[queue[l][i][2]] = l

(* The inductive invariant. *)
SInv == /\ TypeOK /\ PhaseOK /\ LifeOK /\ ClosedOK /\ RanOK
        /\ InstalledKept /\ DestroyedOK /\ RemovesOK /\ RemovalOnItsWay

-----------------------------------------------------------------------------
(* A sequence with an element more: the old ones stay where they are. *)
LEMMA Appended ==
  ASSUME NEW T, NEW s \in Seq(T), NEW e \in T
  PROVE  /\ Append(s, e) \in Seq(T) /\ Len(Append(s, e)) = Len(s) + 1
         /\ \A i \in DOMAIN s : i \in DOMAIN Append(s, e) /\ Append(s, e)[i] = s[i]
         /\ \A i \in DOMAIN Append(s, e) : \/ i \in DOMAIN s /\ Append(s, e)[i] = s[i]
                                           \/ i = Len(s) + 1 /\ Append(s, e)[i] = e
         /\ Len(s) + 1 \in DOMAIN Append(s, e) /\ Append(s, e)[Len(s) + 1] = e
  OBVIOUS

(* What is deferred. *)
Calls == {"closed", "remove"} \X Clients

(* deferredCall: the queue of one loop grows by a call. *)
Grown(l, e) ==
  /\ queue' \in [Loops -> Seq(Calls)]
  /\ \A k \in Loops : Len(queue[k]) <= Len(queue'[k])
  /\ \A k \in Loops : \A i \in DOMAIN queue[k] :
       i \in DOMAIN queue'[k] /\ queue'[k][i] = queue[k][i]
  /\ \A k \in Loops : \A i \in DOMAIN queue'[k] :
       \/ i \in DOMAIN queue[k] /\ queue'[k][i] = queue[k][i]
       \/ k = l /\ queue'[k][i] = e
  /\ \E i \in DOMAIN queue'[l] : i = Len(queue[l]) + 1 /\ queue'[l][i] = e

(* That is what appending to the queue of l does. *)
LEMMA Deferred ==
  ASSUME TypeOK, NEW l \in Loops, NEW e \in Calls,
         queue' = [queue EXCEPT ![l] = Append(@, e)]
  PROVE  Grown(l, e)
<1>1. queue \in [Loops -> Seq(Calls)]
  BY DEF TypeOK, Calls
<1>2. queue'[l] = Append(queue[l], e) /\ \A k \in Loops \ {l} : queue'[k] = queue[k]
  BY <1>1
<1>3. queue[l] \in Seq(Calls)
  BY <1>1
<1>4. Append(queue[l], e) \in Seq(Calls)
  BY <1>3, Appended
<1>5. queue' \in [Loops -> Seq(Calls)]
  BY <1>1, <1>4
<1>6. ASSUME NEW k \in Loops
      PROVE  /\ Len(queue[k]) <= Len(queue'[k])
             /\ \A i \in DOMAIN queue[k] : i \in DOMAIN queue'[k] /\ queue'[k][i] = queue[k][i]
             /\ \A i \in DOMAIN queue'[k] : \/ i \in DOMAIN queue[k] /\ queue'[k][i] = queue[k][i]
                                            \/ k = l /\ queue'[k][i] = e
  <2>1. CASE k = l
    BY <1>2, <1>3, <2>1, Appended
  <2>2. CASE k # l
    <3>1. queue'[k] = queue[k] /\ queue[k] \in Seq(Calls)
      BY <1>1, <1>2, <2>2
    <3> QED BY <3>1
  <2> QED BY <2>1, <2>2
<1>7. \E i \in DOMAIN queue'[l] : i = Len(queue[l]) + 1 /\ queue'[l][i] = e
  BY <1>2, <1>3, Appended
<1> QED BY <1>5, <1>6, <1>7 DEF Grown

(* onDelayedClientRemove waits in the queue of the client's loop. *)
Waits(c) == \E i \in DOMAIN queue[loop[c]] :
              i > ran[loop[c]] /\ queue[loop[c]][i] = <<"remove", c>>
Noted(c) == \E i \in DOMAIN notes : notes[i] = c
OnItsWay(c) == \/ Noted(c) \/ Waits(c)
               \/ c \in delaySet /\ (timer \/ c \in todo)
               \/ c = cur /\ sPhase = "relock"

(* A new client is in the hands of the server's thread only. *)
LEMMA Step_Accept ==
  ASSUME SInv, NEW c \in Clients, NEW l \in Loops, Accept(c, l)
  PROVE  SInv'
<1> USE ServerAssumption, ServerNoneAssumption, ServerBoundAssumption DEF SInv, acceptVars, loopVars
<1>1. TypeOK'
  BY DEF Accept, Idle, TypeOK, SPhases
<1>2. PhaseOK'
  BY DEF Accept, Idle, PhaseOK, LifeOK, Accepting, Processing, TypeOK
<1>3. LifeOK'
  BY DEF Accept, Idle, LifeOK, PhaseOK, Accepting, TypeOK
<1>4. ClosedOK'
  BY DEF Accept, Idle, ClosedOK, PhaseOK, TypeOK
<1>5. RanOK'
  BY DEF Accept, Idle, RanOK, TypeOK
<1>6. InstalledKept'
  BY DEF Accept, Idle, InstalledKept, ClosedOK, PhaseOK, Accepting, TypeOK
<1>7. DestroyedOK'
  BY DEF Accept, Idle, DestroyedOK, Held, LifeOK, InstalledKept, TypeOK
<1>8. RemovesOK'
  BY DEF Accept, Idle, RemovesOK, LifeOK, ClosedOK, TypeOK
<1>9. RemovalOnItsWay'
  BY DEF Accept, Idle, RemovalOnItsWay, PhaseOK, LifeOK, TypeOK
<1> QED BY <1>1, <1>2, <1>3, <1>4, <1>5, <1>6, <1>7, <1>8, <1>9

(* It has not closed: nothing has to be on its way. *)
LEMMA Step_Accept_Insert ==
  ASSUME SInv, Accept_Insert
  PROVE  SInv'
<1> USE ServerAssumption, ServerNoneAssumption, ServerBoundAssumption DEF SInv, acceptVars, loopVars
<1>1. TypeOK'
  BY DEF Accept_Insert, PhaseOK, Accepting, TypeOK, SPhases
<1>2. PhaseOK'
  BY DEF Accept_Insert, PhaseOK, Accepting, Processing, TypeOK
<1>3. LifeOK'
  BY DEF Accept_Insert, LifeOK, PhaseOK, Accepting, TypeOK
<1>4. ClosedOK'
  BY DEF Accept_Insert, ClosedOK, PhaseOK, TypeOK
<1>5. RanOK'
  BY DEF Accept_Insert, RanOK, TypeOK
<1>6. InstalledKept'
  BY DEF Accept_Insert, InstalledKept, ClosedOK, PhaseOK, Accepting, TypeOK
<1>7. DestroyedOK'
  BY DEF Accept_Insert, DestroyedOK, Held, LifeOK, InstalledKept, TypeOK
<1>8. RemovesOK'
  BY DEF Accept_Insert, RemovesOK, LifeOK, ClosedOK, TypeOK
<1>9. RemovalOnItsWay'
  <2> SUFFICES ASSUME NEW d \in clients', closes'[d] > 0 PROVE OnItsWay(d)'
    BY DEF RemovalOnItsWay, OnItsWay, Noted, Waits
  <2>0. d \in clients /\ closes[d] > 0 => OnItsWay(d)
    BY DEF RemovalOnItsWay, OnItsWay, Noted, Waits
  <2>1. ~ (closes[cur] > 0) /\ closes' = closes /\ clients' = clients \cup {cur}
    BY DEF Accept_Insert, PhaseOK, Accepting, LifeOK
  <2>2. d \in clients /\ closes[d] > 0
    BY <2>1
  <2> QED BY <2>0, <2>2 DEF Accept_Insert, OnItsWay, Noted, Waits
<1> QED BY <1>1, <1>2, <1>3, <1>4, <1>5, <1>6, <1>7, <1>8, <1>9

(* The server becomes its observer. *)
LEMMA Step_Accept_Register ==
  ASSUME SInv, Accept_Register
  PROVE  SInv'
<1> USE ServerAssumption, ServerNoneAssumption, ServerBoundAssumption DEF SInv, acceptVars, loopVars
<1>1. TypeOK'
  BY DEF Accept_Register, PhaseOK, Accepting, TypeOK, SPhases
<1>2. PhaseOK'
  BY DEF Accept_Register, PhaseOK, Accepting, Processing, TypeOK
<1>3. LifeOK'
  BY DEF Accept_Register, LifeOK, PhaseOK, Accepting, TypeOK
<1>4. ClosedOK'
  BY DEF Accept_Register, ClosedOK, PhaseOK, TypeOK
<1>5. RanOK'
  BY DEF Accept_Register, RanOK, TypeOK
<1>6. InstalledKept'
  BY DEF Accept_Register, InstalledKept, ClosedOK, PhaseOK, Accepting, TypeOK
<1>7. DestroyedOK'
  BY DEF Accept_Register, DestroyedOK, Held, LifeOK, InstalledKept, TypeOK
<1>8. RemovesOK'
  BY DEF Accept_Register, RemovesOK, LifeOK, ClosedOK, TypeOK
<1>9. RemovalOnItsWay'
  BY DEF Accept_Register, RemovalOnItsWay, PhaseOK, LifeOK, TypeOK
<1> QED BY <1>1, <1>2, <1>3, <1>4, <1>5, <1>6, <1>7, <1>8, <1>9

(* From here on it may close, and is observed and in clients_. *)
LEMMA Step_Accept_Install ==
  ASSUME SInv, Accept_Install
  PROVE  SInv'
<1> USE ServerAssumption, ServerNoneAssumption, ServerBoundAssumption DEF SInv, acceptVars, loopVars
<1>1. TypeOK'
  BY DEF Accept_Install, PhaseOK, Accepting, TypeOK, SPhases
<1>2. PhaseOK'
  BY DEF Accept_Install, PhaseOK, Accepting, Processing, TypeOK
<1>3. LifeOK'
  BY DEF Accept_Install, LifeOK, PhaseOK, Accepting, TypeOK
<1>4. ClosedOK'
  BY DEF Accept_Install, ClosedOK, PhaseOK, TypeOK
<1>5. RanOK'
  BY DEF Accept_Install, RanOK, TypeOK
<1>6. InstalledKept'
  BY DEF Accept_Install, InstalledKept, ClosedOK, PhaseOK, Accepting, TypeOK
<1>7. DestroyedOK'
  BY DEF Accept_Install, DestroyedOK, Held, LifeOK, InstalledKept, TypeOK
<1>8. RemovesOK'
  BY DEF Accept_Install, RemovesOK, LifeOK, ClosedOK, TypeOK
<1>9. RemovalOnItsWay'
  BY DEF Accept_Install, RemovalOnItsWay, PhaseOK, LifeOK, TypeOK
<1> QED BY <1>1, <1>2, <1>3, <1>4, <1>5, <1>6, <1>7, <1>8, <1>9

(* A close event: the queue of the client's loop grows, and the server is told. *)
LEMMA Step_SocketClose ==
  ASSUME SInv, NEW c \in Clients, SocketClose(c)
  PROVE  SInv'
<1> USE ServerAssumption, ServerNoneAssumption, ServerBoundAssumption DEF SInv, acceptVars, loopVars
<1>a. /\ loop[c] \in Loops /\ c \in observed /\ c \in installed
      /\ closes[c] \in Nat /\ closes[c] < MaxCloses /\ destroyedBy[c] = None
      /\ closes' = [closes EXCEPT ![c] = closes[c] + 1] /\ closes \in [Clients -> 0 .. MaxCloses]
      /\ UNCHANGED <<acceptVars, clients, firing, ran, lockOwner, sPhase, cur, todo, destroyedBy>>
  BY DEF SocketClose, Alive, LifeOK, TypeOK
<1>b. Grown(loop[c], <<"closed", c>>)
  <2>1. TypeOK /\ <<"closed", c>> \in Calls /\ loop[c] \in Loops
    BY <1>a DEF Calls
  <2>2. queue' = [queue EXCEPT ![loop[c]] = Append(@, <<"closed", c>>)]
    BY DEF SocketClose
  <2> QED BY <2>1, <2>2, Deferred
<1>c. \A d \in Clients : closes[d] > 0 => closes'[d] > 0
  BY <1>a
<1>d. closes'[c] > 0 /\ \A d \in Clients \ {c} : closes'[d] = closes[d]
  BY <1>a
<1>e. \/ /\ loop[c] = Server /\ sPhase = "idle" /\ timer' = TRUE
         /\ delaySet' = delaySet \cup {c} /\ notes' = notes
      \/ loop[c] # Server /\ UNCHANGED <<timer, delaySet>> /\ notes' = Append(notes, c)
  <2>1. CASE loop[c] = Server
    BY <1>a, <2>1 DEF SocketClose, ClosedConnection, Idle
  <2>2. CASE loop[c] # Server
    BY <1>a, <2>2 DEF SocketClose
  <2> QED BY <2>1, <2>2
<1>f. /\ notes' \in Seq(Clients)
      /\ \A i \in DOMAIN notes : i \in DOMAIN notes' /\ notes'[i] = notes[i]
      /\ \A i \in DOMAIN notes' : (i \in DOMAIN notes /\ notes'[i] = notes[i]) \/ notes'[i] = c
      /\ loop[c] # Server => \E i \in DOMAIN notes' : notes'[i] = c
  <2>1. notes \in Seq(Clients)
    BY DEF TypeOK
  <2> QED BY <1>e, <2>1, Appended
<1>1. TypeOK'
  <2>1. queue' \in [Loops -> Seq({"closed", "remove"} \X Clients)]
    BY <1>b DEF Grown, Calls
  <2>2. closes' \in [Clients -> 0 .. MaxCloses]
    BY <1>a
  <2>3. timer' \in BOOLEAN /\ delaySet' \subseteq Clients /\ todo' \subseteq delaySet'
    BY <1>a, <1>e DEF TypeOK
  <2> QED BY <1>a, <1>f, <2>1, <2>2, <2>3 DEF TypeOK
<1>2. PhaseOK'
  <2>1. Accepting => cur # c
    BY <1>a DEF PhaseOK
  <2>2. Processing => timer' = timer
    BY <1>e DEF Processing
  <2>3. sPhase = "relock" /\ cur # None => closes'[cur] > 0
    BY <1>c DEF PhaseOK, TypeOK
  <2> QED BY <1>a, <2>2, <2>3 DEF PhaseOK, Accepting, Processing
<1>3. LifeOK'
  BY <1>a, <1>d DEF LifeOK, Accepting
<1>4. ClosedOK'
  <2>1. \A d \in delaySet' : closes'[d] > 0
    BY <1>c, <1>d, <1>e DEF ClosedOK, TypeOK
  <2>2. \A i \in DOMAIN notes' : closes'[notes'[i]] > 0
    BY <1>c, <1>d, <1>f DEF ClosedOK, TypeOK
  <2>3. \A k \in Loops : \A i \in DOMAIN queue'[k] : closes'[queue'[k][i][2]] > 0
    <3> SUFFICES ASSUME NEW k \in Loops, NEW i \in DOMAIN queue'[k]
                 PROVE  closes'[queue'[k][i][2]] > 0
      OBVIOUS
    <3>1. CASE i \in DOMAIN queue[k] /\ queue'[k][i] = queue[k][i]
      <4>1. queue[k][i] \in {"closed", "remove"} \X Clients
        BY <3>1 DEF TypeOK
      <4> QED BY <1>c, <3>1, <4>1 DEF ClosedOK
    <3>2. CASE queue'[k][i] = <<"closed", c>>
      BY <1>d, <3>2
    <3> QED BY <1>b, <3>1, <3>2 DEF Grown
  <2> QED BY <2>1, <2>2, <2>3 DEF ClosedOK
<1>5. RanOK'
  <2>1. UNCHANGED ran /\ queue \in [Loops -> Seq(Calls)] /\ ran \in [Loops -> Nat]
    BY <1>a DEF TypeOK, Calls
  <2> QED BY <1>b, <2>1 DEF Grown, RanOK
<1>6. InstalledKept'
  BY <1>a, <1>d DEF InstalledKept
<1>7. DestroyedOK'
  <2> SUFFICES ASSUME NEW d \in Clients, destroyedBy'[d] # None
               PROVE  ~ Held(d)' /\ closes'[d] > 0
    BY DEF DestroyedOK
  <2>1. ~ Held(d) /\ closes[d] > 0 /\ d # c
    BY <1>a DEF DestroyedOK
  <2>2. \A k \in Loops : \A i \in DOMAIN queue'[k] : queue'[k][i][2] # d
    BY <1>b, <2>1 DEF Grown, Held
  <2>3. \A i \in DOMAIN notes' : notes'[i] # d
    BY <1>f, <2>1 DEF Held
  <2>4. d \notin clients' \cup delaySet' /\ d # cur'
    BY <1>a, <1>e, <2>1 DEF Held
  <2> QED BY <1>c, <2>1, <2>2, <2>3, <2>4 DEF Held
<1>8. RemovesOK'
  <2>1. UNCHANGED loop
    BY <1>a DEF acceptVars
  <2> QED BY <1>b, <2>1 DEF Grown, RemovesOK
<1>9. RemovalOnItsWay'
  <2> SUFFICES ASSUME NEW d \in clients', closes'[d] > 0 PROVE OnItsWay(d)'
    BY DEF RemovalOnItsWay, OnItsWay, Noted, Waits
  <2>0. d \in clients /\ closes[d] > 0 => OnItsWay(d)
    BY DEF RemovalOnItsWay, OnItsWay, Noted, Waits
  <2>1. d \in clients /\ d \in Clients /\ loop[d] \in Loops /\ UNCHANGED <<loop, ran, todo, cur, sPhase>>
    BY <1>a DEF TypeOK, LifeOK, acceptVars
  <2>2. CASE d = c
    BY <1>e, <1>f, <2>2 DEF OnItsWay, Noted
  <2>3. CASE d # c
    <3>1. OnItsWay(d)
      BY <1>d, <2>0, <2>1, <2>3
    <3>2. Waits(d) => Waits(d)'
      <4>1. SUFFICES ASSUME Waits(d) PROVE Waits(d)'
        OBVIOUS
      <4>2. PICK i \in DOMAIN queue[loop[d]] :
              i > ran[loop[d]] /\ queue[loop[d]][i] = <<"remove", d>>
        BY <4>1 DEF Waits
      <4>3. i \in DOMAIN queue'[loop[d]] /\ queue'[loop[d]][i] = queue[loop[d]][i]
        BY <1>b, <2>1, <4>2 DEF Grown
      <4>4. loop' = loop /\ ran' = ran
        BY <2>1
      <4> QED BY <4>2, <4>3, <4>4, Zenon DEF Waits
    <3>3. Noted(d) => Noted(d)'
      BY <1>f DEF Noted
    <3>4. d \in delaySet /\ (timer \/ d \in todo) => d \in delaySet' /\ (timer' \/ d \in todo')
      BY <1>e, <2>1
    <3> QED BY <2>1, <3>1, <3>2, <3>3, <3>4 DEF OnItsWay
  <2> QED BY <2>2, <2>3
<1> QED BY <1>1, <1>2, <1>3, <1>4, <1>5, <1>6, <1>7, <1>8, <1>9

(* A note becomes a member of the delay set, and the timer runs. *)
LEMMA Step_CloseNote ==
  ASSUME SInv, CloseNote
  PROVE  SInv'
<1> USE ServerAssumption, ServerNoneAssumption, ServerBoundAssumption DEF SInv, acceptVars, loopVars
<1>1. TypeOK'
  BY DEF CloseNote, ClosedConnection, Idle, TypeOK, SPhases
<1>2. PhaseOK'
  BY DEF CloseNote, ClosedConnection, Idle, PhaseOK, Accepting, Processing, TypeOK
<1>3. LifeOK'
  BY DEF CloseNote, ClosedConnection, Idle, LifeOK, PhaseOK, Accepting, TypeOK
<1>4. ClosedOK'
  BY DEF CloseNote, ClosedConnection, Idle, ClosedOK, PhaseOK, TypeOK
<1>5. RanOK'
  BY DEF CloseNote, ClosedConnection, Idle, RanOK, TypeOK
<1>6. InstalledKept'
  BY DEF CloseNote, ClosedConnection, Idle, InstalledKept, ClosedOK, PhaseOK, Accepting, TypeOK
<1>7. DestroyedOK'
  BY SMTT(30) DEF CloseNote, ClosedConnection, Idle, DestroyedOK, Held, LifeOK, InstalledKept, TypeOK
<1>8. RemovesOK'
  BY DEF CloseNote, ClosedConnection, Idle, RemovesOK, LifeOK, ClosedOK, TypeOK
<1>9. RemovalOnItsWay'
  <2> SUFFICES ASSUME NEW d \in clients', closes'[d] > 0 PROVE OnItsWay(d)'
    BY DEF RemovalOnItsWay, OnItsWay, Noted, Waits
  <2>0. d \in clients /\ closes[d] > 0 => OnItsWay(d)
    BY DEF RemovalOnItsWay, OnItsWay, Noted, Waits
  <2>1. d \in clients /\ closes[d] > 0 /\ UNCHANGED <<queue, ran, loop>>
    BY DEF CloseNote
  <2>2. timer' = TRUE /\ delaySet' = delaySet \cup {Head(notes)} /\ notes' = Tail(notes)
    BY DEF CloseNote, ClosedConnection
  <2>3. CASE Waits(d)
    BY <2>1, <2>3 DEF OnItsWay, Waits
  <2>4. CASE Noted(d)
    <3>1. PICK i \in DOMAIN notes : notes[i] = d
      BY <2>4 DEF Noted
    <3>2. CASE i = 1
      BY <2>2, <3>1, <3>2 DEF OnItsWay
    <3>3. CASE i # 1
      <4>1. i - 1 \in DOMAIN Tail(notes) /\ Tail(notes)[i - 1] = notes[i]
        BY <3>3 DEF TypeOK
      <4> QED BY <2>2, <3>1, <4>1 DEF OnItsWay, Noted
    <3> QED BY <3>2, <3>3
  <2>5. CASE d \in delaySet
    BY <2>2, <2>5 DEF OnItsWay
  <2>6. CASE sPhase = "relock"
    BY <2>6 DEF CloseNote, Idle
  <2> QED BY <2>0, <2>1, <2>3, <2>4, <2>5, <2>6 DEF OnItsWay
<1> QED BY <1>1, <1>2, <1>3, <1>4, <1>5, <1>6, <1>7, <1>8, <1>9

(* The timer is exchanged for todo. *)
LEMMA Step_Process ==
  ASSUME SInv, Process
  PROVE  SInv'
<1> USE ServerAssumption, ServerNoneAssumption, ServerBoundAssumption DEF SInv, acceptVars, loopVars
<1>1. TypeOK'
  BY DEF Process, Idle, TypeOK, SPhases
<1>2. PhaseOK'
  BY DEF Process, Idle, PhaseOK, Accepting, Processing, TypeOK
<1>3. LifeOK'
  BY DEF Process, Idle, LifeOK, PhaseOK, Accepting, TypeOK
<1>4. ClosedOK'
  BY DEF Process, Idle, ClosedOK, PhaseOK, TypeOK
<1>5. RanOK'
  BY DEF Process, Idle, RanOK, TypeOK
<1>6. InstalledKept'
  BY DEF Process, Idle, InstalledKept, ClosedOK, PhaseOK, Accepting, TypeOK
<1>7. DestroyedOK'
  BY DEF Process, Idle, DestroyedOK, Held, LifeOK, InstalledKept, TypeOK
<1>8. RemovesOK'
  BY DEF Process, Idle, RemovesOK, LifeOK, ClosedOK, TypeOK
<1>9. RemovalOnItsWay'
  BY DEF Process, Idle, RemovalOnItsWay, PhaseOK, LifeOK, TypeOK
<1> QED BY <1>1, <1>2, <1>3, <1>4, <1>5, <1>6, <1>7, <1>8, <1>9

(* Only a client that has closed is erased. *)
LEMMA Step_Process_Direct ==
  ASSUME SInv, NEW c \in Clients, Process_Direct(c)
  PROVE  SInv'
<1> USE ServerAssumption, ServerNoneAssumption, ServerBoundAssumption DEF SInv, acceptVars, loopVars
<1>1. TypeOK'
  BY DEF Process_Direct, TypeOK, SPhases
<1>2. PhaseOK'
  BY DEF Process_Direct, PhaseOK, Accepting, Processing, TypeOK
<1>3. LifeOK'
  BY DEF Process_Direct, LifeOK, PhaseOK, Accepting, TypeOK
<1>4. ClosedOK'
  BY DEF Process_Direct, ClosedOK, PhaseOK, TypeOK
<1>5. RanOK'
  BY DEF Process_Direct, RanOK, TypeOK
<1>6. InstalledKept'
  BY DEF Process_Direct, InstalledKept, ClosedOK, PhaseOK, Accepting, TypeOK
<1>7. DestroyedOK'
  BY DEF Process_Direct, DestroyedOK, Held, LifeOK, InstalledKept, TypeOK
<1>8. RemovesOK'
  BY DEF Process_Direct, RemovesOK, LifeOK, ClosedOK, TypeOK
<1>9. RemovalOnItsWay'
  BY DEF Process_Direct, RemovalOnItsWay, PhaseOK, LifeOK, TypeOK
<1> QED BY <1>1, <1>2, <1>3, <1>4, <1>5, <1>6, <1>7, <1>8, <1>9

(* A client passes from todo into cur. *)
LEMMA Step_Process_Unlock ==
  ASSUME SInv, NEW c \in Clients, Process_Unlock(c)
  PROVE  SInv'
<1> USE ServerAssumption, ServerNoneAssumption, ServerBoundAssumption DEF SInv, acceptVars, loopVars
<1>1. TypeOK'
  BY DEF Process_Unlock, TypeOK, SPhases
<1>2. PhaseOK'
  BY DEF Process_Unlock, PhaseOK, ClosedOK, Accepting, Processing, TypeOK
<1>3. LifeOK'
  BY DEF Process_Unlock, LifeOK, PhaseOK, Accepting, TypeOK
<1>4. ClosedOK'
  BY DEF Process_Unlock, ClosedOK, PhaseOK, TypeOK
<1>5. RanOK'
  BY DEF Process_Unlock, RanOK, TypeOK
<1>6. InstalledKept'
  BY DEF Process_Unlock, InstalledKept, ClosedOK, PhaseOK, Accepting, TypeOK
<1>7. DestroyedOK'
  BY DEF Process_Unlock, DestroyedOK, Held, LifeOK, InstalledKept, TypeOK
<1>8. RemovesOK'
  BY DEF Process_Unlock, RemovesOK, LifeOK, ClosedOK, TypeOK
<1>9. RemovalOnItsWay'
  BY DEF Process_Unlock, RemovalOnItsWay, PhaseOK, LifeOK, TypeOK
<1> QED BY <1>1, <1>2, <1>3, <1>4, <1>5, <1>6, <1>7, <1>8, <1>9

(* A client passes from cur into the queue of its loop. *)
LEMMA Step_Process_Defer ==
  ASSUME SInv, Process_Defer
  PROVE  SInv'
<1> USE ServerAssumption, ServerNoneAssumption, ServerBoundAssumption DEF SInv, acceptVars, loopVars
<1>a. cur \in Clients /\ closes[cur] > 0 /\ loop[cur] \in Loops
  BY DEF Process_Defer, PhaseOK, LifeOK, TypeOK
<1>b. Grown(loop[cur], <<"remove", cur>>)
  <2>1. TypeOK /\ <<"remove", cur>> \in Calls /\ loop[cur] \in Loops
    BY <1>a DEF Calls
  <2>2. queue' = [queue EXCEPT ![loop[cur]] = Append(@, <<"remove", cur>>)]
    BY DEF Process_Defer
  <2> QED BY <2>1, <2>2, Deferred
<1>1. TypeOK'
  <2>1. queue' \in [Loops -> Seq({"closed", "remove"} \X Clients)]
    BY <1>b DEF Grown, Calls
  <2> QED BY <2>1 DEF Process_Defer, TypeOK
<1>2. PhaseOK'
  BY DEF Process_Defer, PhaseOK, Accepting, Processing, TypeOK
<1>3. LifeOK'
  BY DEF Process_Defer, LifeOK, PhaseOK, Accepting, TypeOK
<1>4. ClosedOK'
  <2>1. UNCHANGED <<closes, delaySet, notes>>
    BY DEF Process_Defer
  <2> QED BY <1>a, <1>b, <2>1 DEF Grown, ClosedOK
<1>5. RanOK'
  <2>1. UNCHANGED ran /\ queue \in [Loops -> Seq(Calls)] /\ ran \in [Loops -> Nat]
    BY DEF Process_Defer, TypeOK, Calls
  <2> QED BY <1>b, <2>1 DEF Grown, RanOK
<1>6. InstalledKept'
  BY DEF Process_Defer, InstalledKept, ClosedOK, PhaseOK, Accepting, TypeOK
<1>7. DestroyedOK'
  <2> SUFFICES ASSUME NEW d \in Clients, destroyedBy'[d] # None
               PROVE  ~ Held(d)' /\ closes'[d] > 0
    BY DEF DestroyedOK
  <2>1. UNCHANGED <<destroyedBy, closes, clients, delaySet, notes>> /\ cur' = None
    BY DEF Process_Defer
  <2>2. ~ Held(d) /\ closes[d] > 0
    BY <2>1 DEF DestroyedOK
  <2>3. d # cur /\ d # None
    BY <2>2 DEF Held
  <2>4. \A k \in Loops : \A i \in DOMAIN queue'[k] : queue'[k][i][2] # d
    BY <1>b, <2>2, <2>3 DEF Grown, Held
  <2> QED BY <2>1, <2>2, <2>3, <2>4 DEF Held
<1>8. RemovesOK'
  <2>1. UNCHANGED loop
    BY DEF Process_Defer
  <2> QED BY <1>b, <2>1 DEF Grown, RemovesOK
<1>9. RemovalOnItsWay'
  <2> SUFFICES ASSUME NEW d \in clients', closes'[d] > 0 PROVE OnItsWay(d)'
    BY DEF RemovalOnItsWay, OnItsWay, Noted, Waits
  <2>0. d \in clients /\ closes[d] > 0 => OnItsWay(d)
    BY DEF RemovalOnItsWay, OnItsWay, Noted, Waits
  <2>1. /\ d \in clients /\ closes[d] > 0 /\ d \in Clients /\ loop[d] \in Loops
        /\ UNCHANGED <<ran, loop, notes, delaySet, timer, todo, sPhase>>
    BY DEF Process_Defer, TypeOK, LifeOK
  <2>2. ASSUME Waits(d) PROVE Waits(d)'
    <3>1. PICK i \in DOMAIN queue[loop[d]] :
            i > ran[loop[d]] /\ queue[loop[d]][i] = <<"remove", d>>
      BY <2>2 DEF Waits
    <3>2. i \in DOMAIN queue'[loop[d]] /\ queue'[loop[d]][i] = queue[loop[d]][i]
      BY <1>b, <2>1, <3>1 DEF Grown
    <3>3. loop' = loop /\ ran' = ran
      BY <2>1
    <3> QED BY <3>1, <3>2, <3>3, Zenon DEF Waits
  <2>3. ASSUME d = cur PROVE Waits(d)'
    <3>1. PICK i \in DOMAIN queue'[loop[d]] :
            i = Len(queue[loop[d]]) + 1 /\ queue'[loop[d]][i] = <<"remove", d>>
      BY <1>b, <2>3 DEF Grown
    <3>2. i > ran[loop[d]]
      BY <2>1, <3>1 DEF RanOK, TypeOK
    <3> QED BY <2>1, <3>1, <3>2 DEF Waits
  <2>4. ~ Waits(d) /\ d # cur => OnItsWay(d)'
    BY <2>0, <2>1 DEF OnItsWay, Noted
  <2> QED BY <2>2, <2>3, <2>4 DEF OnItsWay
<1> QED BY <1>1, <1>2, <1>3, <1>4, <1>5, <1>6, <1>7, <1>8, <1>9

(* Nothing is in the hands of the server's thread. *)
LEMMA Step_Process_Relock ==
  ASSUME SInv, Process_Relock
  PROVE  SInv'
<1> USE ServerAssumption, ServerNoneAssumption, ServerBoundAssumption DEF SInv, acceptVars, loopVars
<1>1. TypeOK'
  BY DEF Process_Relock, TypeOK, SPhases
<1>2. PhaseOK'
  BY DEF Process_Relock, PhaseOK, Accepting, Processing, TypeOK
<1>3. LifeOK'
  BY DEF Process_Relock, LifeOK, PhaseOK, Accepting, TypeOK
<1>4. ClosedOK'
  BY DEF Process_Relock, ClosedOK, PhaseOK, TypeOK
<1>5. RanOK'
  BY DEF Process_Relock, RanOK, TypeOK
<1>6. InstalledKept'
  BY DEF Process_Relock, InstalledKept, ClosedOK, PhaseOK, Accepting, TypeOK
<1>7. DestroyedOK'
  BY DEF Process_Relock, DestroyedOK, Held, LifeOK, InstalledKept, TypeOK
<1>8. RemovesOK'
  BY DEF Process_Relock, RemovesOK, LifeOK, ClosedOK, TypeOK
<1>9. RemovalOnItsWay'
  BY DEF Process_Relock, RemovalOnItsWay, PhaseOK, LifeOK, TypeOK
<1> QED BY <1>1, <1>2, <1>3, <1>4, <1>5, <1>6, <1>7, <1>8, <1>9

(* What is still in clients_ waits elsewhere; what nobody holds has closed. *)
LEMMA Step_Process_End ==
  ASSUME SInv, Process_End
  PROVE  SInv'
<1> USE ServerAssumption, ServerNoneAssumption, ServerBoundAssumption DEF SInv, acceptVars, loopVars
<1>1. TypeOK'
  BY DEF Process_End, Drop, Alive, TypeOK, SPhases
<1>2. PhaseOK'
  BY DEF Process_End, Drop, Alive, PhaseOK, Accepting, Processing, TypeOK
<1>3. LifeOK'
  BY DEF Process_End, Drop, Alive, LifeOK, PhaseOK, Accepting, TypeOK
<1>4. ClosedOK'
  BY DEF Process_End, Drop, Alive, ClosedOK, PhaseOK, TypeOK
<1>5. RanOK'
  BY DEF Process_End, Drop, Alive, RanOK, TypeOK
<1>6. InstalledKept'
  BY DEF Process_End, Drop, Alive, InstalledKept, ClosedOK, PhaseOK, Accepting, TypeOK
<1>7. DestroyedOK'
  BY DEF Process_End, Drop, Alive, DestroyedOK, Held, LifeOK, InstalledKept, TypeOK
<1>8. RemovesOK'
  BY DEF Process_End, Drop, Alive, RemovesOK, LifeOK, ClosedOK, TypeOK
<1>9. RemovalOnItsWay'
  <2> SUFFICES ASSUME NEW d \in clients', closes'[d] > 0 PROVE OnItsWay(d)'
    BY DEF RemovalOnItsWay, OnItsWay, Noted, Waits
  <2>0. d \in clients /\ closes[d] > 0 => OnItsWay(d)
    BY DEF RemovalOnItsWay, OnItsWay, Noted, Waits
  <2>1. d \in clients /\ closes[d] > 0 /\ UNCHANGED <<queue, ran, loop, notes>>
    BY DEF Process_End
  <2>2. timer = FALSE /\ d \notin todo /\ cur = None
    BY DEF Process_End, PhaseOK, Processing
  <2>3. Noted(d) \/ Waits(d)
    BY <2>0, <2>1, <2>2, sPhase # "relock" DEF OnItsWay, Process_End
  <2> QED BY <2>1, <2>3 DEF OnItsWay, Noted, Waits
<1> QED BY <1>1, <1>2, <1>3, <1>4, <1>5, <1>6, <1>7, <1>8, <1>9

(* A loop begins to fire. *)
LEMMA Step_Fire ==
  ASSUME SInv, NEW l \in Loops, Fire(l)
  PROVE  SInv'
<1> USE ServerAssumption, ServerNoneAssumption, ServerBoundAssumption DEF SInv, acceptVars, loopVars
<1>1. TypeOK'
  BY DEF Fire, Idle, TypeOK, SPhases
<1>2. PhaseOK'
  BY DEF Fire, Idle, PhaseOK, Accepting, Processing, TypeOK
<1>3. LifeOK'
  BY DEF Fire, Idle, LifeOK, PhaseOK, Accepting, TypeOK
<1>4. ClosedOK'
  BY DEF Fire, Idle, ClosedOK, PhaseOK, TypeOK
<1>5. RanOK'
  BY DEF Fire, Idle, RanOK, TypeOK
<1>6. InstalledKept'
  BY DEF Fire, Idle, InstalledKept, ClosedOK, PhaseOK, Accepting, TypeOK
<1>7. DestroyedOK'
  BY DEF Fire, Idle, DestroyedOK, Held, LifeOK, InstalledKept, TypeOK
<1>8. RemovesOK'
  BY DEF Fire, Idle, RemovesOK, LifeOK, ClosedOK, TypeOK
<1>9. RemovalOnItsWay'
  BY DEF Fire, Idle, RemovalOnItsWay, PhaseOK, LifeOK, TypeOK
<1> QED BY <1>1, <1>2, <1>3, <1>4, <1>5, <1>6, <1>7, <1>8, <1>9

(* The call that has run is not a removal. *)
LEMMA Step_Fire_Closed ==
  ASSUME SInv, NEW l \in Loops, Fire_Closed(l)
  PROVE  SInv'
<1> USE ServerAssumption, ServerNoneAssumption, ServerBoundAssumption DEF SInv, acceptVars, loopVars
<1>1. TypeOK'
  BY DEF Fire_Closed, TypeOK, SPhases
<1>2. PhaseOK'
  BY DEF Fire_Closed, HasCall, NextCall, PhaseOK, Accepting, Processing, TypeOK
<1>3. LifeOK'
  BY DEF Fire_Closed, HasCall, NextCall, LifeOK, PhaseOK, Accepting, TypeOK
<1>4. ClosedOK'
  BY DEF Fire_Closed, HasCall, NextCall, ClosedOK, PhaseOK, TypeOK
<1>5. RanOK'
  BY DEF Fire_Closed, HasCall, NextCall, RanOK, TypeOK
<1>6. InstalledKept'
  BY DEF Fire_Closed, HasCall, NextCall, InstalledKept, ClosedOK, PhaseOK, Accepting, TypeOK
<1>7. DestroyedOK'
  BY DEF Fire_Closed, HasCall, NextCall, DestroyedOK, Held, LifeOK, InstalledKept, TypeOK
<1>8. RemovesOK'
  BY DEF Fire_Closed, HasCall, NextCall, RemovesOK, LifeOK, ClosedOK, TypeOK
<1>9. RemovalOnItsWay'
  <2> SUFFICES ASSUME NEW d \in clients', closes'[d] > 0 PROVE OnItsWay(d)'
    BY DEF RemovalOnItsWay, OnItsWay, Noted, Waits
  <2>0. d \in clients /\ closes[d] > 0 => OnItsWay(d)
    BY DEF RemovalOnItsWay, OnItsWay, Noted, Waits
  <2>1. /\ d \in clients /\ closes[d] > 0
        /\ UNCHANGED <<queue, loop, notes, delaySet, timer, todo, cur, sPhase>>
    BY DEF Fire_Closed
  <2>2. /\ ran[l] \in Nat /\ ran' = [ran EXCEPT ![l] = ran[l] + 1] /\ ran \in [Loops -> Nat]
        /\ queue[l][ran[l] + 1][1] = "closed"
    BY DEF Fire_Closed, HasCall, NextCall, TypeOK
  <2>3. ASSUME Waits(d) PROVE Waits(d)'
    <3>1. PICK i \in DOMAIN queue[loop[d]] :
            i > ran[loop[d]] /\ queue[loop[d]][i] = <<"remove", d>>
      BY <2>3 DEF Waits
    <3>0. loop[d] \in Loops
      BY <2>1 DEF TypeOK, LifeOK
    <3>2. i \in Nat /\ loop[d] \in Loops
      BY <3>0, SMTT(30) DEF TypeOK
    <3>3. i # ran[l] + 1 \/ loop[d] # l
      BY <2>2, <3>1
    <3>4. i > ran'[loop[d]]
      BY <2>2, <3>1, <3>2, <3>3
    <3> QED BY <2>1, <3>1, <3>4 DEF Waits
  <2>4. ~ Waits(d) => OnItsWay(d)'
    BY <2>0, <2>1 DEF OnItsWay, Noted
  <2> QED BY <2>3, <2>4 DEF OnItsWay
<1> QED BY <1>1, <1>2, <1>3, <1>4, <1>5, <1>6, <1>7, <1>8, <1>9

(* Only the lock changes. *)
LEMMA Step_Fire_RemoveLock ==
  ASSUME SInv, NEW l \in Loops, Fire_RemoveLock(l)
  PROVE  SInv'
<1> USE ServerAssumption, ServerNoneAssumption, ServerBoundAssumption DEF SInv, acceptVars, loopVars
<1>1. TypeOK'
  BY DEF Fire_RemoveLock, HasCall, NextCall, TypeOK, SPhases
<1>2. PhaseOK'
  BY DEF Fire_RemoveLock, HasCall, NextCall, PhaseOK, Accepting, Processing, TypeOK
<1>3. LifeOK'
  BY DEF Fire_RemoveLock, HasCall, NextCall, LifeOK, PhaseOK, Accepting, TypeOK
<1>4. ClosedOK'
  BY DEF Fire_RemoveLock, HasCall, NextCall, ClosedOK, PhaseOK, TypeOK
<1>5. RanOK'
  BY DEF Fire_RemoveLock, HasCall, NextCall, RanOK, TypeOK
<1>6. InstalledKept'
  BY DEF Fire_RemoveLock, HasCall, NextCall, InstalledKept, ClosedOK, PhaseOK, Accepting, TypeOK
<1>7. DestroyedOK'
  BY DEF Fire_RemoveLock, HasCall, NextCall, DestroyedOK, Held, LifeOK, InstalledKept, TypeOK
<1>8. RemovesOK'
  BY DEF Fire_RemoveLock, HasCall, NextCall, RemovesOK, LifeOK, ClosedOK, TypeOK
<1>9. RemovalOnItsWay'
  BY DEF Fire_RemoveLock, HasCall, NextCall, RemovalOnItsWay, PhaseOK, LifeOK, TypeOK
<1> QED BY <1>1, <1>2, <1>3, <1>4, <1>5, <1>6, <1>7, <1>8, <1>9

(* The client whose removal has run is out of clients_. *)
LEMMA Step_Fire_Remove ==
  ASSUME SInv, NEW l \in Loops, Fire_Remove(l)
  PROVE  SInv'
<1> USE ServerAssumption, ServerNoneAssumption, ServerBoundAssumption DEF SInv, acceptVars, loopVars
<1>1. TypeOK'
  BY SMTT(30) DEF Fire_Remove, HasCall, NextCall, TypeOK, SPhases
<1>2. PhaseOK'
  <2>1. Accepting => cur \in Clients /\ ~ (closes[cur] > 0)
    BY DEF PhaseOK, LifeOK
  <2>2. closes[queue[l][ran[l] + 1][2]] > 0
    <3>1. ran[l] + 1 \in DOMAIN queue[l]
      BY DEF Fire_Remove, HasCall, TypeOK
    <3> QED BY <3>1 DEF ClosedOK
  <2>3. Accepting /\ cur \in clients => cur \in clients'
    BY <2>1, <2>2 DEF Fire_Remove, NextCall
  <2> QED BY <2>3 DEF Fire_Remove, PhaseOK, Accepting, Processing
<1>3. LifeOK'
  BY DEF Fire_Remove, HasCall, NextCall, LifeOK, PhaseOK, Accepting, TypeOK
<1>4. ClosedOK'
  BY DEF Fire_Remove, HasCall, NextCall, ClosedOK, PhaseOK, TypeOK
<1>5. RanOK'
  BY DEF Fire_Remove, HasCall, NextCall, RanOK, TypeOK
<1>6. InstalledKept'
  BY DEF Fire_Remove, HasCall, NextCall, InstalledKept, ClosedOK, PhaseOK, Accepting, TypeOK
<1>7. DestroyedOK'
  BY DEF Fire_Remove, HasCall, NextCall, DestroyedOK, Held, LifeOK, InstalledKept, TypeOK
<1>8. RemovesOK'
  BY DEF Fire_Remove, HasCall, NextCall, RemovesOK, LifeOK, ClosedOK, TypeOK
<1>9. RemovalOnItsWay'
  <2> SUFFICES ASSUME NEW d \in clients', closes'[d] > 0 PROVE OnItsWay(d)'
    BY DEF RemovalOnItsWay, OnItsWay, Noted, Waits
  <2>0. d \in clients /\ closes[d] > 0 => OnItsWay(d)
    BY DEF RemovalOnItsWay, OnItsWay, Noted, Waits
  <2>1. /\ d \in clients /\ closes[d] > 0 /\ d # queue[l][ran[l] + 1][2]
        /\ UNCHANGED <<queue, loop, notes, delaySet, timer, todo, cur, sPhase>>
    BY DEF Fire_Remove, NextCall
  <2>2. ran[l] \in Nat /\ ran' = [ran EXCEPT ![l] = ran[l] + 1] /\ ran \in [Loops -> Nat]
    BY DEF Fire_Remove, TypeOK
  <2>3. ASSUME Waits(d) PROVE Waits(d)'
    <3>1. PICK i \in DOMAIN queue[loop[d]] :
            i > ran[loop[d]] /\ queue[loop[d]][i] = <<"remove", d>>
      BY <2>3 DEF Waits
    <3>0. loop[d] \in Loops
      BY <2>1 DEF TypeOK, LifeOK
    <3>2. i \in Nat /\ loop[d] \in Loops
      BY <3>0, SMTT(30) DEF TypeOK
    <3>3. i # ran[l] + 1 \/ loop[d] # l
      BY <2>1, <3>1
    <3>4. i > ran'[loop[d]]
      BY <2>2, <3>1, <3>2, <3>3
    <3> QED BY <2>1, <3>1, <3>4 DEF Waits
  <2>4. ~ Waits(d) => OnItsWay(d)'
    BY <2>0, <2>1 DEF OnItsWay, Noted
  <2> QED BY <2>3, <2>4 DEF OnItsWay
<1> QED BY <1>1, <1>2, <1>3, <1>4, <1>5, <1>6, <1>7, <1>8, <1>9

(* All calls have run: none of them is waited for. *)
LEMMA Step_Fire_Clear ==
  ASSUME SInv, NEW l \in Loops, Fire_Clear(l)
  PROVE  SInv'
<1> USE ServerAssumption, ServerNoneAssumption, ServerBoundAssumption DEF SInv, acceptVars, loopVars
<1>1. TypeOK'
  BY DEF Fire_Clear, Drop, Alive, TypeOK, SPhases
<1>2. PhaseOK'
  BY DEF Fire_Clear, Drop, Alive, PhaseOK, Accepting, Processing, TypeOK
<1>3. LifeOK'
  BY DEF Fire_Clear, Drop, Alive, LifeOK, PhaseOK, Accepting, TypeOK
<1>4. ClosedOK'
  BY DEF Fire_Clear, Drop, Alive, ClosedOK, PhaseOK, TypeOK
<1>5. RanOK'
  BY DEF Fire_Clear, Drop, Alive, RanOK, TypeOK
<1>6. InstalledKept'
  BY DEF Fire_Clear, Drop, Alive, InstalledKept, ClosedOK, PhaseOK, Accepting, TypeOK
<1>7. DestroyedOK'
  BY DEF Fire_Clear, Drop, Alive, DestroyedOK, Held, LifeOK, InstalledKept, TypeOK
<1>8. RemovesOK'
  BY DEF Fire_Clear, Drop, Alive, RemovesOK, LifeOK, ClosedOK, TypeOK
<1>9. RemovalOnItsWay'
  <2> SUFFICES ASSUME NEW d \in clients', closes'[d] > 0 PROVE OnItsWay(d)'
    BY DEF RemovalOnItsWay, OnItsWay, Noted, Waits
  <2>0. d \in clients /\ closes[d] > 0 => OnItsWay(d)
    BY DEF RemovalOnItsWay, OnItsWay, Noted, Waits
  <2>1. /\ d \in clients /\ closes[d] > 0
        /\ UNCHANGED <<loop, notes, delaySet, timer, todo, cur, sPhase>>
    BY DEF Fire_Clear
  <2>2. /\ ran[l] = Len(queue[l]) /\ queue[l] \in Seq(Calls) /\ loop[d] \in Loops
        /\ \A k \in Loops \ {l} : queue'[k] = queue[k] /\ ran'[k] = ran[k]
    BY <2>1 DEF Fire_Clear, TypeOK, LifeOK, Calls
  <2>3. ASSUME Waits(d) PROVE Waits(d)'
    <3>1. PICK i \in DOMAIN queue[loop[d]] :
            i > ran[loop[d]] /\ queue[loop[d]][i] = <<"remove", d>>
      BY <2>3 DEF Waits
    <3>2. loop[d] # l
      BY <2>2, <3>1
    <3> QED BY <2>1, <2>2, <3>1, <3>2 DEF Waits
  <2>4. ~ Waits(d) => OnItsWay(d)'
    BY <2>0, <2>1 DEF OnItsWay, Noted
  <2> QED BY <2>3, <2>4 DEF OnItsWay
<1> QED BY <1>1, <1>2, <1>3, <1>4, <1>5, <1>6, <1>7, <1>8, <1>9

-----------------------------------------------------------------------------
(* The initial state satisfies the invariant. *)
LEMMA InitSInv == Init => SInv
<1> SUFFICES ASSUME Init PROVE SInv
  OBVIOUS
<1> USE ServerAssumption, ServerNoneAssumption, ServerBoundAssumption DEF Init
<1>1. TypeOK
  <2>1. queue \in [Loops -> Seq({"closed", "remove"} \X Clients)] /\ notes \in Seq(Clients)
    OBVIOUS
  <2>2. ran \in [Loops -> Nat] /\ closes \in [Clients -> 0 .. MaxCloses]
    OBVIOUS
  <2>3. firing \in [Loops -> BOOLEAN] /\ timer \in BOOLEAN
    OBVIOUS
  <2> QED BY <2>1, <2>2, <2>3 DEF TypeOK, SPhases
<1>2. PhaseOK /\ LifeOK
  BY DEF PhaseOK, LifeOK, Accepting, Processing
<1>3. ClosedOK /\ RanOK /\ RemovesOK
  BY DEF ClosedOK, RanOK, RemovesOK
<1>4. InstalledKept /\ DestroyedOK /\ RemovalOnItsWay
  BY DEF InstalledKept, DestroyedOK, RemovalOnItsWay
<1> QED BY <1>1, <1>2, <1>3, <1>4 DEF SInv

(* Every step keeps it. *)
LEMMA NextSInv == SInv /\ [Next]_svars => SInv'
<1> SUFFICES ASSUME SInv, [Next]_svars PROVE SInv'
  OBVIOUS
<1>1. CASE UNCHANGED svars
  <2> USE <1>1 DEF svars, SInv
  <2>1. TypeOK'
    BY DEF TypeOK
  <2>2. PhaseOK' /\ LifeOK'
    BY DEF PhaseOK, LifeOK, Accepting, Processing
  <2>3. ClosedOK' /\ RanOK' /\ RemovesOK'
    BY DEF ClosedOK, RanOK, RemovesOK
  <2>4. InstalledKept' /\ DestroyedOK'
    BY DEF InstalledKept, DestroyedOK, Held
  <2>5. RemovalOnItsWay'
    BY DEF RemovalOnItsWay
  <2> QED BY <2>1, <2>2, <2>3, <2>4, <2>5
<1>2. ASSUME NEW c \in Clients, SocketClose(c) \/ \E l \in Loops : Accept(c, l) PROVE SInv'
  BY <1>2, Step_SocketClose, Step_Accept
<1>3. CASE ServerStep
  BY <1>3, Step_Accept_Insert, Step_Accept_Register, Step_Accept_Install, Step_CloseNote,
     Step_Process, Step_Process_Direct, Step_Process_Unlock, Step_Process_Defer,
     Step_Process_Relock, Step_Process_End DEF ServerStep
<1>4. ASSUME NEW l \in Loops, FireStep(l) PROVE SInv'
  BY <1>4, Step_Fire, Step_Fire_Closed, Step_Fire_RemoveLock, Step_Fire_Remove, Step_Fire_Clear
     DEF FireStep
<1> QED BY <1>1, <1>2, <1>3, <1>4 DEF Next

(* The invariant holds always. *)
LEMMA AlwaysSInv == Spec => []SInv
  BY InitSInv, NextSInv, PTL DEF Spec

(* Only clients that closed leave clients_, what is destroyed is in         *)
(* nobody's hands, and removals wait in the client's own loop: for any      *)
(* number of clients and loops (onDelayedClientRemove asserts the last).    *)
THEOREM ClientsAlwaysKept == Spec => []ClientsKept
<1>1. SInv => ClientsKept
  BY DEF SInv, ClientsKept, InstalledKept, DestroyedOK, RemovesOK
<1> QED BY <1>1, AlwaysSInv, PTL

(* No close event is forgotten: while a client that has closed is still in  *)
(* clients_, its removal is on its way, whatever comes in while the         *)
(* iteration over the delay set is unlocked.                                *)
THEOREM RemovalAlwaysOnItsWay == Spec => []RemovalOnItsWay
<1>1. SInv => RemovalOnItsWay
  BY DEF SInv
<1> QED BY <1>1, AlwaysSInv, PTL
=============================================================================
