----------------------------- MODULE RedisRequest -----------------------------
(***************************************************************************)
(* RedisRequest.cpp: commands that any thread issues, tickets, the commands *)
(* reserved for the next connection, answers, cancellation, time to live    *)
(* and reconnection, over a hiredis context.                                *)
(*                                                                         *)
(* One action is one callback or timer on the loop's thread, or one step of *)
(* command() on the thread that calls it.  The code looks up and removes a  *)
(* handler under lockRedis_, except for a null reply, whose look-up is done *)
(* without it (line 341): that too is one step here.  hiredis is external:  *)
(* it sends commands and returns their replies in order, and when a context *)
(* goes it answers what is outstanding with a null reply.                   *)
(***************************************************************************)
EXTENDS Naturals, Sequences, SequencesExt

CONSTANTS Commands,    \* one element per invocation of command()
          Loop,        \* the thread of the IOService
          Callers,     \* the other threads
          TtlCommands, \* the commands with a timeout
          TtlThreads,  \* the threads that issue them
          Ttl,         \* their timeout, in ticks of TIMER_ID_COMMAND_TTL
          TicketRace,  \* two threads may be inside issueTicket at once
          EarlyCancel, \* cancel() may come before the deferred _command has run
          UserCloses,  \* the application calls close()
          None         \* no thread; the answer of a command that failed

ASSUME ThreadAssumption == Loop \notin Callers
ASSUME TtlAssumption ==
  TtlCommands \subseteq Commands /\ TtlThreads \subseteq Callers \cup {Loop} /\ Ttl \in Nat \ {0}
ASSUME RedisNoneAssumption == None \notin Commands \cup Callers \cup {Loop}
ASSUME SwitchAssumption == {TicketRace, EarlyCancel, UserCloses} \subseteq BOOLEAN

RThreads == Callers \cup {Loop}
RStates == {"INIT", "CONNECTING", "CONNECTED", "CONNECTFAILED", "CLOSED", "RECONECTREADY"}

VARIABLES
  rstate,      \* state_
  context,     \* redisContext_: "none", "connecting", "connected", or being
               \* freed: "lost" by the peer, "closing" by close()
  connTimer, reconTimer, ttlTimer,  \* the three timers are running
  sTicket,     \* s_ticket
  step,        \* where command() is: "new", "read", "insert", "post", "done"
  caller,      \* the thread that is inside of it, or None
  ticket,      \* its ticket
  mapCallback, \* mapCallback_: ticket -> [cmd, ttl]
  deferred,    \* deferred _command calls, <<ticket, command>>
  reserved,    \* reservedCommands_, <<ticket, command>>
  inflight,    \* what the present context has to answer, <<ticket, command>>
  sends,       \* history: how often a command was sent, up to 2
  heard,       \* history: what its handler was called with
  cancelled,   \* history: commands that were cancelled
  overlap,     \* history: the application made the present context while
               \* the reconnect timer was running
  assertFailed \* the assertion of the reconnect timer has failed

timers == <<connTimer, reconTimer, ttlTimer>>
calls == <<sTicket, step, caller, ticket>>
rvars == <<rstate, context, timers, calls, mapCallback, deferred, reserved,
           inflight, sends, heard, cancelled, overlap, assertFailed>>

Init ==
  /\ rstate = "INIT" /\ context = "none"
  /\ connTimer = FALSE /\ reconTimer = FALSE /\ ttlTimer = FALSE
  /\ sTicket = 1
  /\ step = [c \in Commands |-> "new"]
  /\ caller = [c \in Commands |-> None]
  /\ ticket = [c \in Commands |-> 0]
  /\ mapCallback = <<>> /\ deferred = <<>> /\ reserved = <<>> /\ inflight = <<>>
  /\ sends = [c \in Commands |-> 0]
  /\ heard = [c \in Commands |-> <<>>]
  /\ cancelled = {} /\ overlap = FALSE /\ assertFailed = FALSE

-----------------------------------------------------------------------------
Inside(t) == \E c \in Commands : caller[c] = t

(* The loop's thread is between two events. *)
LoopFree == ~ Inside(Loop) /\ context \notin {"lost", "closing"} /\ ~ assertFailed

Without(f, ks) == [k \in DOMAIN f \ ks |-> f[k]]

(* redisAsyncCommandArgv for a sequence of commands *)
Send(cmds) ==
  /\ inflight' = inflight \o cmds
  /\ sends' = [c \in Commands |->
                 IF \E i \in DOMAIN cmds : cmds[i][2] = c /\ sends[c] < 2
                 THEN sends[c] + 1 ELSE sends[c]]

(* Faulty variant: the reserved command is forgotten about. *)
RemoveContext_KeepsReserved(k) ==
  /\ mapCallback' = Without(mapCallback, {k})
  /\ UNCHANGED reserved

(* _removeContext *)
RemoveContext(k) ==
  /\ mapCallback' = Without(mapCallback, {k})
  /\ reserved' = RemoveFirstMatch(reserved, LAMBDA r : r[1] = k)

(* Faulty variant: the handler stays registered. *)
Answer_KeepsContext(k, reply) ==
  /\ heard' = IF k \in DOMAIN mapCallback
              THEN [heard EXCEPT ![mapCallback[k].cmd] = Append(@, reply)]
              ELSE heard
  /\ UNCHANGED <<mapCallback, reserved>>

(* fire_onRedisRequest_Response and fire_onRedisRequest_Error: the handler  *)
(* of the ticket, if it is still registered, is called and removed.         *)
Answer(k, reply) ==
  IF k \in DOMAIN mapCallback
  THEN /\ heard' = [heard EXCEPT ![mapCallback[k].cmd] = Append(@, reply)]
       /\ RemoveContext(k)
  ELSE UNCHANGED <<heard, mapCallback, reserved>>

(* _command: sends, or reserves for the next connection. *)
Command(r) ==
  IF rstate = "CONNECTED"
  THEN Send(<<r>>) /\ UNCHANGED reserved
  ELSE reserved' = Append(reserved, r) /\ UNCHANGED <<inflight, sends>>

-----------------------------------------------------------------------------
(* command(), on thread t *)

(* issueTicket increments s_ticket ... *)
Issue_Increase(t, c) ==
  /\ step[c] = "new" /\ ~ Inside(t) /\ ~ assertFailed
  /\ t = Loop => LoopFree
  /\ c \in TtlCommands => t \in TtlThreads
  /\ TicketRace \/ \A d \in Commands : step[d] # "read"
  /\ sTicket' = sTicket + 1
  /\ step' = [step EXCEPT ![c] = "read"]
  /\ caller' = [caller EXCEPT ![c] = t]
  /\ UNCHANGED <<rstate, context, timers, ticket, mapCallback, deferred, reserved,
                 inflight, sends, heard, cancelled, overlap, assertFailed>>

(* ... and reads it in a second step.  A timeout starts the timer. *)
Issue_Read(c) ==
  /\ step[c] = "read"
  /\ ticket' = [ticket EXCEPT ![c] = sTicket]
  /\ ttlTimer' = (ttlTimer \/ c \in TtlCommands)
  /\ step' = [step EXCEPT ![c] = "insert"]
  /\ UNCHANGED <<rstate, context, connTimer, reconTimer, sTicket, caller, mapCallback,
                 deferred, reserved, inflight, sends, heard, cancelled, overlap, assertFailed>>

(* std::map::insert, which leaves an entry of the same ticket alone. *)
Command_Insert(c) ==
  /\ step[c] = "insert"
  /\ mapCallback' =
       [k \in DOMAIN mapCallback \cup {ticket[c]} |->
          IF k \in DOMAIN mapCallback THEN mapCallback[k]
          ELSE [cmd |-> c, ttl |-> IF c \in TtlCommands THEN Ttl ELSE 0]]
  /\ step' = [step EXCEPT ![c] = "post"]
  /\ UNCHANGED <<rstate, context, timers, sTicket, caller, ticket, deferred, reserved,
                 inflight, sends, heard, cancelled, overlap, assertFailed>>

(* On the loop's thread _command is called at once, else it is deferred. *)
Command_Post(c) ==
  /\ step[c] = "post"
  /\ IF caller[c] = Loop
     THEN Command(<<ticket[c], c>>) /\ UNCHANGED deferred
     ELSE /\ deferred' = Append(deferred, <<ticket[c], c>>)
          /\ UNCHANGED <<reserved, inflight, sends>>
  /\ step' = [step EXCEPT ![c] = "done"]
  /\ caller' = [caller EXCEPT ![c] = None]
  /\ UNCHANGED <<rstate, context, timers, sTicket, ticket, mapCallback, heard,
                 cancelled, overlap, assertFailed>>

Command_Deferred ==
  /\ LoopFree /\ deferred # <<>>
  /\ Command(Head(deferred))
  /\ deferred' = Tail(deferred)
  /\ UNCHANGED <<rstate, context, timers, calls, mapCallback, heard, cancelled, overlap, assertFailed>>

(* cancel(), by any thread, once command() has returned the ticket. *)
Cancel(c) ==
  /\ step[c] = "done" /\ c \notin cancelled /\ ~ assertFailed
  /\ EarlyCancel \/ \A i \in DOMAIN deferred : deferred[i][2] # c
  /\ RemoveContext(ticket[c])
  /\ cancelled' = cancelled \cup {c}
  /\ UNCHANGED <<rstate, context, timers, calls, deferred, inflight, sends, heard, overlap, assertFailed>>

-----------------------------------------------------------------------------
(* The connection, on the loop's thread *)

(* connect(): with err the context is created with an error that hiredis    *)
(* reports through the connect callback.                                    *)
Connect ==
  /\ context' = "connecting" /\ connTimer' = TRUE
  /\ rstate' \in {"CONNECTING", "CONNECTFAILED"}

reconnect == rstate' = "RECONECTREADY" /\ reconTimer' = TRUE

(* The application's connect(), which throws if there is a context.  It     *)
(* does not stop a reconnect timer that is running.                         *)
UserConnect ==
  /\ LoopFree /\ context = "none"
  /\ Connect
  /\ overlap' = reconTimer
  /\ UNCHANGED <<reconTimer, ttlTimer, calls, mapCallback, deferred, reserved,
                 inflight, sends, heard, cancelled, assertFailed>>

(* fire_onRedisRequest_Connected: everything reserved is sent, and stays    *)
(* reserved until it is answered.                                           *)
ConnectCallback_Ok ==
  /\ LoopFree /\ context = "connecting" /\ rstate = "CONNECTING"
  /\ rstate' = "CONNECTED" /\ context' = "connected" /\ connTimer' = FALSE
  /\ Send(reserved)
  /\ UNCHANGED <<reconTimer, ttlTimer, calls, mapCallback, deferred, reserved, heard,
                 cancelled, overlap, assertFailed>>

(* fire_onRedisRequest_ConnectFailed *)
ConnectCallback_Failed ==
  /\ LoopFree /\ context = "connecting"
  /\ context' = "none" /\ overlap' = FALSE /\ connTimer' = FALSE
  /\ reconnect
  /\ UNCHANGED <<ttlTimer, calls, mapCallback, deferred, reserved, inflight, sends,
                 heard, cancelled, assertFailed>>

(* getCallback with a reply *)
GetCallback_Reply ==
  /\ LoopFree /\ context = "connected" /\ inflight # <<>>
  /\ Answer(Head(inflight)[1], Head(inflight)[2])
  /\ inflight' = Tail(inflight)
  /\ UNCHANGED <<rstate, context, timers, calls, deferred, sends, cancelled, overlap, assertFailed>>

(* The connection is lost: hiredis begins to free the context ... *)
ConnectionLost ==
  /\ LoopFree /\ context = "connected"
  /\ context' = "lost"
  /\ UNCHANGED <<rstate, timers, calls, mapCallback, deferred, reserved, inflight,
                 sends, heard, cancelled, overlap, assertFailed>>

(* Faulty variant: a null reply is ignored. *)
GetCallback_Null_Ignored ==
  /\ context \in {"lost", "closing"} /\ inflight # <<>>
  /\ inflight' = Tail(inflight)
  /\ UNCHANGED <<rstate, context, timers, calls, mapCallback, deferred, reserved, sends,
                 heard, cancelled, overlap, assertFailed>>

(* ... answers what is outstanding with null replies ... *)
GetCallback_Null ==
  /\ context \in {"lost", "closing"} /\ inflight # <<>>
  /\ Answer(Head(inflight)[1], None)
  /\ inflight' = Tail(inflight)
  /\ UNCHANGED <<rstate, context, timers, calls, deferred, sends, cancelled, overlap, assertFailed>>

(* Faulty variant: redisContext_ keeps pointing to the freed context. *)
DisconnectCallback_KeepsContext ==
  /\ context = "lost" /\ inflight = <<>>
  /\ context' = "connecting" /\ overlap' = FALSE
  /\ reconnect
  /\ UNCHANGED <<connTimer, ttlTimer, calls, mapCallback, deferred, reserved, inflight,
                 sends, heard, cancelled, assertFailed>>

(* ... and calls disconnectCallback: fire_onRedisRequest_Closed. *)
DisconnectCallback ==
  /\ context = "lost" /\ inflight = <<>>
  /\ context' = "none" /\ overlap' = FALSE
  /\ reconnect
  /\ UNCHANGED <<connTimer, ttlTimer, calls, mapCallback, deferred, reserved, inflight,
                 sends, heard, cancelled, assertFailed>>

(* close(): the callbacks of the connection are taken out, the context is   *)
(* freed; the timers run on.                                                *)
Close ==
  /\ LoopFree /\ UserCloses
  /\ IF context = "none"
     THEN rstate' = "CLOSED" /\ UNCHANGED context
     ELSE context' = "closing" /\ UNCHANGED rstate
  /\ UNCHANGED <<timers, calls, mapCallback, deferred, reserved, inflight, sends,
                 heard, cancelled, overlap, assertFailed>>

Close_End ==
  /\ context = "closing" /\ inflight = <<>>
  /\ context' = "none" /\ overlap' = FALSE /\ rstate' = "CLOSED"
  /\ UNCHANGED <<timers, calls, mapCallback, deferred, reserved, inflight, sends,
                 heard, cancelled, assertFailed>>

-----------------------------------------------------------------------------
(* onTimer_Timer *)

(* Faulty variant: no new attempt after a timeout. *)
Timer_ConnectionTimeout_GivesUp ==
  /\ LoopFree /\ connTimer
  /\ connTimer' = FALSE
  /\ context' = "none" /\ overlap' = FALSE /\ rstate' = "CONNECTFAILED"
  /\ UNCHANGED <<reconTimer, ttlTimer, calls, mapCallback, deferred, reserved, inflight,
                 sends, heard, cancelled, assertFailed>>

(* TIMER_ID_CONNECTION_TIMEOUT, with or without a context *)
Timer_ConnectionTimeout ==
  /\ LoopFree /\ connTimer
  /\ connTimer' = FALSE
  /\ context' = "none" /\ overlap' = FALSE
  /\ reconnect
  /\ UNCHANGED <<ttlTimer, calls, mapCallback, deferred, reserved, inflight, sends,
                 heard, cancelled, assertFailed>>

(* TIMER_ID_RECONNECT, with its assertion, which ends the program *)
Timer_Reconnect ==
  /\ LoopFree /\ reconTimer
  /\ reconTimer' = FALSE
  /\ IF context = "none"
     THEN Connect /\ UNCHANGED assertFailed
     ELSE assertFailed' = TRUE /\ UNCHANGED <<rstate, context, connTimer>>
  /\ UNCHANGED <<ttlTimer, calls, mapCallback, deferred, reserved, inflight, sends,
                 heard, cancelled, overlap>>

(* TIMER_ID_COMMAND_TTL: every ticket with a time to live loses a tick, the *)
(* expired ones are answered with an error; without any the timer is killed.*)
HasTtl(k) == mapCallback[k].ttl > 0
Expired == {k \in DOMAIN mapCallback : mapCallback[k].ttl = 1}

(* reservedCommands_ without the commands of some tickets. *)
Unreserve(cmds, ks) ==
  LET Keep[i \in 0..Len(cmds)] == IF i = 0 THEN <<>>
                                  ELSE IF cmds[i][1] \in ks THEN Keep[i - 1]
                                  ELSE Append(Keep[i - 1], cmds[i])
  IN Keep[Len(cmds)]

(* Faulty variant: the timer is killed when a ticket expires. *)
Timer_CommandTtl_KilledByExpiry ==
  /\ LoopFree /\ ttlTimer
  /\ mapCallback' = [k \in DOMAIN mapCallback \ Expired |->
                       IF HasTtl(k) THEN [mapCallback[k] EXCEPT !.ttl = @ - 1] ELSE mapCallback[k]]
  /\ heard' = [c \in Commands |->
                 IF \E k \in Expired : mapCallback[k].cmd = c THEN Append(heard[c], None)
                 ELSE heard[c]]
  /\ reserved' = Unreserve(reserved, Expired)
  /\ ttlTimer' = (Expired = {})
  /\ UNCHANGED <<rstate, context, connTimer, reconTimer, calls, deferred, inflight,
                 sends, cancelled, overlap, assertFailed>>

Timer_CommandTtl ==
  /\ LoopFree /\ ttlTimer
  /\ mapCallback' = [k \in DOMAIN mapCallback \ Expired |->
                       IF HasTtl(k) THEN [mapCallback[k] EXCEPT !.ttl = @ - 1] ELSE mapCallback[k]]
  /\ heard' = [c \in Commands |->
                 IF \E k \in Expired : mapCallback[k].cmd = c THEN Append(heard[c], None)
                 ELSE heard[c]]
  /\ reserved' = Unreserve(reserved, Expired)
  /\ ttlTimer' = (\E k \in DOMAIN mapCallback : HasTtl(k))
  /\ UNCHANGED <<rstate, context, connTimer, reconTimer, calls, deferred, inflight,
                 sends, cancelled, overlap, assertFailed>>

-----------------------------------------------------------------------------
CommandStep(c) ==
  ~ assertFailed /\ (Issue_Read(c) \/ Command_Insert(c) \/ Command_Post(c))

Callback == \/ ConnectCallback_Failed \/ GetCallback_Reply
            \/ GetCallback_Null \/ DisconnectCallback \/ Close_End

(* The program has ended. *)
Terminated == assertFailed /\ UNCHANGED rvars

Next ==
  \/ \E t \in RThreads, c \in Commands : Issue_Increase(t, c)
  \/ \E c \in Commands : CommandStep(c) \/ Cancel(c)
  \/ Command_Deferred \/ UserConnect \/ ConnectCallback_Ok \/ Callback
  \/ ConnectionLost \/ Close
  \/ Timer_ConnectionTimeout \/ Timer_Reconnect \/ Timer_CommandTtl
  \/ Terminated

Spec == Init /\ [][Next]_rvars

(* Threads finish the calls they have begun and the loop delivers what is   *)
(* ready.  The application connects.  A connection that is attempted again  *)
(* and again is established at some time: the server is not away for ever.  *)
FairSpec ==
  /\ Spec
  /\ WF_rvars(\E c \in Commands : CommandStep(c))
  /\ WF_rvars(UserConnect /\ rstate = "INIT")
  /\ SF_rvars(Command_Deferred)
  /\ WF_rvars(GetCallback_Null \/ DisconnectCallback \/ Close_End)
  /\ SF_rvars(GetCallback_Reply)
  /\ SF_rvars(ConnectCallback_Ok)
  /\ SF_rvars(Timer_Reconnect /\ rstate' = "CONNECTING")
  /\ WF_rvars(Timer_ConnectionTimeout)
  /\ SF_rvars(Timer_CommandTtl)

-----------------------------------------------------------------------------
(* The type invariant. *)
Tickets == 2..(sTicket)
Posted == Tickets \X Commands
TypeOK ==
  /\ rstate \in RStates
  /\ context \in {"none", "connecting", "connected", "lost", "closing"}
  /\ {connTimer, reconTimer, ttlTimer, overlap, assertFailed} \subseteq BOOLEAN
  /\ sTicket \in Nat
  /\ step \in [Commands -> {"new", "read", "insert", "post", "done"}]
  /\ caller \in [Commands -> RThreads \cup {None}]
  /\ ticket \in [Commands -> Tickets \cup {0}]
  /\ DOMAIN mapCallback \subseteq Tickets
  /\ \A k \in DOMAIN mapCallback : mapCallback[k] \in [cmd : Commands, ttl : 0..Ttl]
  /\ {deferred, reserved, inflight} \subseteq Seq(Posted)
  /\ sends \in [Commands -> 0..2]
  /\ heard \in [Commands -> Seq(Commands \cup {None})]
  /\ cancelled \subseteq Commands

(* A handler is called at most once, with the reply to its own command or   *)
(* with a failure, whatever cancellations, expiries, lost connections and   *)
(* late replies there are.                                                  *)
AnsweredOnce ==
  \A c \in Commands : Len(heard[c]) <= 1 /\ ToSet(heard[c]) \subseteq {c, None}

(* No command is sent twice, although reservedCommands_ is not emptied when *)
(* its commands are sent.                                                   *)
SentOnce == \A c \in Commands : sends[c] <= 1

(* No registered handler is forgotten: its command waits in the deferred    *)
(* queue, in reservedCommands_ or at hiredis.                               *)
In(s, c) == \E i \in DOMAIN s : s[i][2] = c
NothingForgotten ==
  \A k \in DOMAIN mapCallback :
    LET c == mapCallback[k].cmd
    IN step[c] = "done" => In(deferred, c) \/ In(reserved, c) \/ In(inflight, c)

(* state_, the timers and the context agree, although close() stops neither *)
(* timer: an attempt has its timeout, no timeout is left once connected,    *)
(* and commands are sent only while there is a context.  When the reconnect *)
(* timer fires there is no context ("redisContext_ MUST be freed before     *)
(* reconnect()"), except for one that the application made by connect()     *)
(* while the timer was running: only then does the assertion fail.          *)
TimersMatchConnection ==
  /\ TypeOK
  /\ context = "connecting" => connTimer
  /\ context = "connected" => rstate = "CONNECTED" /\ ~ connTimer
  /\ rstate = "CONNECTED" => context \in {"connected", "lost", "closing"}
  /\ reconTimer => context = "none" \/ overlap
  /\ assertFailed => overlap

(* A registered command with a time to live has the timer that ends it.     *)
TtlIsServed == (\E k \in DOMAIN mapCallback : HasTtl(k)) => ttlTimer

(* Every command is answered in the end, unless it is cancelled, the        *)
(* application leaves the client closed or closes it again and again, or    *)
(* the assertion ends the program: commands wait for the next connection,   *)
(* and a lost or refused one is always tried again.                         *)
Settled(c) == heard[c] # <<>> \/ c \in cancelled \/ assertFailed
EveryCommandAnswered ==
  \/ []<>(rstate = "CLOSED")
  \/ <>[](\A c \in Commands : step[c] = "done" => Settled(c))
=============================================================================
