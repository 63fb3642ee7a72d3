-------------------------- MODULE RedisRequestProofs --------------------------
(***************************************************************************)
(* Proofs about RedisRequest, for any commands, threads and time to live,  *)
(* in four layers, each under no more than it needs of the application:    *)
(*   Base    nothing: types, the queues, the connection and its timers;    *)
(*   Served  commands with a timeout come from the loop's thread;          *)
(*   Unique  one thread at a time is inside issueTicket;                   *)
(*   Once    both, and cancel() comes after the deferred _command has run. *)
(***************************************************************************)
EXTENDS RedisRequest, SequenceTheorems, WellFoundedInduction, TLAPS

(* The three things that the application may keep to. *)
TtlOnLoop == TtlThreads \subseteq {Loop}
Orderly == ~ TicketRace /\ ~ EarlyCancel /\ TtlOnLoop

-----------------------------------------------------------------------------
Entry(c) == <<ticket[c], c>>
Registered(c) == ticket[c] \in DOMAIN mapCallback
Queue == Nat \X Commands
Waiting == ToSet(deferred) \cup ToSet(reserved) \cup ToSet(inflight)

(* The types, without the range of the tickets. *)
DataOK ==
  /\ rstate \in RStates
  /\ context \in {"none", "connecting", "connected", "lost", "closing"}
  /\ connTimer \in BOOLEAN /\ reconTimer \in BOOLEAN /\ ttlTimer \in BOOLEAN
  /\ sTicket \in Nat \ {0}
  /\ step \in [Commands -> {"new", "read", "insert", "post", "done"}]
  /\ caller \in [Commands -> RThreads \cup {None}]
  /\ ticket \in [Commands -> Nat]
  /\ \A k \in DOMAIN mapCallback : mapCallback[k] \in [cmd : Commands, ttl : 0..Ttl]
  /\ deferred \in Seq(Queue) /\ reserved \in Seq(Queue) /\ inflight \in Seq(Queue)
  /\ sends \in [Commands -> 0..2]
  /\ heard \in [Commands -> Seq(Commands \cup {None})]
  /\ cancelled \subseteq Commands

(* A command has a ticket once issueTicket has returned, and a thread       *)
(* inside of it until command() has.                                        *)
CallsOK ==
  /\ \A c \in Commands : IF step[c] \in {"new", "read"} THEN ticket[c] = 0
                         ELSE ticket[c] \in 2..sTicket
  /\ \A c \in Commands : step[c] = "read" => sTicket > 1
  /\ \A c \in Commands : caller[c] # None <=> step[c] \in {"read", "insert", "post"}

(* The map holds a command under its ticket. *)
MapOK ==
  \A k \in DOMAIN mapCallback :
    /\ ticket[mapCallback[k].cmd] = k
    /\ step[mapCallback[k].cmd] \in {"post", "done"}
    /\ mapCallback[k].ttl > 0 => mapCallback[k].cmd \in TtlCommands

(* What waits in a queue has left command(), and what is registered and has *)
(* left command() waits in a queue.                                         *)
EntriesOK == \A r \in Waiting : r[2] \in Commands /\ r = Entry(r[2]) /\ step[r[2]] = "done"
WaitOK ==
  \A k \in DOMAIN mapCallback :
    step[mapCallback[k].cmd] = "done" => <<k, mapCallback[k].cmd>> \in Waiting

(* state_, the context and the timers. *)
ConnectionOK ==
  /\ rstate = "CONNECTED" => context \in {"connected", "lost", "closing"}
  /\ context \in {"connected", "lost"} => rstate = "CONNECTED" /\ ~ connTimer
  /\ context \in {"none", "connecting"} => inflight = <<>>
  /\ context = "connecting" => connTimer
  /\ reconTimer => context = "none" \/ overlap
  /\ assertFailed => overlap /\ context \in {"connecting", "connected"}
  /\ overlap \in BOOLEAN /\ assertFailed \in BOOLEAN

(* The first layer. *)
Base == DataOK /\ CallsOK /\ MapOK /\ EntriesOK /\ WaitOK /\ ConnectionOK

(* The timer runs from the moment at which a command with a timeout has its *)
(* ticket; the thread inside of such a command is the loop's.               *)
Served ==
  /\ TtlIsServed
  /\ \A c \in TtlCommands : step[c] \in {"insert", "post"} => ttlTimer
  /\ \A c \in TtlCommands : caller[c] # None => caller[c] = Loop

(* A ticket belongs to one command, the one that is about to be read to     *)
(* none yet; what is registered, or will be, has not been answered.         *)
TicketsOK ==
  /\ \A c, d \in Commands : ticket[c] = ticket[d] /\ ticket[c] # 0 => c = d
  /\ \A c, d \in Commands : step[c] = "read" => ticket[d] # sTicket
  /\ \A c, d \in Commands : step[c] = "read" /\ step[d] = "read" => c = d
HeardOK ==
  \A c \in Commands :
    /\ heard[c] \in {<<>>, <<c>>, <<None>>}
    /\ Registered(c) \/ step[c] \in {"new", "read", "insert"} => heard[c] = <<>>
Unique == TicketsOK /\ HeardOK

(* No queue holds an entry twice.  What is deferred is registered, was not  *)
(* sent and is in no other queue; what is reserved is registered and was    *)
(* not sent, unless it is at hiredis.                                       *)
InjectiveOK == IsInjective(deferred) /\ IsInjective(reserved) /\ IsInjective(inflight)
DeferredOK ==
  \A r \in ToSet(deferred) :
    /\ r \notin ToSet(reserved) /\ r \notin ToSet(inflight) /\ sends[r[2]] = 0
    /\ Registered(r[2]) /\ r[2] \notin TtlCommands
ReservedOK ==
  \A r \in ToSet(reserved) : Registered(r[2]) /\ (sends[r[2]] = 0 \/ r \in ToSet(inflight))
SendsOK ==
  \A c \in Commands : /\ sends[c] <= 1
                      /\ step[c] # "done" => sends[c] = 0
                      /\ step[c] = "post" => Registered(c)
Once == InjectiveOK /\ DeferredOK /\ ReservedOK /\ SendsOK

-----------------------------------------------------------------------------
(* Lemmas about the natural numbers and about queues. *)

(* A set with 0 and every successor: induction from well-foundedness. *)
LEMMA Least ==
  ASSUME NEW S \in SUBSET Nat, 0 \in S, \A n \in S : n + 1 \in S
  PROVE  S = Nat
<1>1. SUFFICES ASSUME Nat \ S # {} PROVE FALSE
  OBVIOUS
<1>2. PICK x \in Nat \ S : \A y \in Nat \ S : <<y, x>> \notin OpToRel(<, Nat)
  BY <1>1, WFMin, NatLessThanWellFounded
<1>3. x # 0 /\ x - 1 \in Nat /\ x - 1 < x /\ (x - 1) + 1 = x
  <2>1. x # 0
    BY <1>2
  <2>2. \A z \in Nat : z # 0 => z - 1 \in Nat /\ z - 1 < z /\ (z - 1) + 1 = z
    OBVIOUS
  <2> QED BY <1>2, <2>1, <2>2
<1>4. <<x - 1, x>> \in OpToRel(<, Nat)
  BY <1>2, <1>3 DEF OpToRel
<1>5. x - 1 \in S
  BY <1>2, <1>3, <1>4
<1> QED BY <1>2, <1>3, <1>5

(* One step of Unreserve's recursion, and the recursion as an equation. *)
Keeps(s, ks, f) ==
  [i \in 0..Len(s) |-> IF i = 0 THEN <<>>
                       ELSE IF s[i][1] \in ks THEN f[i - 1]
                       ELSE Append(f[i - 1], s[i])]

(* Unreserve is a solution of the recursion at the length of the queue. *)
LEMMA UnreserveIs ==
  ASSUME NEW s, NEW ks
  PROVE  Unreserve(s, ks) = (CHOOSE f : f = Keeps(s, ks, f))[Len(s)]
BY DEF Unreserve, Keeps

(* The recursion has a solution. *)
LEMMA UnreserveEnds ==
  ASSUME NEW T, NEW s \in Seq(T), NEW ks
  PROVE  \E f : f = Keeps(s, ks, f)
<1> DEFINE Good(n, f) ==
      /\ f \in [0..n -> Seq(T)] /\ f[0] = <<>>
      /\ \A i \in 1..n : f[i] = IF s[i][1] \in ks THEN f[i - 1] ELSE Append(f[i - 1], s[i])
    Has(n) == \E f : Good(n, f)
    S == {n \in Nat : n <= Len(s) => Has(n)}
<1>1. Len(s) \in Nat /\ \A i \in 1..Len(s) : s[i] \in T
  OBVIOUS
<1>2. 0 \in S
  <2>1. Good(0, [i \in 0..0 |-> <<>>])
    OBVIOUS
  <2> QED BY <2>1
<1>3. ASSUME NEW n \in S PROVE n + 1 \in S
  <2>1. SUFFICES ASSUME n + 1 <= Len(s) PROVE Has(n + 1)
    <3> HIDE DEF Has
    <3> QED OBVIOUS
  <2>2. n \in Nat /\ n <= Len(s) /\ n + 1 \in 1..Len(s)
    BY <1>1, <2>1
  <2>3. PICK f : Good(n, f)
    BY <2>2
  <2> DEFINE e == IF s[n + 1][1] \in ks THEN f[n] ELSE Append(f[n], s[n + 1])
             g == [i \in 0..(n + 1) |-> IF i = n + 1 THEN e ELSE f[i]]
  <2>4. s[n + 1] \in T
    BY <1>1, <2>2
  <2>5. f[n] \in Seq(T)
    BY <2>2, <2>3
  <2>6. e \in Seq(T)
    BY <2>4, <2>5
  <2>7. /\ 0 \in 0..n /\ 0 \in 0..(n + 1) /\ 0 # n + 1 /\ n \in 0..(n + 1) /\ n # n + 1
        /\ n + 1 \in 0..(n + 1) /\ (n + 1) - 1 = n
        /\ \A i \in 0..(n + 1) : i # n + 1 => i \in 0..n
        /\ \A i \in 1..(n + 1) : i # n + 1 => i \in 1..n /\ i \in 0..(n + 1) /\ i - 1 \in 0..(n + 1) /\ i - 1 # n + 1
    BY <2>2
  <2> HIDE DEF e
  <2>8. g \in [0..(n + 1) -> Seq(T)]
    BY <2>3, <2>6, <2>7
  <2>9. g[0] = <<>> /\ g[n] = f[n] /\ g[n + 1] = e
    BY <2>3, <2>7
  <2>10. ASSUME NEW i \in 1..(n + 1)
         PROVE  g[i] = IF s[i][1] \in ks THEN g[i - 1] ELSE Append(g[i - 1], s[i])
    <3>1. CASE i = n + 1
      <4>1. i - 1 = n
        BY <2>7, <3>1
      <4> HIDE DEF g
      <4> QED BY <2>9, <3>1, <4>1 DEF e
    <3>2. CASE i # n + 1
      <4>1. g[i] = f[i] /\ g[i - 1] = f[i - 1]
        BY <2>7, <3>2
      <4>2. f[i] = IF s[i][1] \in ks THEN f[i - 1] ELSE Append(f[i - 1], s[i])
        BY <2>3, <2>7, <3>2
      <4> HIDE DEF g
      <4> QED BY <4>1, <4>2
    <3> QED BY <3>1, <3>2
  <2> HIDE DEF g
  <2>11. Good(n + 1, g)
    BY <2>8, <2>9, <2>10
  <2> QED BY <2>11
<1>4. S = Nat
  <2> HIDE DEF S
  <2>1. S \subseteq Nat
    BY DEF S
  <2> QED BY <1>2, <1>3, <2>1, Least
<1>5. PICK f : Good(Len(s), f)
  <2>1. Has(Len(s))
    <3> HIDE DEF Has
    <3> QED BY <1>1, <1>4
  <2> QED BY <2>1, Zenon
<1>6. f = Keeps(s, ks, f)
  <2>1. f = [i \in 0..Len(s) |-> f[i]]
    BY <1>5
  <2>2. \A i \in 0..Len(s) : f[i] = IF i = 0 THEN <<>>
                       ELSE IF s[i][1] \in ks THEN f[i - 1]
                       ELSE Append(f[i - 1], s[i])
    <3>1. \A i \in 0..Len(s) : i # 0 => i \in 1..Len(s)
      BY <1>1
    <3> QED BY <1>5, <3>1
  <2>3. Keeps(s, ks, f) = [i \in 0..Len(s) |-> f[i]]
    BY <2>2 DEF Keeps
  <2> QED BY <2>1, <2>3
<1> QED BY <1>6

(* A new entry at the end. *)
LEMMA Added ==
  ASSUME NEW T, NEW s \in Seq(T), NEW c \in T
  PROVE  /\ Append(s, c) \in Seq(T) /\ ToSet(Append(s, c)) = ToSet(s) \cup {c}
         /\ IsInjective(s) /\ c \notin ToSet(s) => IsInjective(Append(s, c))
<1> DEFINE r == Append(s, c)
<1>1. DOMAIN s = 1 .. Len(s) /\ Len(s) \in Nat
  OBVIOUS
<1>2. r \in Seq(T) /\ DOMAIN r = 1 .. (Len(s) + 1) /\ r[Len(s) + 1] = c
      /\ \A i \in 1 .. Len(s) : r[i] = s[i]
  OBVIOUS
<1> HIDE DEF r
<1>3. IsInjective(s) /\ c \notin ToSet(s) => IsInjective(r)
  BY <1>1, <1>2 DEF IsInjective, ToSet
<1>4. ToSet(r) \subseteq ToSet(s) \cup {c}
  BY <1>1, <1>2 DEF ToSet
<1>5. ToSet(s) \subseteq ToSet(r)
  BY <1>1, <1>2 DEF ToSet
<1>6. c \in ToSet(r)
  BY <1>1, <1>2 DEF ToSet
<1>7. r \in Seq(T) /\ ToSet(r) = ToSet(s) \cup {c}
  BY <1>2, <1>4, <1>5, <1>6
<1> QED BY <1>3, <1>7 DEF r

(* What Unreserve leaves of a queue. *)
LEMMA Unreserved ==
  ASSUME NEW T, NEW s \in Seq(T), NEW ks
  PROVE  /\ Unreserve(s, ks) \in Seq(T)
         /\ ToSet(Unreserve(s, ks)) = {r \in ToSet(s) : r[1] \notin ks}
         /\ IsInjective(s) => IsInjective(Unreserve(s, ks))
<1>1. PICK f : f = Keeps(s, ks, f) /\ Unreserve(s, ks) = f[Len(s)]
  <2>1. (CHOOSE f : f = Keeps(s, ks, f)) = Keeps(s, ks, CHOOSE f : f = Keeps(s, ks, f))
    BY UnreserveEnds, Zenon
  <2> QED BY <2>1, UnreserveIs, Zenon
<1>2. /\ DOMAIN s = 1..Len(s) /\ Len(s) \in Nat /\ \A i \in 1..Len(s) : s[i] \in T
  OBVIOUS
<1>3. f = [i \in 0..Len(s) |-> IF i = 0 THEN <<>>
                       ELSE IF s[i][1] \in ks THEN f[i - 1]
                       ELSE Append(f[i - 1], s[i])]
  BY <1>1 DEF Keeps
<1>4. f[0] = <<>> /\ \A i \in 1..Len(s) : f[i] = IF s[i][1] \in ks THEN f[i - 1] ELSE Append(f[i - 1], s[i])
  <2>1. 0 \in 0..Len(s) /\ \A i \in 1..Len(s) : i \in 0..Len(s) /\ i # 0
    BY <1>2
  <2> QED BY <1>3, <2>1, Zenon
<1> DEFINE Kept(n) == {s[i] : i \in {j \in 1..n : s[j][1] \notin ks}}
    Good(n) == f[n] \in Seq(T) /\ ToSet(f[n]) = Kept(n) /\ (IsInjective(s) => IsInjective(f[n]))
    S == {n \in Nat : n <= Len(s) => Good(n)}
<1>5. 0 \in S
  <2>1. <<>> \in Seq(T) /\ IsInjective(<<>>) /\ ToSet(<<>>) = {}
    BY DEF IsInjective, ToSet
  <2>2. Kept(0) = {}
    OBVIOUS
  <2> HIDE DEF Kept
  <2> QED BY <1>4, <2>1, <2>2
<1>6. ASSUME NEW n \in S PROVE n + 1 \in S
  <2>1. SUFFICES ASSUME n + 1 <= Len(s) PROVE Good(n + 1)
    OBVIOUS
  <2>2. n \in Nat /\ n <= Len(s) /\ n + 1 \in 1..Len(s) /\ (n + 1) - 1 = n
    BY <1>2, <2>1
  <2>3. Good(n)
    BY <2>2
  <2>4. f[n + 1] = IF s[n + 1][1] \in ks THEN f[n] ELSE Append(f[n], s[n + 1])
    BY <1>4, <2>2
  <2>5. \A i \in 1..(n + 1) : i \in 1..n \/ i = n + 1
    BY <2>2
  <2>6. \A i \in 1..n : i \in 1..(n + 1) /\ i \in 1..Len(s) /\ i # n + 1
    BY <1>2, <2>2
  <2>7. n + 1 \in 1..(n + 1)
    BY <2>2
  <2>8. CASE s[n + 1][1] \in ks
    <3>1. Kept(n + 1) = Kept(n)
      BY <2>5, <2>6, <2>8
    <3> HIDE DEF Kept
    <3> QED BY <2>3, <2>4, <2>8, <3>1
  <2>9. CASE s[n + 1][1] \notin ks
    <3>1. Kept(n + 1) = Kept(n) \cup {s[n + 1]}
      BY <2>5, <2>6, <2>7, <2>9
    <3>2. IsInjective(s) => s[n + 1] \notin Kept(n)
      BY <1>2, <2>2, <2>6, Zenon DEF IsInjective
    <3>3. s[n + 1] \in T
      BY <1>2, <2>2
    <3> HIDE DEF Kept
    <3>4. f[n + 1] = Append(f[n], s[n + 1])
      BY <2>4, <2>9
    <3>5. f[n] \in Seq(T) /\ ToSet(f[n]) = Kept(n) /\ (IsInjective(s) => IsInjective(f[n]))
      BY <2>3
    <3>6. /\ Append(f[n], s[n + 1]) \in Seq(T)
          /\ ToSet(Append(f[n], s[n + 1])) = ToSet(f[n]) \cup {s[n + 1]}
          /\ IsInjective(s) => IsInjective(Append(f[n], s[n + 1]))
      BY <3>2, <3>3, <3>5, Added
    <3> QED BY <3>1, <3>4, <3>5, <3>6
  <2> QED BY <2>8, <2>9
<1>7. S = Nat
  <2> HIDE DEF S
  <2>1. S \subseteq Nat
    BY DEF S
  <2> QED BY <1>5, <1>6, <2>1, Least
<1>8. Good(Len(s))
  <2> HIDE DEF Good
  <2> QED BY <1>2, <1>7
<1>9. Kept(Len(s)) = {r \in ToSet(s) : r[1] \notin ks}
  <2>1. Kept(Len(s)) \subseteq {r \in ToSet(s) : r[1] \notin ks}
    BY <1>2 DEF ToSet
  <2>2. {r \in ToSet(s) : r[1] \notin ks} \subseteq Kept(Len(s))
    BY <1>2 DEF ToSet
  <2> QED BY <2>1, <2>2
<1> HIDE DEF Kept
<1> QED BY <1>1, <1>8, <1>9

(* A queue without the first entry of a ticket, as in _removeContext. *)
Dropped(s, c) == RemoveFirstMatch(s, LAMBDA q : q[1] = c)

(* All other entries are left, and no more than one has gone. *)
LEMMA Removed ==
  ASSUME NEW T, NEW s \in Seq(T), NEW c
  PROVE  /\ Dropped(s, c) \in Seq(T) /\ ToSet(Dropped(s, c)) \subseteq ToSet(s)
         /\ {q \in ToSet(s) : q[1] # c} \subseteq ToSet(Dropped(s, c))
         /\ IsInjective(s) => IsInjective(Dropped(s, c))
         /\ IsInjective(s) /\ (\A q, z \in ToSet(s) : q[1] = c /\ z[1] = c => q = z) =>
              ToSet(Dropped(s, c)) = {q \in ToSet(s) : q[1] # c}
<1> DEFINE r == Dropped(s, c)
<1>1. DOMAIN s = 1 .. Len(s) /\ Len(s) \in Nat /\ \A i \in 1 .. Len(s) : s[i] \in T
  OBVIOUS
<1>2. CASE ~ \E i \in 1 .. Len(s) : s[i][1] = c
  <2>1. r = s
    BY <1>2 DEF Dropped, RemoveFirstMatch
  <2>2. ToSet(s) = {q \in ToSet(s) : q[1] # c}
    BY <1>1, <1>2 DEF ToSet
  <2> QED BY <2>1, <2>2
<1>3. CASE \E i \in 1 .. Len(s) : s[i][1] = c
  <2> DEFINE I == {i \in 1 .. Len(s) : s[i][1] = c}
  <2>1. I # {} /\ I \subseteq Nat
    BY <1>1, <1>3
  <2>2. \E x \in I : \A y \in I : x <= y
    <3> HIDE DEF I
    <3>1. PICK x \in I : \A y \in I : <<y, x>> \notin OpToRel(<, Nat)
      BY <2>1, WFMin, NatLessThanWellFounded
    <3>2. \A y \in I : x \in Nat /\ y \in Nat /\ ~ (y < x)
      BY <2>1, <3>1 DEF OpToRel
    <3>3. \A x1, y1 \in Nat : ~ (y1 < x1) => x1 <= y1
      OBVIOUS
    <3> QED BY <3>2, <3>3
  <2>3. PICK k \in 1 .. Len(s) : k = Min(I) /\ s[k][1] = c
    BY <2>2 DEF Min
  <2>4. SelectInSeq(s, LAMBDA q : q[1] = c) = k
    <3>1. I # {}
      BY <2>1
    <3> QED BY <2>3, <3>1 DEF SelectInSeq
  <2>5. r = SubSeq(s, 1, k - 1) \o SubSeq(s, k + 1, Len(s))
    BY <1>3, <2>4 DEF Dropped, RemoveFirstMatch, RemoveAt
  <2> DEFINE a == SubSeq(s, 1, k - 1)
             b == SubSeq(s, k + 1, Len(s))
  <2> HIDE DEF I
  <2>6. a \in Seq(T) /\ Len(a) = k - 1 /\ \A i \in 1 .. (k - 1) : a[i] = s[i]
    BY <1>1, <2>3
  <2>7. b \in Seq(T) /\ Len(b) = Len(s) - k /\ \A i \in 1 .. (Len(s) - k) : b[i] = s[k + i]
    <3>1. b \in Seq(T) /\ Len(b) = (IF k + 1 <= Len(s) THEN Len(s) - (k + 1) + 1 ELSE 0)
      BY <1>1, <2>3
    <3>2. Len(b) = Len(s) - k
      <4> HIDE DEF b
      <4>1. CASE k + 1 <= Len(s)
        BY <1>1, <2>3, <3>1, <4>1
      <4>2. CASE ~ (k + 1 <= Len(s))
        <5>1. Len(b) = 0
          BY <3>1, <4>2
        <5>2. \A n \in Nat : \A m \in 1 .. n : ~ (m + 1 <= n) => n - m = 0
          OBVIOUS
        <5>3. Len(s) - k = 0
          BY <1>1, <4>2, <5>2, Zenon
        <5> QED BY <5>1, <5>3
      <4> QED BY <4>1, <4>2
    <3>3. ASSUME NEW i \in 1 .. (Len(s) - k) PROVE b[i] = s[k + i]
      <4>1. i \in 1 .. (Len(s) - (k + 1) + 1) /\ k + 1 + i - 1 = k + i
        BY <1>1, <2>3
      <4> QED BY <1>1, <2>3, <4>1
    <3> QED BY <3>1, <3>2, <3>3
  <2> HIDE DEF a, b
  <2>8. /\ a \o b \in Seq(T) /\ Len(a \o b) = Len(s) - 1
        /\ \A i \in 1 .. (Len(s) - 1) : (a \o b)[i] = IF i < k THEN s[i] ELSE s[i + 1]
    <3>1. a \o b \in Seq(T) /\ Len(a \o b) = Len(s) - 1
      <4>1. a \o b \in Seq(T) /\ Len(a \o b) = Len(a) + Len(b)
        BY <2>6, <2>7, ConcatProperties
      <4>2. Len(a) + Len(b) = Len(s) - 1
        BY <1>1, <2>3, <2>6, <2>7
      <4> QED BY <4>1, <4>2
    <3>2. \A i \in 1 .. (Len(s) - 1) : (a \o b)[i] = IF i <= k - 1 THEN a[i] ELSE b[i - (k - 1)]
      BY <1>1, <2>3, <2>6, <2>7, <3>1, ConcatProperties
    <3>3. ASSUME NEW i \in 1 .. (Len(s) - 1) PROVE (a \o b)[i] = IF i < k THEN s[i] ELSE s[i + 1]
      <4>1. CASE i < k
        BY <1>1, <2>3, <2>6, <3>2, <4>1
      <4>2. CASE ~ (i < k)
        <5>1. i - (k - 1) \in 1 .. (Len(s) - k) /\ k + (i - (k - 1)) = i + 1
          BY <1>1, <2>3, <4>2
        <5>2. (a \o b)[i] = b[i - (k - 1)]
          <6>1. ~ (i <= k - 1)
            BY <1>1, <2>3, <4>2
          <6> QED BY <3>2, <6>1, Zenon
        <5> QED BY <2>7, <4>2, <5>1, <5>2
      <4> QED BY <4>1, <4>2
    <3> QED BY <3>1, <3>3
  <2>9. r = a \o b
    BY <2>5 DEF a, b
  <2> HIDE DEF r
  <2>10. /\ r \in Seq(T) /\ DOMAIN r = 1 .. (Len(s) - 1)
         /\ \A i \in 1 .. (Len(s) - 1) : r[i] = IF i < k THEN s[i] ELSE s[i + 1]
    BY <2>8, <2>9
  <2>11. ASSUME IsInjective(s) PROVE IsInjective(r)
    <3>1. SUFFICES ASSUME NEW i \in 1 .. (Len(s) - 1), NEW j \in 1 .. (Len(s) - 1), r[i] = r[j]
                   PROVE  i = j
      BY <2>10 DEF IsInjective
    <3> DEFINE at(n) == IF n < k THEN n ELSE n + 1
    <3>2. at(i) \in 1 .. Len(s) /\ at(j) \in 1 .. Len(s)
      BY <1>1, <2>3
    <3>3. s[at(i)] = s[at(j)]
      BY <2>10, <3>1
    <3>4. at(i) = at(j)
      BY <1>1, <2>11, <3>2, <3>3, Zenon DEF IsInjective
    <3> QED BY <1>1, <2>3, <3>4
  <2>12. ToSet(r) \subseteq {s[j] : j \in (1 .. Len(s)) \ {k}}
    <3>1. SUFFICES ASSUME NEW i \in 1 .. (Len(s) - 1)
                   PROVE  r[i] \in {s[j] : j \in (1 .. Len(s)) \ {k}}
      BY <2>10 DEF ToSet
    <3>2. PICK j \in 1 .. Len(s) : j # k /\ r[i] = s[j]
      <4>1. CASE i < k
        BY <1>1, <2>3, <2>10, <4>1
      <4>2. CASE ~ (i < k)
        <5>1. i + 1 \in 1 .. Len(s) /\ i + 1 # k
          BY <1>1, <2>3, <4>2
        <5> QED BY <2>10, <4>2, <5>1
      <4> QED BY <4>1, <4>2
    <3> QED BY <3>2
  <2>13. ASSUME NEW x \in ToSet(s), x[1] # c PROVE x \in ToSet(r)
    <3>1. PICK j \in 1 .. Len(s) : s[j] = x
      BY <1>1 DEF ToSet
    <3>2. j # k
      BY <2>13, <2>3, <3>1
    <3>3. CASE j < k
      <4>1. j \in 1 .. (Len(s) - 1) /\ r[j] = x
        BY <1>1, <2>3, <2>10, <3>1, <3>3
      <4> QED BY <2>10, <4>1 DEF ToSet
    <3>4. CASE j > k
      <4>1. j - 1 \in 1 .. (Len(s) - 1) /\ r[j - 1] = x
        BY <1>1, <2>3, <2>10, <3>1, <3>4
      <4> QED BY <2>10, <4>1 DEF ToSet
    <3> QED BY <1>1, <2>3, <3>1, <3>2, <3>3, <3>4
  <2>14. ToSet(r) \subseteq ToSet(s)
    BY <1>1, <2>12 DEF ToSet
  <2>15. ASSUME IsInjective(s), \A q, z \in ToSet(s) : q[1] = c /\ z[1] = c => q = z
         PROVE  ToSet(r) \subseteq {q \in ToSet(s) : q[1] # c}
    <3>1. \A j \in (1 .. Len(s)) \ {k} : s[j] \in ToSet(s) /\ s[j][1] # c
      BY <1>1, <2>3, <2>15 DEF ToSet, IsInjective
    <3> QED BY <2>12, <3>1
  <2>16. r \in Seq(T) /\ {q \in ToSet(s) : q[1] # c} \subseteq ToSet(r)
    BY <2>10, <2>13
  <2>17. (IsInjective(s) => IsInjective(r)) /\ ToSet(r) \subseteq ToSet(s)
    BY <2>11, <2>14
  <2> QED BY <2>15, <2>16, <2>17 DEF r
<1> QED BY <1>2, <1>3

(* The head is taken. *)
LEMMA Taken ==
  ASSUME NEW T, NEW s \in Seq(T), s # <<>>
  PROVE  /\ Tail(s) \in Seq(T) /\ Head(s) \in ToSet(s)
         /\ ToSet(Tail(s)) \subseteq ToSet(s) /\ ToSet(s) \ {Head(s)} \subseteq ToSet(Tail(s))
         /\ IsInjective(s) => IsInjective(Tail(s)) /\ Head(s) \notin ToSet(Tail(s))
<1> DEFINE r == Tail(s)
<1>1. DOMAIN s = 1 .. Len(s) /\ Len(s) \in Nat \ {0} /\ Head(s) = s[1]
  OBVIOUS
<1>2. r \in Seq(T) /\ DOMAIN r = 1 .. (Len(s) - 1) /\ \A i \in 1 .. (Len(s) - 1) : r[i] = s[i + 1]
  BY <1>1
<1> HIDE DEF r
<1>3. ASSUME IsInjective(s) PROVE IsInjective(r)
  <2>1. SUFFICES ASSUME NEW i \in 1 .. (Len(s) - 1), NEW j \in 1 .. (Len(s) - 1), r[i] = r[j]
                 PROVE  i = j
    BY <1>2 DEF IsInjective
  <2>2. i + 1 \in 1 .. Len(s) /\ j + 1 \in 1 .. Len(s) /\ s[i + 1] = s[j + 1]
    BY <1>1, <1>2, <2>1
  <2>3. i + 1 = j + 1
    BY <1>1, <1>3, <2>2, Zenon DEF IsInjective
  <2> QED BY <2>3
<1>4. ToSet(r) \subseteq ToSet(s)
  <2>1. \A i \in 1 .. (Len(s) - 1) : i + 1 \in 1 .. Len(s)
    BY <1>1
  <2> QED BY <1>1, <1>2, <2>1 DEF ToSet
<1>5. ASSUME IsInjective(s) PROVE s[1] \notin ToSet(r)
  <2>1. \A i \in 1 .. (Len(s) - 1) : i + 1 \in 1 .. Len(s) /\ i + 1 # 1 /\ 1 \in 1 .. Len(s)
    BY <1>1
  <2> QED BY <1>1, <1>2, <1>5, <2>1 DEF ToSet, IsInjective
<1>6. ASSUME NEW x \in ToSet(s), x # s[1] PROVE x \in ToSet(r)
  <2>1. PICK j \in 1 .. Len(s) : s[j] = x
    BY <1>1 DEF ToSet
  <2>2. j - 1 \in 1 .. (Len(s) - 1) /\ r[j - 1] = x
    BY <1>1, <1>2, <1>6, <2>1
  <2> QED BY <1>2, <2>2 DEF ToSet
<1>7. s[1] \in ToSet(s)
  BY <1>1 DEF ToSet
<1>8. r \in Seq(T) /\ Head(s) \in ToSet(s) /\ ToSet(r) \subseteq ToSet(s) /\ ToSet(s) \ {Head(s)} \subseteq ToSet(r)
  BY <1>1, <1>2, <1>4, <1>6, <1>7
<1>9. IsInjective(s) => IsInjective(r) /\ Head(s) \notin ToSet(r)
  BY <1>1, <1>3, <1>5
<1> QED BY <1>8, <1>9 DEF r

-----------------------------------------------------------------------------
(* What the operations do to the queues and to the map. *)

(* _command puts an entry at the end of one of two queues. *)
LEMMA CommandQueues ==
  ASSUME DataOK, NEW r \in Queue, Command(r)
  PROVE  /\ reserved' \in Seq(Queue) /\ inflight' \in Seq(Queue) /\ sends' \in [Commands -> 0..2]
         /\ \/ /\ rstate = "CONNECTED" /\ reserved' = reserved
               /\ ToSet(inflight') = ToSet(inflight) \cup {r}
               /\ IsInjective(inflight) /\ r \notin ToSet(inflight) => IsInjective(inflight')
               /\ \A c \in Commands : sends'[c] = IF c = r[2] /\ sends[c] < 2 THEN sends[c] + 1 ELSE sends[c]
            \/ /\ rstate # "CONNECTED" /\ inflight' = inflight /\ sends' = sends
               /\ ToSet(reserved') = ToSet(reserved) \cup {r}
               /\ IsInjective(reserved) /\ r \notin ToSet(reserved) => IsInjective(reserved')
<1>1. CASE rstate = "CONNECTED"
  <2>1. Send(<<r>>) /\ reserved' = reserved
    BY <1>1 DEF Command
  <2>2. inflight' = Append(inflight, r) /\ inflight \in Seq(Queue)
    BY <2>1 DEF Send, DataOK
  <2>3. /\ inflight' \in Seq(Queue) /\ ToSet(inflight') = ToSet(inflight) \cup {r}
        /\ IsInjective(inflight) /\ r \notin ToSet(inflight) => IsInjective(inflight')
    BY <2>2, Added
  <2>4. DOMAIN <<r>> = {1} /\ <<r>>[1] = r
    OBVIOUS
  <2>5. sends' = [c \in Commands |-> IF c = r[2] /\ sends[c] < 2 THEN sends[c] + 1 ELSE sends[c]]
    BY <2>1, <2>4 DEF Send
  <2>6. sends' \in [Commands -> 0..2]
    BY <2>5 DEF DataOK
  <2> QED BY <1>1, <2>1, <2>3, <2>5, <2>6 DEF DataOK
<1>2. CASE rstate # "CONNECTED"
  <2>1. reserved' = Append(reserved, r) /\ inflight' = inflight /\ sends' = sends /\ reserved \in Seq(Queue)
    BY <1>2 DEF Command, DataOK
  <2>2. /\ reserved' \in Seq(Queue) /\ ToSet(reserved') = ToSet(reserved) \cup {r}
        /\ IsInjective(reserved) /\ r \notin ToSet(reserved) => IsInjective(reserved')
    BY <2>1, Added
  <2> QED BY <1>2, <2>1, <2>2 DEF DataOK
<1> QED BY <1>1, <1>2

(* _removeContext takes a ticket from the map and from the reserved commands.*)
LEMMA RemoveContextQueues ==
  ASSUME DataOK, NEW k, RemoveContext(k)
  PROVE  /\ reserved' \in Seq(Queue) /\ ToSet(reserved') \subseteq ToSet(reserved)
         /\ {r \in ToSet(reserved) : r[1] # k} \subseteq ToSet(reserved')
         /\ IsInjective(reserved) => IsInjective(reserved')
         /\ IsInjective(reserved) /\ (\A q, z \in ToSet(reserved) : q[1] = k /\ z[1] = k => q = z) =>
              ToSet(reserved') = {r \in ToSet(reserved) : r[1] # k}
         /\ DOMAIN mapCallback' = DOMAIN mapCallback \ {k}
         /\ \A j \in DOMAIN mapCallback' : mapCallback'[j] = mapCallback[j]
<1>1. reserved \in Seq(Queue) /\ reserved' = Dropped(reserved, k)
  BY DEF DataOK, RemoveContext, Dropped
<1>2. mapCallback' = [j \in DOMAIN mapCallback \ {k} |-> mapCallback[j]]
  BY DEF RemoveContext, Without
<1> QED BY <1>1, <1>2, Removed

(* With tickets of their own, the entries of a ticket are those of its      *)
(* command.                                                                 *)
LEMMA ReservedTickets ==
  ASSUME Base, NEW c \in Commands, step[c] = "done", NEW left,
         IsInjective(reserved) /\ (\A q, z \in ToSet(reserved) : q[1] = ticket[c] /\ z[1] = ticket[c] => q = z) =>
           ToSet(left) = {r \in ToSet(reserved) : r[1] # ticket[c]}
  PROVE  IsInjective(reserved) /\ TicketsOK => \A r \in ToSet(left) : r[2] # c
<1>1. SUFFICES ASSUME IsInjective(reserved), TicketsOK PROVE \A r \in ToSet(left) : r[2] # c
  OBVIOUS
<1>2. \A q \in ToSet(reserved) : /\ q = <<ticket[q[2]], q[2]>> /\ q[2] \in Commands
                                 /\ q[1] = ticket[q[2]] /\ ticket[q[2]] # 0
  BY DEF Base, EntriesOK, Waiting, Entry, CallsOK
<1>3. \A d, e \in Commands : ticket[d] = ticket[e] /\ ticket[d] # 0 => d = e
  BY <1>1 DEF TicketsOK
<1>4. \A q, z \in ToSet(reserved) : q[1] = ticket[c] /\ z[1] = ticket[c] => q = z
  BY <1>2, <1>3
<1>5. ToSet(left) = {r \in ToSet(reserved) : r[1] # ticket[c]}
  BY <1>1, <1>4
<1> QED BY <1>2, <1>5

(* A command is posted: to hiredis, to reservedCommands_ or as a deferred   *)
(* call.                                                                    *)
LEMMA PostQueues ==
  ASSUME Base, NEW c \in Commands, Command_Post(c)
  PROVE  /\ step[c] = "post" /\ \A d \in Commands : step'[d] = IF d = c THEN "done" ELSE step[d]
         /\ caller[c] # None /\ \A d \in Commands : caller'[d] = IF d = c THEN None ELSE caller[d]
         /\ UNCHANGED <<rstate, context, timers, sTicket, ticket, mapCallback, heard, cancelled, overlap, assertFailed>>
         /\ DataOK' /\ Entry(c) \in Queue /\ Entry(c)[2] = c /\ Waiting' = Waiting \cup {Entry(c)}
         /\ \/ /\ rstate = "CONNECTED" /\ UNCHANGED <<reserved, deferred>>
               /\ ToSet(inflight') = ToSet(inflight) \cup {Entry(c)}
               /\ IsInjective(inflight) /\ Entry(c) \notin ToSet(inflight) => IsInjective(inflight')
               /\ \A d \in Commands : sends'[d] = IF d = c /\ sends[d] < 2 THEN sends[d] + 1 ELSE sends[d]
            \/ /\ UNCHANGED <<inflight, deferred, sends>>
               /\ ToSet(reserved') = ToSet(reserved) \cup {Entry(c)}
               /\ IsInjective(reserved) /\ Entry(c) \notin ToSet(reserved) => IsInjective(reserved')
            \/ /\ UNCHANGED <<inflight, reserved, sends>> /\ caller[c] # Loop
               /\ ToSet(deferred') = ToSet(deferred) \cup {Entry(c)}
               /\ IsInjective(deferred) /\ Entry(c) \notin ToSet(deferred) => IsInjective(deferred')
<1> USE DEF Base
<1>1. /\ step[c] = "post" /\ \A d \in Commands : step'[d] = IF d = c THEN "done" ELSE step[d]
      /\ caller[c] # None /\ \A d \in Commands : caller'[d] = IF d = c THEN None ELSE caller[d]
      /\ UNCHANGED <<rstate, context, timers, sTicket, ticket, mapCallback, heard, cancelled, overlap, assertFailed>>
  BY DEF Command_Post, DataOK, CallsOK
<1>2. Entry(c) \in Queue /\ Entry(c)[2] = c
  BY DEF Entry, Queue, DataOK
<1>3. /\ step' \in [Commands -> {"new", "read", "insert", "post", "done"}]
      /\ caller' \in [Commands -> RThreads \cup {None}]
  BY DEF Command_Post, DataOK
<1>4. CASE caller[c] = Loop
  <2>1. Command(Entry(c)) /\ deferred' = deferred
    BY <1>4 DEF Command_Post, Entry
  <2>2. /\ reserved' \in Seq(Queue) /\ inflight' \in Seq(Queue) /\ sends' \in [Commands -> 0..2]
        /\ \/ /\ rstate = "CONNECTED" /\ reserved' = reserved
              /\ ToSet(inflight') = ToSet(inflight) \cup {Entry(c)}
              /\ IsInjective(inflight) /\ Entry(c) \notin ToSet(inflight) => IsInjective(inflight')
              /\ \A d \in Commands : sends'[d] = IF d = c /\ sends[d] < 2 THEN sends[d] + 1 ELSE sends[d]
           \/ /\ inflight' = inflight /\ sends' = sends
              /\ ToSet(reserved') = ToSet(reserved) \cup {Entry(c)}
              /\ IsInjective(reserved) /\ Entry(c) \notin ToSet(reserved) => IsInjective(reserved')
    BY <1>2, <2>1, CommandQueues
  <2>3. DataOK'
    BY <1>1, <1>3, <2>1, <2>2 DEF DataOK, timers
  <2>4. Waiting' = Waiting \cup {Entry(c)}
    BY <2>1, <2>2 DEF Waiting
  <2> QED BY <1>1, <1>2, <2>1, <2>2, <2>3, <2>4
<1>5. CASE caller[c] # Loop
  <2>1. deferred' = Append(deferred, Entry(c)) /\ UNCHANGED <<reserved, inflight, sends>>
    BY <1>5 DEF Command_Post, Entry
  <2>2. /\ deferred' \in Seq(Queue) /\ ToSet(deferred') = ToSet(deferred) \cup {Entry(c)}
        /\ IsInjective(deferred) /\ Entry(c) \notin ToSet(deferred) => IsInjective(deferred')
    BY <1>2, <2>1, Added DEF DataOK
  <2>3. DataOK'
    BY <1>1, <1>3, <2>1, <2>2 DEF DataOK, timers
  <2>4. Waiting' = Waiting \cup {Entry(c)}
    BY <2>1, <2>2 DEF Waiting
  <2> QED BY <1>1, <1>2, <1>5, <2>1, <2>2, <2>3, <2>4
<1> QED BY <1>4, <1>5

(* The first deferred command is sent or reserved. *)
LEMMA DeferredQueues ==
  ASSUME Base, Command_Deferred
  PROVE  /\ UNCHANGED <<rstate, context, timers, calls, mapCallback, heard, cancelled, overlap, assertFailed>>
         /\ DataOK' /\ Waiting' = Waiting
         /\ \E r \in ToSet(deferred) :
              /\ r[2] \in Commands /\ r = Entry(r[2]) /\ step[r[2]] = "done"
              /\ ToSet(deferred') \subseteq ToSet(deferred)
              /\ IsInjective(deferred) => IsInjective(deferred') /\ r \notin ToSet(deferred')
              /\ \/ /\ rstate = "CONNECTED" /\ reserved' = reserved
                    /\ ToSet(inflight') = ToSet(inflight) \cup {r}
                    /\ IsInjective(inflight) /\ r \notin ToSet(inflight) => IsInjective(inflight')
                    /\ \A c \in Commands : sends'[c] = IF c = r[2] /\ sends[c] < 2 THEN sends[c] + 1 ELSE sends[c]
                 \/ /\ rstate # "CONNECTED" /\ inflight' = inflight /\ sends' = sends
                    /\ ToSet(reserved') = ToSet(reserved) \cup {r}
                    /\ IsInjective(reserved) /\ r \notin ToSet(reserved) => IsInjective(reserved')
<1> USE DEF Base
<1>1. UNCHANGED <<rstate, context, timers, calls, mapCallback, heard, cancelled, overlap, assertFailed>>
  BY DEF Command_Deferred
<1>2. PICK r \in ToSet(deferred) :
        /\ Command(r) /\ deferred' \in Seq(Queue) /\ ToSet(deferred') \subseteq ToSet(deferred)
        /\ ToSet(deferred) \ {r} \subseteq ToSet(deferred')
        /\ IsInjective(deferred) => IsInjective(deferred') /\ r \notin ToSet(deferred')
  <2>1. /\ deferred # <<>> /\ Command(Head(deferred)) /\ deferred' = Tail(deferred)
        /\ deferred \in Seq(Queue)
    BY DEF Command_Deferred, DataOK
  <2> QED BY <2>1, Taken
<1>3. r[2] \in Commands /\ r = Entry(r[2]) /\ step[r[2]] = "done" /\ r \in Queue
  BY DEF EntriesOK, Waiting, Entry, Queue, DataOK
<1>4. /\ reserved' \in Seq(Queue) /\ inflight' \in Seq(Queue) /\ sends' \in [Commands -> 0..2]
      /\ \/ /\ rstate = "CONNECTED" /\ reserved' = reserved
            /\ ToSet(inflight') = ToSet(inflight) \cup {r}
            /\ IsInjective(inflight) /\ r \notin ToSet(inflight) => IsInjective(inflight')
            /\ \A c \in Commands : sends'[c] = IF c = r[2] /\ sends[c] < 2 THEN sends[c] + 1 ELSE sends[c]
         \/ /\ rstate # "CONNECTED" /\ inflight' = inflight /\ sends' = sends
            /\ ToSet(reserved') = ToSet(reserved) \cup {r}
            /\ IsInjective(reserved) /\ r \notin ToSet(reserved) => IsInjective(reserved')
  BY <1>2, <1>3, CommandQueues
<1>5. DataOK'
  BY <1>1, <1>2, <1>4 DEF DataOK, timers, calls
<1>6. Waiting' = Waiting
  BY <1>2, <1>4 DEF Waiting
<1> QED BY <1>1, <1>2, <1>3, <1>4, <1>5, <1>6

(* cancel(): the handler and the reserved command go. *)
LEMMA CancelQueues ==
  ASSUME Base, NEW c \in Commands, Cancel(c)
  PROVE  /\ step[c] = "done"
         /\ UNCHANGED <<rstate, context, timers, calls, deferred, inflight, sends, heard, overlap, assertFailed>>
         /\ DataOK' /\ Waiting' \subseteq Waiting /\ {r \in Waiting : r[1] # ticket[c]} \subseteq Waiting'
         /\ ToSet(reserved') \subseteq ToSet(reserved)
         /\ IsInjective(reserved) => IsInjective(reserved')
         /\ IsInjective(reserved) /\ TicketsOK => \A r \in ToSet(reserved') : r[2] # c
         /\ DOMAIN mapCallback' = DOMAIN mapCallback \ {ticket[c]}
         /\ \A j \in DOMAIN mapCallback' : mapCallback'[j] = mapCallback[j]
<1> USE DEF Base
<1>1. /\ step[c] = "done" /\ cancelled' = cancelled \cup {c} /\ RemoveContext(ticket[c])
      /\ UNCHANGED <<rstate, context, timers, calls, deferred, inflight, sends, heard, overlap, assertFailed>>
  BY DEF Cancel
<1>2. /\ reserved' \in Seq(Queue) /\ ToSet(reserved') \subseteq ToSet(reserved)
      /\ {r \in ToSet(reserved) : r[1] # ticket[c]} \subseteq ToSet(reserved')
      /\ IsInjective(reserved) => IsInjective(reserved')
      /\ IsInjective(reserved) /\ (\A q, z \in ToSet(reserved) : q[1] = ticket[c] /\ z[1] = ticket[c] => q = z) =>
           ToSet(reserved') = {r \in ToSet(reserved) : r[1] # ticket[c]}
      /\ DOMAIN mapCallback' = DOMAIN mapCallback \ {ticket[c]}
      /\ \A j \in DOMAIN mapCallback' : mapCallback'[j] = mapCallback[j]
  BY <1>1, RemoveContextQueues
<1>3. DataOK'
  BY <1>1, <1>2 DEF DataOK, timers, calls
<1>4. Waiting' \subseteq Waiting /\ {r \in Waiting : r[1] # ticket[c]} \subseteq Waiting'
  BY <1>1, <1>2 DEF Waiting
<1>5. IsInjective(reserved) /\ TicketsOK => \A r \in ToSet(reserved') : r[2] # c
  BY <1>1, <1>2, ReservedTickets
<1> QED BY <1>1, <1>2, <1>3, <1>4, <1>5

(* The connection is established: everything reserved is sent. *)
LEMMA ConnectedQueues ==
  ASSUME Base, ConnectCallback_Ok
  PROVE  /\ UNCHANGED <<reconTimer, ttlTimer, calls, mapCallback, deferred, reserved, heard, cancelled, overlap, assertFailed>>
         /\ rstate' = "CONNECTED" /\ context' = "connected" /\ connTimer' = FALSE
         /\ inflight = <<>> /\ ToSet(inflight) = {} /\ inflight' = reserved
         /\ DataOK' /\ Waiting' = Waiting
         /\ \A c \in Commands : sends'[c] = sends[c] \/ (sends'[c] = sends[c] + 1 /\ \E r \in ToSet(reserved) : r[2] = c)
<1> USE DEF Base
<1>1. /\ UNCHANGED <<reconTimer, ttlTimer, calls, mapCallback, deferred, reserved, heard, cancelled, overlap, assertFailed>>
      /\ rstate' = "CONNECTED" /\ context' = "connected" /\ connTimer' = FALSE
  BY DEF ConnectCallback_Ok
<1>2. inflight = <<>> /\ ToSet(inflight) = {}
  BY DEF ConnectCallback_Ok, ConnectionOK, ToSet
<1>3. inflight' = reserved
  BY <1>2 DEF ConnectCallback_Ok, Send, DataOK
<1>4. sends' = [c \in Commands |->
                  IF \E i \in DOMAIN reserved : reserved[i][2] = c /\ sends[c] < 2
                  THEN sends[c] + 1 ELSE sends[c]]
  BY DEF ConnectCallback_Ok, Send
<1>5. \A c \in Commands : (\E i \in DOMAIN reserved : reserved[i][2] = c) => \E r \in ToSet(reserved) : r[2] = c
  BY DEF ToSet
<1>6. \A c \in Commands : sends'[c] = sends[c] \/ (sends'[c] = sends[c] + 1 /\ \E r \in ToSet(reserved) : r[2] = c)
  BY <1>4, <1>5
<1>7. sends' \in [Commands -> 0..2]
  BY <1>4 DEF DataOK
<1>8. DataOK'
  BY <1>1, <1>3, <1>7 DEF DataOK, RStates, calls
<1>9. Waiting' = Waiting
  BY <1>1, <1>2, <1>3 DEF Waiting
<1> QED BY <1>1, <1>2, <1>3, <1>6, <1>8, <1>9

(* What GetCallback_Reply and GetCallback_Null have in common. *)
Answers(reply) ==
  /\ inflight # <<>> /\ context \in {"connected", "lost", "closing"}
  /\ Answer(Head(inflight)[1], reply) /\ inflight' = Tail(inflight)
  /\ UNCHANGED <<rstate, context, timers, calls, deferred, sends, cancelled, overlap, assertFailed>>

(* hiredis answers the oldest command: its handler, if there is one, is     *)
(* called and goes.                                                         *)
LEMMA AnswerQueues ==
  ASSUME Base, NEW reply \in {Head(inflight)[2], None}, Answers(reply)
  PROVE  \E c \in Commands :
           /\ step[c] = "done" /\ Entry(c) \in ToSet(inflight) /\ reply \in {c, None}
           /\ UNCHANGED <<rstate, context, timers, calls, deferred, sends, cancelled, overlap, assertFailed>>
           /\ DataOK' /\ Waiting' \subseteq Waiting /\ {r \in Waiting : r[1] # ticket[c]} \subseteq Waiting'
           /\ ToSet(reserved') \subseteq ToSet(reserved) /\ ToSet(inflight') \subseteq ToSet(inflight)
           /\ ToSet(inflight) \ {Entry(c)} \subseteq ToSet(inflight')
           /\ IsInjective(reserved) => IsInjective(reserved')
           /\ IsInjective(inflight) => IsInjective(inflight')
           /\ IsInjective(reserved) /\ TicketsOK /\ ReservedOK => \A r \in ToSet(reserved') : r[2] # c
           /\ DOMAIN mapCallback' = DOMAIN mapCallback \ {ticket[c]}
           /\ \A j \in DOMAIN mapCallback' : mapCallback'[j] = mapCallback[j]
           /\ \/ heard' = heard
              \/ /\ Registered(c)
                 /\ heard' = [heard EXCEPT ![mapCallback[ticket[c]].cmd] = Append(@, reply)]
<1> USE RedisNoneAssumption DEF Base
<1> DEFINE h == Head(inflight)
           c == h[2]
<1>1. /\ inflight' \in Seq(Queue) /\ h \in ToSet(inflight) /\ ToSet(inflight') \subseteq ToSet(inflight)
      /\ ToSet(inflight) \ {h} \subseteq ToSet(inflight') /\ (IsInjective(inflight) => IsInjective(inflight'))
  <2>1. inflight \in Seq(Queue) /\ inflight # <<>> /\ inflight' = Tail(inflight)
    BY DEF DataOK, Answers
  <2> QED BY <2>1, Taken
<1>2. c \in Commands /\ h = Entry(c) /\ step[c] = "done" /\ h[1] = ticket[c]
  BY <1>1 DEF EntriesOK, Waiting, Entry
<1>3. /\ Answer(ticket[c], reply) /\ reply \in {c, None}
      /\ UNCHANGED <<rstate, context, timers, calls, deferred, sends, cancelled, overlap, assertFailed>>
  BY <1>2 DEF Answers
<1> HIDE DEF h, c
<1>4. /\ reserved' \in Seq(Queue) /\ ToSet(reserved') \subseteq ToSet(reserved)
      /\ {r \in ToSet(reserved) : r[1] # ticket[c]} \subseteq ToSet(reserved')
      /\ IsInjective(reserved) => IsInjective(reserved')
      /\ IsInjective(reserved) /\ TicketsOK /\ ReservedOK => \A r \in ToSet(reserved') : r[2] # c
      /\ DOMAIN mapCallback' = DOMAIN mapCallback \ {ticket[c]}
      /\ \A j \in DOMAIN mapCallback' : mapCallback'[j] = mapCallback[j]
      /\ heard' \in [Commands -> Seq(Commands \cup {None})]
      /\ \/ heard' = heard
         \/ /\ Registered(c)
            /\ heard' = [heard EXCEPT ![mapCallback[ticket[c]].cmd] = Append(@, reply)]
  <2>1. CASE ticket[c] \in DOMAIN mapCallback
    <3>1. /\ heard' = [heard EXCEPT ![mapCallback[ticket[c]].cmd] = Append(@, reply)]
          /\ RemoveContext(ticket[c])
      BY <1>3, <2>1 DEF Answer
    <3>2. /\ reserved' \in Seq(Queue) /\ ToSet(reserved') \subseteq ToSet(reserved)
          /\ {r \in ToSet(reserved) : r[1] # ticket[c]} \subseteq ToSet(reserved')
          /\ IsInjective(reserved) => IsInjective(reserved')
          /\ IsInjective(reserved) /\ (\A q, z \in ToSet(reserved) : q[1] = ticket[c] /\ z[1] = ticket[c] => q = z) =>
               ToSet(reserved') = {r \in ToSet(reserved) : r[1] # ticket[c]}
          /\ DOMAIN mapCallback' = DOMAIN mapCallback \ {ticket[c]}
          /\ \A j \in DOMAIN mapCallback' : mapCallback'[j] = mapCallback[j]
      BY <3>1, RemoveContextQueues
    <3>3. IsInjective(reserved) /\ TicketsOK => \A r \in ToSet(reserved') : r[2] # c
      BY <1>2, <3>2, ReservedTickets
    <3>4. heard' \in [Commands -> Seq(Commands \cup {None})]
      <4>1. mapCallback[ticket[c]].cmd \in Commands /\ reply \in Commands \cup {None}
        BY <1>2, <1>3, <2>1 DEF DataOK
      <4> QED BY <3>1, <4>1 DEF DataOK
    <3> QED BY <2>1, <3>1, <3>2, <3>3, <3>4 DEF Registered
  <2>2. CASE ticket[c] \notin DOMAIN mapCallback
    <3>1. UNCHANGED <<heard, mapCallback, reserved>>
      BY <1>3, <2>2 DEF Answer
    <3>2. DOMAIN mapCallback' = DOMAIN mapCallback \ {ticket[c]}
      BY <2>2, <3>1
    <3>3. ReservedOK => \A r \in ToSet(reserved') : r[2] # c
      BY <2>2, <3>1 DEF ReservedOK, Registered
    <3> QED BY <3>1, <3>2, <3>3 DEF DataOK
  <2> QED BY <2>1, <2>2
<1>5. DataOK'
  BY <1>1, <1>3, <1>4 DEF DataOK, timers, calls
<1>6. Waiting' \subseteq Waiting /\ {r \in Waiting : r[1] # ticket[c]} \subseteq Waiting'
  BY <1>1, <1>2, <1>3, <1>4 DEF Waiting
<1>7. /\ Entry(c) \in ToSet(inflight) /\ ToSet(inflight) \ {Entry(c)} \subseteq ToSet(inflight')
      /\ ToSet(inflight') \subseteq ToSet(inflight) /\ (IsInjective(inflight) => IsInjective(inflight'))
  BY <1>1, <1>2
<1> QED BY <1>2, <1>3, <1>4, <1>5, <1>6, <1>7

(* A tick: the expired tickets go, from the map and from the reserved       *)
(* commands, and their handlers are called.                                 *)
LEMMA TtlQueues ==
  ASSUME Base, Timer_CommandTtl
  PROVE  /\ UNCHANGED <<rstate, context, connTimer, reconTimer, calls, deferred, inflight, sends, cancelled, overlap, assertFailed>>
         /\ DataOK' /\ ttlTimer' = (\E k \in DOMAIN mapCallback : HasTtl(k))
         /\ Waiting' \subseteq Waiting /\ {r \in Waiting : r[1] \notin Expired} \subseteq Waiting'
         /\ ToSet(reserved') = {r \in ToSet(reserved) : r[1] \notin Expired}
         /\ IsInjective(reserved) => IsInjective(reserved')
         /\ DOMAIN mapCallback' = DOMAIN mapCallback \ Expired
         /\ \A k \in DOMAIN mapCallback' : /\ mapCallback'[k].cmd = mapCallback[k].cmd
                                           /\ mapCallback'[k].ttl > 0 => mapCallback[k].ttl > 0
         /\ \A k \in Expired : k \in DOMAIN mapCallback /\ mapCallback[k].ttl > 0
         /\ \A c \in Commands : heard'[c] = IF ticket[c] \in Expired /\ mapCallback[ticket[c]].cmd = c
                                            THEN Append(heard[c], None) ELSE heard[c]
<1> USE TtlAssumption DEF Base
<1>1. /\ UNCHANGED <<rstate, context, connTimer, reconTimer, calls, deferred, inflight, sends, cancelled, overlap, assertFailed>>
      /\ ttlTimer' = (\E k \in DOMAIN mapCallback : HasTtl(k)) /\ ttlTimer' \in BOOLEAN
      /\ reserved' = Unreserve(reserved, Expired)
  BY DEF Timer_CommandTtl
<1>2. /\ reserved' \in Seq(Queue) /\ (IsInjective(reserved) => IsInjective(reserved'))
      /\ ToSet(reserved') = {r \in ToSet(reserved) : r[1] \notin Expired}
  BY <1>1, Unreserved DEF DataOK
<1>3. /\ DOMAIN mapCallback' = DOMAIN mapCallback \ Expired
      /\ \A k \in DOMAIN mapCallback' : /\ mapCallback'[k] \in [cmd : Commands, ttl : 0..Ttl]
                                        /\ mapCallback'[k].cmd = mapCallback[k].cmd
                                        /\ mapCallback'[k].ttl > 0 => mapCallback[k].ttl > 0
  <2>1. mapCallback' = [k \in DOMAIN mapCallback \ Expired |->
                       IF HasTtl(k) THEN [mapCallback[k] EXCEPT !.ttl = @ - 1] ELSE mapCallback[k]]
    BY DEF Timer_CommandTtl
  <2>2. ASSUME NEW k \in DOMAIN mapCallback \ Expired
        PROVE  /\ mapCallback'[k] \in [cmd : Commands, ttl : 0..Ttl]
               /\ mapCallback'[k].cmd = mapCallback[k].cmd
               /\ mapCallback'[k].ttl > 0 => mapCallback[k].ttl > 0
    <3>1. mapCallback[k] \in [cmd : Commands, ttl : 0..Ttl]
      BY DEF DataOK
    <3>2. mapCallback'[k] = IF HasTtl(k) THEN [mapCallback[k] EXCEPT !.ttl = @ - 1] ELSE mapCallback[k]
      BY <2>1
    <3> QED BY <3>1, <3>2 DEF HasTtl
  <2> QED BY <2>1, <2>2
<1>4. \A k \in Expired : k \in DOMAIN mapCallback /\ mapCallback[k].ttl > 0
  BY DEF Expired
<1>5. heard' = [c \in Commands |->
                  IF \E k \in Expired : mapCallback[k].cmd = c THEN Append(heard[c], None) ELSE heard[c]]
  BY DEF Timer_CommandTtl
<1>6. heard' \in [Commands -> Seq(Commands \cup {None})]
  <2>1. \A c \in Commands : heard[c] \in Seq(Commands \cup {None}) /\ Append(heard[c], None) \in Seq(Commands \cup {None})
    BY DEF DataOK
  <2> QED BY <1>5, <2>1
<1>7. ASSUME NEW c \in Commands
      PROVE  (\E k \in Expired : mapCallback[k].cmd = c) <=> (ticket[c] \in Expired /\ mapCallback[ticket[c]].cmd = c)
  BY <1>4 DEF MapOK
<1>8. \A c \in Commands : heard'[c] = IF ticket[c] \in Expired /\ mapCallback[ticket[c]].cmd = c
                                      THEN Append(heard[c], None) ELSE heard[c]
  BY <1>5, <1>7
<1>9. DataOK'
  BY <1>1, <1>2, <1>3, <1>6 DEF DataOK, calls
<1>10. Waiting' \subseteq Waiting /\ {r \in Waiting : r[1] \notin Expired} \subseteq Waiting'
  BY <1>1, <1>2 DEF Waiting
<1> QED BY <1>1, <1>2, <1>3, <1>4, <1>8, <1>9, <1>10

-----------------------------------------------------------------------------
(* Steps of the connection and of its two timers leave commands alone. *)
Quiet == UNCHANGED <<ttlTimer, calls, mapCallback, deferred, reserved, inflight, sends, heard, cancelled>>
ConnectionStep ==
  \/ UserConnect \/ ConnectCallback_Failed \/ ConnectionLost \/ DisconnectCallback
  \/ Close \/ Close_End \/ Timer_ConnectionTimeout \/ Timer_Reconnect

(* There is nothing at hiredis without a connection, the reconnect timer    *)
(* runs only without a context or beside one that the application made, and *)
(* the connection timeout runs exactly while a connection is being made or  *)
(* after it was closed.                                                     *)
LEMMA ConnectionKeeps ==
  ASSUME DataOK, ConnectionOK, ConnectionStep
  PROVE  Quiet /\ DataOK' /\ ConnectionOK'
<1>1. Quiet
  BY DEF ConnectionStep, Quiet, timers, UserConnect, ConnectCallback_Failed, ConnectionLost, DisconnectCallback, Close, Close_End, Timer_ConnectionTimeout, Timer_Reconnect
<1>2. /\ rstate' \in RStates /\ context' \in {"none", "connecting", "connected", "lost", "closing"}
      /\ connTimer' \in BOOLEAN /\ reconTimer' \in BOOLEAN
  <2> USE DEF DataOK, RStates, timers
  <2>1. CASE UserConnect
    BY <2>1 DEF UserConnect, Connect
  <2>2. CASE ConnectCallback_Failed
    BY <2>2 DEF ConnectCallback_Failed, reconnect
  <2>3. CASE ConnectionLost
    BY <2>3 DEF ConnectionLost
  <2>4. CASE DisconnectCallback
    BY <2>4 DEF DisconnectCallback, reconnect
  <2>5. CASE Close
    BY <2>5 DEF Close
  <2>6. CASE Close_End
    BY <2>6 DEF Close_End
  <2>7. CASE Timer_ConnectionTimeout
    BY <2>7 DEF Timer_ConnectionTimeout, reconnect
  <2>8. CASE Timer_Reconnect
    BY <2>8 DEF Timer_Reconnect, Connect
  <2> QED BY <2>1, <2>2, <2>3, <2>4, <2>5, <2>6, <2>7, <2>8 DEF ConnectionStep
<1>3. DataOK'
  BY <1>1, <1>2 DEF DataOK, Quiet, calls
<1>4. ConnectionOK'
  <2> USE DEF ConnectionOK, DataOK, RStates, timers
  <2>1. CASE UserConnect
    BY <2>1 DEF UserConnect, Connect, LoopFree
  <2>2. CASE ConnectCallback_Failed
    BY <2>2 DEF ConnectCallback_Failed, reconnect, LoopFree
  <2>3. CASE ConnectionLost
    BY <2>3 DEF ConnectionLost, LoopFree
  <2>4. CASE DisconnectCallback
    BY <2>4 DEF DisconnectCallback, reconnect, LoopFree
  <2>5. CASE Close
    BY <2>5 DEF Close, LoopFree
  <2>6. CASE Close_End
    BY <2>6 DEF Close_End, LoopFree
  <2>7. CASE Timer_ConnectionTimeout
    BY <2>7 DEF Timer_ConnectionTimeout, reconnect, LoopFree
  <2>8. CASE Timer_Reconnect
    BY <2>8 DEF Timer_Reconnect, Connect, LoopFree
  <2> QED BY <2>1, <2>2, <2>3, <2>4, <2>5, <2>6, <2>7, <2>8 DEF ConnectionStep
<1> QED BY <1>1, <1>3, <1>4

(* All else that is said about commands is kept. *)
LEMMA QuietKeeps ==
  ASSUME Quiet
  PROVE  /\ CallsOK => CallsOK'
         /\ MapOK => MapOK'
         /\ EntriesOK => EntriesOK'
         /\ WaitOK => WaitOK'
         /\ Served => Served'
         /\ Unique => Unique'
         /\ Once => Once'
<1> USE DEF Quiet, calls
<1>1. (CallsOK => CallsOK') /\ (MapOK => MapOK')
  BY DEF CallsOK, MapOK
<1>2. (EntriesOK => EntriesOK') /\ (WaitOK => WaitOK')
  BY DEF EntriesOK, WaitOK, Waiting, Entry
<1>3. Served => Served'
  BY DEF Served, TtlIsServed, HasTtl
<1>4. Unique => Unique'
  BY DEF Unique, TicketsOK, HeardOK, Registered
<1>5. Once => Once'
  BY DEF Once, InjectiveOK, DeferredOK, ReservedOK, SendsOK, Registered
<1> QED BY <1>1, <1>2, <1>3, <1>4, <1>5

-----------------------------------------------------------------------------
(* The first layer: nothing is asked of the application. *)

(* s_ticket grows. *)
LEMMA Base_Issue_Increase ==
  ASSUME Base, NEW t \in RThreads, NEW c \in Commands, Issue_Increase(t, c)
  PROVE  Base'
<1> USE ThreadAssumption, TtlAssumption, RedisNoneAssumption DEF Base, timers, calls
<1>1. DataOK'
  BY DEF Issue_Increase, DataOK
<1>2. CallsOK'
  <2>1. sTicket' = sTicket + 1 /\ sTicket \in Nat \ {0} /\ ticket' = ticket
    BY DEF Issue_Increase, DataOK
  <2>2. 2..sTicket \subseteq 2..sTicket' /\ sTicket' > 1
    BY <2>1
  <2>3. t # None /\ \A d \in Commands : caller'[d] = IF d = c THEN t ELSE caller[d]
    BY DEF Issue_Increase, DataOK, RThreads
  <2>4. step[c] = "new" /\ \A d \in Commands : step'[d] = IF d = c THEN "read" ELSE step[d]
    BY DEF Issue_Increase, DataOK
  <2> QED BY <2>1, <2>2, <2>3, <2>4 DEF CallsOK
<1>3. MapOK'
  BY DEF Issue_Increase, MapOK, CallsOK, DataOK
<1>4. EntriesOK'
  BY DEF Issue_Increase, EntriesOK, Entry, Waiting, DataOK
<1>5. WaitOK'
  BY DEF Issue_Increase, WaitOK, MapOK, Entry, Waiting, DataOK
<1>6. ConnectionOK'
  BY DEF Issue_Increase, ConnectionOK
<1> QED BY <1>1, <1>2, <1>3, <1>4, <1>5, <1>6

(* The ticket is in its range. *)
LEMMA Base_Issue_Read ==
  ASSUME Base, NEW c \in Commands, Issue_Read(c)
  PROVE  Base'
<1> USE ThreadAssumption, TtlAssumption, RedisNoneAssumption DEF Base, timers, calls
<1>1. DataOK'
  BY DEF Issue_Read, DataOK
<1>2. CallsOK'
  BY DEF Issue_Read, CallsOK, DataOK
<1>3. MapOK'
  BY DEF Issue_Read, MapOK, CallsOK, DataOK
<1>4. EntriesOK'
  BY DEF Issue_Read, EntriesOK, Entry, Waiting, DataOK
<1>5. WaitOK'
  BY DEF Issue_Read, WaitOK, MapOK, Entry, Waiting, DataOK
<1>6. ConnectionOK'
  BY DEF Issue_Read, ConnectionOK
<1> QED BY <1>1, <1>2, <1>3, <1>4, <1>5, <1>6

(* The handler is registered under the ticket of its command. *)
LEMMA Base_Command_Insert ==
  ASSUME Base, NEW c \in Commands, Command_Insert(c)
  PROVE  Base'
<1> USE ThreadAssumption, TtlAssumption, RedisNoneAssumption DEF Base, timers, calls
<1>1. DataOK'
  BY DEF Command_Insert, DataOK
<1>2. CallsOK'
  BY DEF Command_Insert, CallsOK, DataOK
<1>3. MapOK'
  BY DEF Command_Insert, MapOK, CallsOK, DataOK
<1>4. EntriesOK'
  BY DEF Command_Insert, EntriesOK, Entry, Waiting, DataOK
<1>5. WaitOK'
  BY DEF Command_Insert, WaitOK, MapOK, Entry, Waiting, DataOK
<1>6. ConnectionOK'
  BY DEF Command_Insert, ConnectionOK
<1> QED BY <1>1, <1>2, <1>3, <1>4, <1>5, <1>6

(* The command enters a queue as it leaves command(). *)
LEMMA Base_Command_Post ==
  ASSUME Base, NEW c \in Commands, Command_Post(c)
  PROVE  Base'
<1> USE ThreadAssumption, TtlAssumption, RedisNoneAssumption DEF Base, timers, calls
<1>a. /\ step[c] = "post" /\ \A d \in Commands : step'[d] = IF d = c THEN "done" ELSE step[d]
      /\ caller[c] # None /\ \A d \in Commands : caller'[d] = IF d = c THEN None ELSE caller[d]
      /\ UNCHANGED <<rstate, context, timers, sTicket, ticket, mapCallback, heard, cancelled, overlap, assertFailed>>
  BY PostQueues
<1>b. Waiting' = Waiting \cup {Entry(c)} /\ Entry(c)[2] = c
  BY PostQueues
<1>c. rstate # "CONNECTED" => inflight' = inflight
  BY PostQueues
<1>1. DataOK'
  BY PostQueues
<1>2. CallsOK'
  BY <1>a DEF CallsOK
<1>3. MapOK'
  BY <1>a DEF MapOK, DataOK
<1>4. EntriesOK'
  BY <1>a, <1>b DEF EntriesOK, Entry
<1>5. WaitOK'
  <2>1. \A k \in DOMAIN mapCallback : mapCallback[k].cmd = c => <<k, c>> = Entry(c)
    BY DEF MapOK, Entry
  <2>2. \A k \in DOMAIN mapCallback : mapCallback[k].cmd \in Commands
    BY DEF DataOK
  <2> QED BY <1>a, <1>b, <2>1, <2>2 DEF WaitOK
<1>6. ConnectionOK'
  BY <1>a, <1>c DEF ConnectionOK
<1> QED BY <1>1, <1>2, <1>3, <1>4, <1>5, <1>6

(* The command moves from one queue to another. *)
LEMMA Base_Command_Deferred ==
  ASSUME Base, Command_Deferred
  PROVE  Base'
<1> USE ThreadAssumption, TtlAssumption, RedisNoneAssumption DEF Base, timers, calls
<1>1. DataOK'
  BY DeferredQueues DEF DataOK
<1>2. CallsOK'
  BY DeferredQueues DEF CallsOK, DataOK
<1>3. MapOK'
  BY DeferredQueues DEF MapOK, CallsOK, DataOK
<1>4. EntriesOK'
  BY DeferredQueues DEF EntriesOK, Entry, Waiting, DataOK
<1>5. WaitOK'
  BY DeferredQueues DEF WaitOK, MapOK, Entry, Waiting, DataOK
<1>6. ConnectionOK'
  <2>1. UNCHANGED <<rstate, context, timers, overlap, assertFailed>> /\ (rstate # "CONNECTED" => inflight' = inflight)
    BY DeferredQueues
  <2> QED BY <2>1 DEF ConnectionOK
<1> QED BY <1>1, <1>2, <1>3, <1>4, <1>5, <1>6

(* The ticket goes from the map and from one queue. *)
LEMMA Base_Cancel ==
  ASSUME Base, NEW c \in Commands, Cancel(c)
  PROVE  Base'
<1> USE ThreadAssumption, TtlAssumption, RedisNoneAssumption DEF Base, timers, calls
<1>a. /\ step[c] = "done" /\ DOMAIN mapCallback' = DOMAIN mapCallback \ {ticket[c]}
      /\ \A k \in DOMAIN mapCallback' : mapCallback'[k] = mapCallback[k]
      /\ UNCHANGED <<rstate, context, timers, calls, deferred, inflight, sends, heard, overlap, assertFailed>>
  BY CancelQueues
<1>b. Waiting' \subseteq Waiting /\ {r \in Waiting : r[1] # ticket[c]} \subseteq Waiting'
  BY CancelQueues
<1>1. DataOK'
  BY CancelQueues
<1>2. CallsOK'
  BY <1>a DEF CallsOK
<1>3. MapOK'
  BY <1>a DEF MapOK
<1>4. EntriesOK'
  BY <1>a, <1>b DEF EntriesOK, Entry
<1>5. WaitOK'
  BY <1>a, <1>b DEF WaitOK
<1>6. ConnectionOK'
  BY <1>a DEF ConnectionOK
<1> QED BY <1>1, <1>2, <1>3, <1>4, <1>5, <1>6

(* The reserved commands are now also at hiredis. *)
LEMMA Base_ConnectCallback_Ok ==
  ASSUME Base, ConnectCallback_Ok
  PROVE  Base'
<1> USE ThreadAssumption, TtlAssumption, RedisNoneAssumption DEF Base, timers, calls
<1>a. /\ UNCHANGED <<reconTimer, ttlTimer, calls, mapCallback, deferred, reserved, heard, overlap, assertFailed>>
      /\ rstate' = "CONNECTED" /\ context' = "connected" /\ connTimer' = FALSE
  BY ConnectedQueues
<1>1. DataOK'
  BY ConnectedQueues
<1>2. CallsOK'
  BY <1>a DEF CallsOK
<1>3. MapOK'
  BY <1>a DEF MapOK
<1>4. EntriesOK'
  <2>1. Waiting' = Waiting
    BY ConnectedQueues
  <2> QED BY <1>a, <2>1 DEF EntriesOK, Entry
<1>5. WaitOK'
  <2>1. Waiting' = Waiting
    BY ConnectedQueues
  <2> QED BY <1>a, <2>1 DEF WaitOK
<1>6. ConnectionOK'
  <2>1. reconTimer => overlap
    BY DEF ConnectCallback_Ok, ConnectionOK
  <2> QED BY <1>a, <2>1 DEF ConnectionOK
<1> QED BY <1>1, <1>2, <1>3, <1>4, <1>5, <1>6

(* The ticket that is answered goes from the map. *)
LEMMA Base_Answer ==
  ASSUME Base, NEW reply \in {Head(inflight)[2], None}, Answers(reply)
  PROVE  Base'
<1> USE ThreadAssumption, TtlAssumption, RedisNoneAssumption DEF Base, timers, calls
<1>a. PICK c \in Commands :
        /\ step[c] = "done" /\ DOMAIN mapCallback' = DOMAIN mapCallback \ {ticket[c]}
        /\ \A k \in DOMAIN mapCallback' : mapCallback'[k] = mapCallback[k]
        /\ UNCHANGED <<rstate, context, timers, calls, deferred, sends, cancelled, overlap, assertFailed>>
        /\ DataOK' /\ Waiting' \subseteq Waiting /\ {r \in Waiting : r[1] # ticket[c]} \subseteq Waiting'
  BY AnswerQueues
<1>1. DataOK'
  BY <1>a
<1>2. CallsOK'
  BY <1>a DEF CallsOK
<1>3. MapOK'
  BY <1>a DEF MapOK
<1>4. EntriesOK'
  BY <1>a DEF EntriesOK, Entry
<1>5. WaitOK'
  BY <1>a DEF WaitOK
<1>6. ConnectionOK'
  <2>1. context \notin {"none", "connecting"}
    BY DEF Answers
  <2> QED BY <1>a, <2>1 DEF ConnectionOK
<1> QED BY <1>1, <1>2, <1>3, <1>4, <1>5, <1>6

(* The expired tickets go from the map and from one queue. *)
LEMMA Base_Timer_CommandTtl ==
  ASSUME Base, Timer_CommandTtl
  PROVE  Base'
<1> USE ThreadAssumption, TtlAssumption, RedisNoneAssumption DEF Base, timers, calls
<1>a. /\ UNCHANGED <<rstate, context, connTimer, reconTimer, calls, deferred, inflight, sends, cancelled, overlap, assertFailed>>
      /\ DOMAIN mapCallback' = DOMAIN mapCallback \ Expired
      /\ \A k \in DOMAIN mapCallback' : /\ mapCallback'[k].cmd = mapCallback[k].cmd
                                        /\ mapCallback'[k].ttl > 0 => mapCallback[k].ttl > 0
  BY TtlQueues
<1>b. Waiting' \subseteq Waiting /\ {r \in Waiting : r[1] \notin Expired} \subseteq Waiting'
  BY TtlQueues
<1>1. DataOK'
  BY TtlQueues
<1>2. CallsOK'
  BY <1>a DEF CallsOK
<1>3. MapOK'
  BY <1>a DEF MapOK
<1>4. EntriesOK'
  BY <1>a, <1>b DEF EntriesOK, Entry
<1>5. WaitOK'
  <2>1. \A k \in DOMAIN mapCallback' : k \in DOMAIN mapCallback /\ <<k, mapCallback[k].cmd>>[1] \notin Expired
    BY <1>a
  <2> QED BY <1>a, <1>b, <2>1 DEF WaitOK
<1>6. ConnectionOK'
  BY <1>a DEF ConnectionOK
<1> QED BY <1>1, <1>2, <1>3, <1>4, <1>5, <1>6

-----------------------------------------------------------------------------
(* The timer of the commands with a timeout, when they come from the loop.  *)

(* The loop is inside of a command with a timeout. *)
LEMMA Served_Issue_Increase ==
  ASSUME TtlOnLoop, Base, Served, NEW t \in RThreads, NEW c \in Commands, Issue_Increase(t, c)
  PROVE  Served'
<1> USE ThreadAssumption, TtlAssumption, RedisNoneAssumption DEF Base, Served, timers, calls
<1>1. TtlIsServed'
  BY DEF Issue_Increase, TtlIsServed, HasTtl
<1>2. \A d \in TtlCommands : step'[d] \in {"insert", "post"} => ttlTimer'
  BY DEF Issue_Increase, CallsOK, DataOK
<1>3. \A d \in TtlCommands : caller'[d] # None => caller'[d] = Loop
  BY DEF Issue_Increase, TtlOnLoop, CallsOK, DataOK
<1> QED BY <1>1, <1>2, <1>3

(* The timer is started with the ticket. *)
LEMMA Served_Issue_Read ==
  ASSUME TtlOnLoop, Base, Served, NEW c \in Commands, Issue_Read(c)
  PROVE  Served'
<1> USE ThreadAssumption, TtlAssumption, RedisNoneAssumption DEF Base, Served, timers, calls
<1>1. TtlIsServed'
  BY DEF Issue_Read, TtlIsServed, HasTtl
<1>2. \A d \in TtlCommands : step'[d] \in {"insert", "post"} => ttlTimer'
  BY DEF Issue_Read, CallsOK, DataOK
<1>3. \A d \in TtlCommands : caller'[d] # None => caller'[d] = Loop
  BY DEF Issue_Read, TtlOnLoop, CallsOK, DataOK
<1> QED BY <1>1, <1>2, <1>3

(* The timer runs when the handler is registered. *)
LEMMA Served_Command_Insert ==
  ASSUME TtlOnLoop, Base, Served, NEW c \in Commands, Command_Insert(c)
  PROVE  Served'
<1> USE ThreadAssumption, TtlAssumption, RedisNoneAssumption DEF Base, Served, timers, calls
<1>1. TtlIsServed'
  BY DEF Command_Insert, TtlIsServed, HasTtl
<1>2. \A d \in TtlCommands : step'[d] \in {"insert", "post"} => ttlTimer'
  BY DEF Command_Insert, CallsOK, DataOK
<1>3. \A d \in TtlCommands : caller'[d] # None => caller'[d] = Loop
  BY DEF Command_Insert, TtlOnLoop, CallsOK, DataOK
<1> QED BY <1>1, <1>2, <1>3

(* Nothing about a timer changes. *)
LEMMA Served_Command_Post ==
  ASSUME TtlOnLoop, Base, Served, NEW c \in Commands, Command_Post(c)
  PROVE  Served'
<1> USE ThreadAssumption, TtlAssumption, RedisNoneAssumption DEF Base, Served, timers, calls
<1>a. /\ step[c] = "post" /\ \A d \in Commands : step'[d] = IF d = c THEN "done" ELSE step[d]
      /\ caller[c] # None /\ \A d \in Commands : caller'[d] = IF d = c THEN None ELSE caller[d]
      /\ UNCHANGED <<rstate, context, timers, sTicket, ticket, mapCallback, heard, cancelled, overlap, assertFailed>>
  BY PostQueues
<1>1. TtlIsServed'
  BY <1>a DEF TtlIsServed, HasTtl
<1>2. \A d \in TtlCommands : step'[d] \in {"insert", "post"} => ttlTimer'
  BY <1>a
<1>3. \A d \in TtlCommands : caller'[d] # None => caller'[d] = Loop
  BY <1>a
<1> QED BY <1>1, <1>2, <1>3

(* Nothing about a timer changes. *)
LEMMA Served_Command_Deferred ==
  ASSUME TtlOnLoop, Base, Served, Command_Deferred
  PROVE  Served'
<1> USE ThreadAssumption, TtlAssumption, RedisNoneAssumption DEF Base, Served, timers, calls
<1>1. TtlIsServed'
  BY DeferredQueues DEF TtlIsServed, HasTtl
<1>2. \A d \in TtlCommands : step'[d] \in {"insert", "post"} => ttlTimer'
  BY DeferredQueues DEF CallsOK, DataOK
<1>3. \A d \in TtlCommands : caller'[d] # None => caller'[d] = Loop
  BY DeferredQueues DEF TtlOnLoop, CallsOK, DataOK
<1> QED BY <1>1, <1>2, <1>3

(* A ticket goes from the map. *)
LEMMA Served_Cancel ==
  ASSUME TtlOnLoop, Base, Served, NEW c \in Commands, Cancel(c)
  PROVE  Served'
<1> USE ThreadAssumption, TtlAssumption, RedisNoneAssumption DEF Base, Served, timers, calls
<1>a. /\ step[c] = "done" /\ DOMAIN mapCallback' = DOMAIN mapCallback \ {ticket[c]}
      /\ \A k \in DOMAIN mapCallback' : mapCallback'[k] = mapCallback[k]
      /\ UNCHANGED <<rstate, context, timers, calls, deferred, inflight, sends, heard, overlap, assertFailed>>
  BY CancelQueues
<1>1. TtlIsServed'
  BY <1>a DEF TtlIsServed, HasTtl
<1>2. \A d \in TtlCommands : step'[d] \in {"insert", "post"} => ttlTimer'
  BY <1>a
<1>3. \A d \in TtlCommands : caller'[d] # None => caller'[d] = Loop
  BY <1>a
<1> QED BY <1>1, <1>2, <1>3

(* Nothing about a timer changes. *)
LEMMA Served_ConnectCallback_Ok ==
  ASSUME TtlOnLoop, Base, Served, ConnectCallback_Ok
  PROVE  Served'
<1> USE ThreadAssumption, TtlAssumption, RedisNoneAssumption DEF Base, Served, timers, calls
<1>a. /\ UNCHANGED <<reconTimer, ttlTimer, calls, mapCallback, deferred, reserved, heard, overlap, assertFailed>>
      /\ rstate' = "CONNECTED" /\ context' = "connected" /\ connTimer' = FALSE
  BY ConnectedQueues
<1>1. TtlIsServed'
  BY <1>a DEF TtlIsServed, HasTtl
<1>2. \A d \in TtlCommands : step'[d] \in {"insert", "post"} => ttlTimer'
  BY <1>a
<1>3. \A d \in TtlCommands : caller'[d] # None => caller'[d] = Loop
  BY <1>a
<1> QED BY <1>1, <1>2, <1>3

(* A ticket goes from the map. *)
LEMMA Served_Answer ==
  ASSUME TtlOnLoop, Base, Served, NEW reply \in {Head(inflight)[2], None}, Answers(reply)
  PROVE  Served'
<1> USE ThreadAssumption, TtlAssumption, RedisNoneAssumption DEF Base, Served, timers, calls
<1>a. PICK c \in Commands :
        /\ step[c] = "done" /\ DOMAIN mapCallback' = DOMAIN mapCallback \ {ticket[c]}
        /\ \A k \in DOMAIN mapCallback' : mapCallback'[k] = mapCallback[k]
        /\ UNCHANGED <<rstate, context, timers, calls, deferred, sends, cancelled, overlap, assertFailed>>
  BY AnswerQueues
<1>1. TtlIsServed'
  BY <1>a DEF TtlIsServed, HasTtl
<1>2. \A d \in TtlCommands : step'[d] \in {"insert", "post"} => ttlTimer'
  BY <1>a
<1>3. \A d \in TtlCommands : caller'[d] # None => caller'[d] = Loop
  BY <1>a
<1> QED BY <1>1, <1>2, <1>3

(* The loop is outside of command(): only what is registered needs the timer. *)
LEMMA Served_Timer_CommandTtl ==
  ASSUME TtlOnLoop, Base, Served, Timer_CommandTtl
  PROVE  Served'
<1> USE ThreadAssumption, TtlAssumption, RedisNoneAssumption DEF Base, Served, timers, calls
<1>a. /\ UNCHANGED <<rstate, context, connTimer, reconTimer, calls, deferred, inflight, sends, cancelled, overlap, assertFailed>>
      /\ DOMAIN mapCallback' = DOMAIN mapCallback \ Expired
      /\ \A k \in DOMAIN mapCallback' : /\ mapCallback'[k].cmd = mapCallback[k].cmd
                                        /\ mapCallback'[k].ttl > 0 => mapCallback[k].ttl > 0
  BY TtlQueues
<1>b. \A c \in TtlCommands : caller[c] = None
  BY DEF Timer_CommandTtl, LoopFree, Inside
<1>c. ttlTimer' = (\E k \in DOMAIN mapCallback : HasTtl(k))
  BY TtlQueues
<1>1. TtlIsServed'
  BY <1>a, <1>c DEF TtlIsServed, HasTtl
<1>2. \A d \in TtlCommands : step'[d] \in {"insert", "post"} => ttlTimer'
  BY <1>a, <1>b DEF CallsOK
<1>3. \A d \in TtlCommands : caller'[d] # None => caller'[d] = Loop
  BY <1>a, <1>b
<1> QED BY <1>1, <1>2, <1>3

-----------------------------------------------------------------------------
(* Tickets and answers, when one thread at a time is inside issueTicket.    *)

(* The number that will be read is new. *)
LEMMA Unique_Issue_Increase ==
  ASSUME ~ TicketRace, Base, Unique, NEW t \in RThreads, NEW c \in Commands, Issue_Increase(t, c)
  PROVE  Unique'
<1> USE ThreadAssumption, TtlAssumption, RedisNoneAssumption DEF Base, Unique, timers, calls
<1>1. TicketsOK'
  <2>1. /\ ticket' = ticket /\ sTicket' = sTicket + 1 /\ sTicket \in Nat /\ \A d \in Commands : ticket[d] \in Nat
        /\ \A d \in Commands : step'[d] = IF d = c THEN "read" ELSE step[d]
    BY DEF Issue_Increase, DataOK
  <2>2. \A d \in Commands : step[d] # "read"
    BY DEF Issue_Increase
  <2>3. \A d \in Commands : ticket[d] <= sTicket
    BY <2>1 DEF CallsOK
  <2>4. \A d \in Commands : ticket[d] # sTicket'
    BY <2>1, <2>3
  <2> QED BY <2>1, <2>2, <2>4 DEF TicketsOK
<1>2. HeardOK'
  BY DEF Issue_Increase, HeardOK, Registered, TicketsOK, CallsOK, DataOK
<1> QED BY <1>1, <1>2

(* The number is read before any other thread gets one. *)
LEMMA Unique_Issue_Read ==
  ASSUME ~ TicketRace, Base, Unique, NEW c \in Commands, Issue_Read(c)
  PROVE  Unique'
<1> USE ThreadAssumption, TtlAssumption, RedisNoneAssumption DEF Base, Unique, timers, calls
<1>1. TicketsOK'
  BY DEF Issue_Read, TicketsOK, CallsOK, DataOK
<1>2. HeardOK'
  BY DEF Issue_Read, HeardOK, Registered, TicketsOK, CallsOK, DataOK
<1> QED BY <1>1, <1>2

(* The handler has not been called. *)
LEMMA Unique_Command_Insert ==
  ASSUME ~ TicketRace, Base, Unique, NEW c \in Commands, Command_Insert(c)
  PROVE  Unique'
<1> USE ThreadAssumption, TtlAssumption, RedisNoneAssumption DEF Base, Unique, timers, calls
<1>1. TicketsOK'
  BY DEF Command_Insert, TicketsOK, CallsOK, DataOK
<1>2. HeardOK'
  BY DEF Command_Insert, HeardOK, Registered, TicketsOK, CallsOK, DataOK
<1> QED BY <1>1, <1>2

(* The command keeps its ticket. *)
LEMMA Unique_Command_Post ==
  ASSUME ~ TicketRace, Base, Unique, NEW c \in Commands, Command_Post(c)
  PROVE  Unique'
<1> USE ThreadAssumption, TtlAssumption, RedisNoneAssumption DEF Base, Unique, timers, calls
<1>a. /\ step[c] = "post" /\ \A d \in Commands : step'[d] = IF d = c THEN "done" ELSE step[d]
      /\ caller[c] # None /\ \A d \in Commands : caller'[d] = IF d = c THEN None ELSE caller[d]
      /\ UNCHANGED <<rstate, context, timers, sTicket, ticket, mapCallback, heard, cancelled, overlap, assertFailed>>
  BY PostQueues
<1>1. TicketsOK'
  <2>1. \A d \in Commands : step'[d] = "read" => step[d] = "read"
    BY <1>a
  <2> QED BY <1>a, <2>1 DEF TicketsOK
<1>2. HeardOK'
  BY <1>a DEF HeardOK, Registered
<1> QED BY <1>1, <1>2

(* Nothing about a ticket changes. *)
LEMMA Unique_Command_Deferred ==
  ASSUME ~ TicketRace, Base, Unique, Command_Deferred
  PROVE  Unique'
<1> USE ThreadAssumption, TtlAssumption, RedisNoneAssumption DEF Base, Unique, timers, calls
<1>1. TicketsOK'
  BY DeferredQueues, SMTT(30) DEF TicketsOK, CallsOK, DataOK
<1>2. HeardOK'
  BY DeferredQueues DEF HeardOK, Registered, TicketsOK, CallsOK, DataOK
<1> QED BY <1>1, <1>2

(* Nobody is called. *)
LEMMA Unique_Cancel ==
  ASSUME ~ TicketRace, Base, Unique, NEW c \in Commands, Cancel(c)
  PROVE  Unique'
<1> USE ThreadAssumption, TtlAssumption, RedisNoneAssumption DEF Base, Unique, timers, calls
<1>a. /\ step[c] = "done" /\ DOMAIN mapCallback' = DOMAIN mapCallback \ {ticket[c]}
      /\ \A k \in DOMAIN mapCallback' : mapCallback'[k] = mapCallback[k]
      /\ UNCHANGED <<rstate, context, timers, calls, deferred, inflight, sends, heard, overlap, assertFailed>>
  BY CancelQueues
<1>1. TicketsOK'
  BY <1>a DEF TicketsOK
<1>2. HeardOK'
  BY <1>a DEF HeardOK, Registered
<1> QED BY <1>1, <1>2

(* Nothing about a ticket changes. *)
LEMMA Unique_ConnectCallback_Ok ==
  ASSUME ~ TicketRace, Base, Unique, ConnectCallback_Ok
  PROVE  Unique'
<1> USE ThreadAssumption, TtlAssumption, RedisNoneAssumption DEF Base, Unique, timers, calls
<1>a. /\ UNCHANGED <<reconTimer, ttlTimer, calls, mapCallback, deferred, reserved, heard, overlap, assertFailed>>
      /\ rstate' = "CONNECTED" /\ context' = "connected" /\ connTimer' = FALSE
  BY ConnectedQueues
<1>1. TicketsOK'
  BY <1>a DEF TicketsOK
<1>2. HeardOK'
  BY <1>a DEF HeardOK, Registered
<1> QED BY <1>1, <1>2

(* The handler that is called goes. *)
LEMMA Unique_Answer ==
  ASSUME ~ TicketRace, Base, Unique, NEW reply \in {Head(inflight)[2], None}, Answers(reply)
  PROVE  Unique'
<1> USE ThreadAssumption, TtlAssumption, RedisNoneAssumption DEF Base, Unique, timers, calls
<1>a. PICK c \in Commands :
        /\ step[c] = "done" /\ DOMAIN mapCallback' = DOMAIN mapCallback \ {ticket[c]}
        /\ \A k \in DOMAIN mapCallback' : mapCallback'[k] = mapCallback[k]
        /\ UNCHANGED <<rstate, context, timers, calls, deferred, sends, cancelled, overlap, assertFailed>>
        /\ reply \in {c, None}
        /\ \/ heard' = heard
           \/ /\ Registered(c)
              /\ heard' = [heard EXCEPT ![mapCallback[ticket[c]].cmd] = Append(@, reply)]
  BY AnswerQueues
<1>b. /\ ticket[c] # 0 /\ \A d \in Commands : d # c => ticket[d] # ticket[c]
      /\ \A d \in Commands : Registered(d)' <=> d # c /\ Registered(d)
  BY <1>a DEF CallsOK, TicketsOK, Registered
<1>c. \/ heard' = heard
      \/ Registered(c) /\ heard[c] = <<>> /\ heard' = [heard EXCEPT ![c] = Append(@, reply)]
  <2>1. CASE heard' = heard
    BY <2>1
  <2>2. CASE Registered(c) /\ heard' = [heard EXCEPT ![mapCallback[ticket[c]].cmd] = Append(@, reply)]
    <3>1. mapCallback[ticket[c]].cmd \in Commands /\ ticket[mapCallback[ticket[c]].cmd] = ticket[c]
      BY <2>2 DEF MapOK, DataOK, Registered
    <3>2. mapCallback[ticket[c]].cmd = c
      BY <1>b, <3>1
    <3>3. heard[c] = <<>>
      BY <2>2 DEF HeardOK
    <3> QED BY <2>2, <3>2, <3>3
  <2> QED BY <1>a, <2>1, <2>2
<1>1. TicketsOK'
  BY <1>a DEF TicketsOK
<1>2. HeardOK'
  <2>1. CASE heard' = heard
    BY <1>a, <1>b, <2>1 DEF HeardOK
  <2>2. CASE Registered(c) /\ heard[c] = <<>> /\ heard' = [heard EXCEPT ![c] = Append(@, reply)]
    <3>1. heard'[c] = <<reply>> /\ \A d \in Commands : d # c => heard'[d] = heard[d]
      BY <2>2 DEF DataOK
    <3>2. <<reply>> \in {<<c>>, <<None>>}
      BY <1>a
    <3> QED BY <1>a, <1>b, <3>1, <3>2 DEF HeardOK
  <2> QED BY <1>c, <2>1, <2>2
<1> QED BY <1>1, <1>2

(* The handlers that are called go. *)
LEMMA Unique_Timer_CommandTtl ==
  ASSUME ~ TicketRace, Base, Unique, Timer_CommandTtl
  PROVE  Unique'
<1> USE ThreadAssumption, TtlAssumption, RedisNoneAssumption DEF Base, Unique, timers, calls
<1>a. /\ UNCHANGED <<rstate, context, connTimer, reconTimer, calls, deferred, inflight, sends, cancelled, overlap, assertFailed>>
      /\ DOMAIN mapCallback' = DOMAIN mapCallback \ Expired
      /\ \A k \in DOMAIN mapCallback' : /\ mapCallback'[k].cmd = mapCallback[k].cmd
                                        /\ mapCallback'[k].ttl > 0 => mapCallback[k].ttl > 0
  BY TtlQueues
<1>b. \A c \in Commands : heard'[c] = IF ticket[c] \in Expired /\ mapCallback[ticket[c]].cmd = c
                                      THEN Append(heard[c], None) ELSE heard[c]
  BY TtlQueues
<1>c. /\ \A c \in Commands : ticket[c] \in Expired => Registered(c) /\ heard[c] = <<>>
      /\ \A c \in Commands : Registered(c)' <=> Registered(c) /\ ticket[c] \notin Expired
      /\ \A c \in Commands : ticket[c] \in Expired => step[c] \in {"post", "done"}
  <2>1. \A k \in Expired : k \in DOMAIN mapCallback
    BY TtlQueues
  <2>2. \A c \in Commands : ticket[c] \in Expired => Registered(c) /\ heard[c] = <<>>
    BY <2>1 DEF Registered, HeardOK
  <2>3. \A c \in Commands : Registered(c)' <=> Registered(c) /\ ticket[c] \notin Expired
    BY <1>a DEF Registered
  <2>4. ASSUME NEW c \in Commands, ticket[c] \in Expired PROVE step[c] \in {"post", "done"}
    <3>1. /\ mapCallback[ticket[c]].cmd \in Commands /\ ticket[mapCallback[ticket[c]].cmd] = ticket[c]
          /\ step[mapCallback[ticket[c]].cmd] \in {"post", "done"}
      BY <2>1, <2>4 DEF MapOK, DataOK
    <3>2. ticket[mapCallback[ticket[c]].cmd] # 0
      BY <3>1 DEF CallsOK
    <3> QED BY <3>1, <3>2 DEF TicketsOK
  <2> QED BY <2>2, <2>3, <2>4
<1>1. TicketsOK'
  BY <1>a DEF TicketsOK
<1>2. HeardOK'
  <2>1. Append(<<>>, None) = <<None>>
    OBVIOUS
  <2>2. \A c \in Commands : heard'[c] = heard[c] \/ (ticket[c] \in Expired /\ heard'[c] = <<None>>)
    BY <1>b, <1>c, <2>1
  <2> QED BY <1>a, <1>c, <2>2 DEF HeardOK
<1> QED BY <1>1, <1>2

-----------------------------------------------------------------------------
(* What is sent, when the application is orderly.                           *)

(* No queue changes. *)
LEMMA Once_Issue_Increase ==
  ASSUME Orderly, Base, Served, Unique, Base', Unique', Once, NEW t \in RThreads, NEW c \in Commands, Issue_Increase(t, c)
  PROVE  Once'
<1> USE ThreadAssumption, TtlAssumption, RedisNoneAssumption DEF Base, Served, Unique, Once, timers, calls
<1>1. InjectiveOK'
  BY DEF Issue_Increase, InjectiveOK
<1>2. DeferredOK'
  BY DEF Issue_Increase, DeferredOK, EntriesOK, Entry, Registered, TicketsOK, CallsOK, Waiting
<1>3. ReservedOK'
  BY DEF Issue_Increase, ReservedOK, EntriesOK, Entry, Registered, TicketsOK, CallsOK, Waiting
<1>4. SendsOK'
  BY DEF Issue_Increase, SendsOK, DeferredOK, EntriesOK, Entry, Registered, TicketsOK, CallsOK, DataOK, Waiting
<1> QED BY <1>1, <1>2, <1>3, <1>4

(* No queue changes. *)
LEMMA Once_Issue_Read ==
  ASSUME Orderly, Base, Served, Unique, Base', Unique', Once, NEW c \in Commands, Issue_Read(c)
  PROVE  Once'
<1> USE ThreadAssumption, TtlAssumption, RedisNoneAssumption DEF Base, Served, Unique, Once, timers, calls
<1>1. InjectiveOK'
  BY DEF Issue_Read, InjectiveOK
<1>2. DeferredOK'
  BY DEF Issue_Read, DeferredOK, EntriesOK, Entry, Registered, TicketsOK, CallsOK, Waiting
<1>3. ReservedOK'
  BY DEF Issue_Read, ReservedOK, EntriesOK, Entry, Registered, TicketsOK, CallsOK, Waiting
<1>4. SendsOK'
  BY DEF Issue_Read, SendsOK, DeferredOK, EntriesOK, Entry, Registered, TicketsOK, CallsOK, DataOK, Waiting
<1> QED BY <1>1, <1>2, <1>3, <1>4

(* No queue changes. *)
LEMMA Once_Command_Insert ==
  ASSUME Orderly, Base, Served, Unique, Base', Unique', Once, NEW c \in Commands, Command_Insert(c)
  PROVE  Once'
<1> USE ThreadAssumption, TtlAssumption, RedisNoneAssumption DEF Base, Served, Unique, Once, timers, calls
<1>1. InjectiveOK'
  BY DEF Command_Insert, InjectiveOK
<1>2. DeferredOK'
  BY DEF Command_Insert, DeferredOK, EntriesOK, Entry, Registered, TicketsOK, CallsOK, Waiting
<1>3. ReservedOK'
  BY DEF Command_Insert, ReservedOK, EntriesOK, Entry, Registered, TicketsOK, CallsOK, Waiting
<1>4. SendsOK'
  BY DEF Command_Insert, SendsOK, DeferredOK, EntriesOK, Entry, Registered, TicketsOK, CallsOK, DataOK, Waiting
<1> QED BY <1>1, <1>2, <1>3, <1>4

(* The command is in no other queue and was not sent. *)
LEMMA Once_Command_Post ==
  ASSUME Orderly, Base, Served, Unique, Base', Unique', Once, NEW c \in Commands, Command_Post(c)
  PROVE  Once'
<1> USE ThreadAssumption, TtlAssumption, RedisNoneAssumption DEF Base, Served, Unique, Once, timers, calls
<1>a. /\ step[c] = "post" /\ \A d \in Commands : step'[d] = IF d = c THEN "done" ELSE step[d]
      /\ caller[c] # None /\ \A d \in Commands : caller'[d] = IF d = c THEN None ELSE caller[d]
      /\ UNCHANGED <<rstate, context, timers, sTicket, ticket, mapCallback, heard, cancelled, overlap, assertFailed>>
  BY PostQueues
<1>b. /\ Registered(c) /\ sends[c] = 0 /\ Entry(c)[2] = c /\ (caller[c] # Loop => c \notin TtlCommands)
      /\ Entry(c) \notin ToSet(deferred) /\ Entry(c) \notin ToSet(reserved) /\ Entry(c) \notin ToSet(inflight)
  BY <1>a DEF SendsOK, EntriesOK, Waiting, Entry
<1>c. \/ /\ rstate = "CONNECTED" /\ UNCHANGED <<reserved, deferred>>
         /\ ToSet(inflight') = ToSet(inflight) \cup {Entry(c)} /\ IsInjective(inflight')
         /\ \A d \in Commands : sends'[d] = IF d = c THEN 1 ELSE sends[d]
      \/ /\ UNCHANGED <<inflight, deferred, sends>>
         /\ ToSet(reserved') = ToSet(reserved) \cup {Entry(c)} /\ IsInjective(reserved')
      \/ /\ UNCHANGED <<inflight, reserved, sends>> /\ c \notin TtlCommands
         /\ ToSet(deferred') = ToSet(deferred) \cup {Entry(c)} /\ IsInjective(deferred')
  <2>1. InjectiveOK
    OBVIOUS
  <2> HIDE DEF Base, Served, Unique, Once
  <2> QED BY <1>b, <2>1, PostQueues DEF InjectiveOK
<1>d. \A d \in Commands : Registered(d)' <=> Registered(d)
  BY <1>a DEF Registered
<1>e. \A r \in ToSet(deferred) \cup ToSet(reserved) : r[2] \in Commands /\ r[2] # c
  BY <1>a DEF EntriesOK, Waiting
<1>1. InjectiveOK'
  BY <1>c DEF InjectiveOK
<1>2. DeferredOK'
  <2>1. CASE rstate = "CONNECTED" /\ UNCHANGED <<reserved, deferred>>
            /\ ToSet(inflight') = ToSet(inflight) \cup {Entry(c)} /\ IsInjective(inflight')
            /\ \A d \in Commands : sends'[d] = IF d = c THEN 1 ELSE sends[d]
    BY <1>a, <1>b, <1>d, <1>e, <2>1 DEF DeferredOK
  <2>2. CASE UNCHANGED <<inflight, deferred, sends>>
            /\ ToSet(reserved') = ToSet(reserved) \cup {Entry(c)} /\ IsInjective(reserved')
    BY <1>a, <1>b, <1>d, <1>e, <2>2 DEF DeferredOK
  <2>3. CASE UNCHANGED <<inflight, reserved, sends>> /\ c \notin TtlCommands
            /\ ToSet(deferred') = ToSet(deferred) \cup {Entry(c)} /\ IsInjective(deferred')
    BY <1>a, <1>b, <1>d, <1>e, <2>3 DEF DeferredOK
  <2> QED BY <1>c, <2>1, <2>2, <2>3
<1>3. ReservedOK'
  <2>1. CASE rstate = "CONNECTED" /\ UNCHANGED <<reserved, deferred>>
            /\ ToSet(inflight') = ToSet(inflight) \cup {Entry(c)} /\ IsInjective(inflight')
            /\ \A d \in Commands : sends'[d] = IF d = c THEN 1 ELSE sends[d]
    BY <1>a, <1>b, <1>d, <1>e, <2>1 DEF ReservedOK
  <2>2. CASE UNCHANGED <<inflight, deferred, sends>>
            /\ ToSet(reserved') = ToSet(reserved) \cup {Entry(c)} /\ IsInjective(reserved')
    BY <1>a, <1>b, <1>d, <1>e, <2>2 DEF ReservedOK
  <2>3. CASE UNCHANGED <<inflight, reserved, sends>> /\ c \notin TtlCommands
            /\ ToSet(deferred') = ToSet(deferred) \cup {Entry(c)} /\ IsInjective(deferred')
    BY <1>a, <1>b, <1>d, <1>e, <2>3 DEF ReservedOK
  <2> QED BY <1>c, <2>1, <2>2, <2>3
<1>4. SendsOK'
  <2>1. CASE rstate = "CONNECTED" /\ UNCHANGED <<reserved, deferred>>
            /\ ToSet(inflight') = ToSet(inflight) \cup {Entry(c)} /\ IsInjective(inflight')
            /\ \A d \in Commands : sends'[d] = IF d = c THEN 1 ELSE sends[d]
    BY <1>a, <1>b, <1>d, <1>e, <2>1 DEF SendsOK
  <2>2. CASE UNCHANGED <<inflight, deferred, sends>>
            /\ ToSet(reserved') = ToSet(reserved) \cup {Entry(c)} /\ IsInjective(reserved')
    BY <1>a, <1>b, <1>d, <1>e, <2>2 DEF SendsOK
  <2>3. CASE UNCHANGED <<inflight, reserved, sends>> /\ c \notin TtlCommands
            /\ ToSet(deferred') = ToSet(deferred) \cup {Entry(c)} /\ IsInjective(deferred')
    BY <1>a, <1>b, <1>d, <1>e, <2>3 DEF SendsOK
  <2> QED BY <1>c, <2>1, <2>2, <2>3
<1> QED BY <1>1, <1>2, <1>3, <1>4

(* The command was not sent and leaves the deferred calls. *)
LEMMA Once_Command_Deferred ==
  ASSUME Orderly, Base, Served, Unique, Base', Unique', Once, Command_Deferred
  PROVE  Once'
<1> USE ThreadAssumption, TtlAssumption, RedisNoneAssumption DEF Base, Served, Unique, Once, timers, calls
<1>a. UNCHANGED <<calls, mapCallback>>
  BY DeferredQueues
<1>b. InjectiveOK /\ DeferredOK /\ EntriesOK
  OBVIOUS
<1>c. PICK r \in ToSet(deferred) :
        /\ r[2] \in Commands /\ r = Entry(r[2]) /\ step[r[2]] = "done"
        /\ ToSet(deferred') \subseteq ToSet(deferred) /\ IsInjective(deferred') /\ r \notin ToSet(deferred')
        /\ \/ /\ rstate = "CONNECTED" /\ reserved' = reserved
              /\ ToSet(inflight') = ToSet(inflight) \cup {r} /\ IsInjective(inflight')
              /\ \A c \in Commands : sends'[c] = IF c = r[2] THEN 1 ELSE sends[c]
           \/ /\ inflight' = inflight /\ sends' = sends
              /\ ToSet(reserved') = ToSet(reserved) \cup {r} /\ IsInjective(reserved')
  <2> HIDE DEF Base, Served, Unique, Once
  <2>1. /\ IsInjective(deferred) /\ IsInjective(reserved) /\ IsInjective(inflight)
        /\ \A r \in ToSet(deferred) : r \notin ToSet(reserved) /\ r \notin ToSet(inflight) /\ sends[r[2]] = 0
    BY <1>b DEF InjectiveOK, DeferredOK
  <2> QED BY <2>1, DeferredQueues
<1>d. \A d \in Commands : Registered(d)' <=> Registered(d)
  BY <1>a DEF Registered
<1>e. /\ \A q \in ToSet(deferred) \cup ToSet(reserved) : q[2] \in Commands /\ (q # r => q[2] # r[2])
      /\ Registered(r[2]) /\ sends[r[2]] = 0
  BY <1>b, <1>c DEF EntriesOK, Waiting, DeferredOK
<1>1. InjectiveOK'
  BY <1>b, <1>c DEF InjectiveOK
<1>2. DeferredOK'
  <2>1. CASE rstate = "CONNECTED" /\ reserved' = reserved
            /\ ToSet(inflight') = ToSet(inflight) \cup {r} /\ IsInjective(inflight')
            /\ \A c \in Commands : sends'[c] = IF c = r[2] THEN 1 ELSE sends[c]
    BY <1>a, <1>c, <1>d, <1>e, <2>1 DEF DeferredOK
  <2>2. CASE inflight' = inflight /\ sends' = sends
            /\ ToSet(reserved') = ToSet(reserved) \cup {r} /\ IsInjective(reserved')
    BY <1>a, <1>c, <1>d, <1>e, <2>2 DEF DeferredOK
  <2> QED BY <1>c, <2>1, <2>2
<1>3. ReservedOK'
  <2>1. CASE rstate = "CONNECTED" /\ reserved' = reserved
            /\ ToSet(inflight') = ToSet(inflight) \cup {r} /\ IsInjective(inflight')
            /\ \A c \in Commands : sends'[c] = IF c = r[2] THEN 1 ELSE sends[c]
    BY <1>a, <1>c, <1>d, <1>e, <2>1 DEF ReservedOK
  <2>2. CASE inflight' = inflight /\ sends' = sends
            /\ ToSet(reserved') = ToSet(reserved) \cup {r} /\ IsInjective(reserved')
    BY <1>a, <1>c, <1>d, <1>e, <2>2 DEF ReservedOK
  <2> QED BY <1>c, <2>1, <2>2
<1>4. SendsOK'
  <2>1. CASE rstate = "CONNECTED" /\ reserved' = reserved
            /\ ToSet(inflight') = ToSet(inflight) \cup {r} /\ IsInjective(inflight')
            /\ \A c \in Commands : sends'[c] = IF c = r[2] THEN 1 ELSE sends[c]
    BY <1>a, <1>c, <1>d, <1>e, <2>1 DEF SendsOK
  <2>2. CASE inflight' = inflight /\ sends' = sends
            /\ ToSet(reserved') = ToSet(reserved) \cup {r} /\ IsInjective(reserved')
    BY <1>a, <1>c, <1>d, <1>e, <2>2 DEF SendsOK
  <2> QED BY <1>c, <2>1, <2>2
<1> QED BY <1>1, <1>2, <1>3, <1>4

(* The command is not deferred: it goes from all that would send it. *)
LEMMA Once_Cancel ==
  ASSUME Orderly, Base, Served, Unique, Base', Unique', Once, NEW c \in Commands, Cancel(c)
  PROVE  Once'
<1> USE ThreadAssumption, TtlAssumption, RedisNoneAssumption DEF Base, Served, Unique, Once, timers, calls
<1>a. /\ step[c] = "done" /\ DOMAIN mapCallback' = DOMAIN mapCallback \ {ticket[c]}
      /\ \A k \in DOMAIN mapCallback' : mapCallback'[k] = mapCallback[k]
      /\ UNCHANGED <<rstate, context, timers, calls, deferred, inflight, sends, heard, overlap, assertFailed>>
  BY CancelQueues
<1>b. /\ ToSet(reserved') \subseteq ToSet(reserved) /\ IsInjective(reserved')
      /\ \A r \in ToSet(reserved') : r[2] # c
  <2>1. InjectiveOK /\ TicketsOK
    OBVIOUS
  <2> HIDE DEF Base, Served, Unique, Once
  <2> QED BY <2>1, CancelQueues DEF InjectiveOK
<1>c. ticket[c] # 0 /\ \A d \in Commands : d # c => ticket[d] # ticket[c]
  BY <1>a DEF CallsOK, TicketsOK
<1>d. \A d \in Commands : Registered(d)' <=> d # c /\ Registered(d)
  BY <1>a, <1>c DEF Registered
<1>e. \A r \in ToSet(deferred) : r[2] # c
  BY DEF Cancel, Orderly, ToSet
<1>f. \A r \in ToSet(deferred) \cup ToSet(reserved) : r[2] \in Commands
  BY DEF EntriesOK, Waiting
<1>1. InjectiveOK'
  BY <1>a, <1>b DEF InjectiveOK
<1>2. DeferredOK'
  BY <1>a, <1>b, <1>d, <1>e, <1>f DEF DeferredOK
<1>3. ReservedOK'
  BY <1>a, <1>b, <1>d, <1>f DEF ReservedOK
<1>4. SendsOK'
  BY <1>a, <1>d DEF SendsOK
<1> QED BY <1>1, <1>2, <1>3, <1>4

(* Nothing is at hiredis: every reserved command is sent once. *)
LEMMA Once_ConnectCallback_Ok ==
  ASSUME Orderly, Base, Served, Unique, Base', Unique', Once, ConnectCallback_Ok
  PROVE  Once'
<1> USE ThreadAssumption, TtlAssumption, RedisNoneAssumption DEF Base, Served, Unique, Once, timers, calls
<1>a. /\ UNCHANGED <<reconTimer, ttlTimer, calls, mapCallback, deferred, reserved, heard, overlap, assertFailed>>
      /\ rstate' = "CONNECTED" /\ context' = "connected" /\ connTimer' = FALSE
  BY ConnectedQueues
<1>b. /\ ToSet(inflight) = {} /\ inflight' = reserved
      /\ \A c \in Commands : sends'[c] = sends[c] \/ (sends'[c] = sends[c] + 1 /\ \E r \in ToSet(reserved) : r[2] = c)
  BY ConnectedQueues
<1>c. \A d \in Commands : Registered(d)' <=> Registered(d)
  BY <1>a DEF Registered
<1>d. \A r \in ToSet(deferred) \cup ToSet(reserved) : r[2] \in Commands /\ r = Entry(r[2]) /\ step[r[2]] = "done"
  BY DEF EntriesOK, Waiting
<1>e. \A r \in ToSet(reserved) : sends[r[2]] = 0
  BY <1>b DEF ReservedOK
<1>1. InjectiveOK'
  BY <1>a, <1>b DEF InjectiveOK
<1>2. DeferredOK'
  <2>1. \A r, q \in ToSet(deferred) \cup ToSet(reserved) : r[2] = q[2] => r = q
    BY <1>d
  <2>2. \A r \in ToSet(deferred) : sends'[r[2]] = sends[r[2]]
    BY <1>b, <1>d, <2>1 DEF DeferredOK
  <2> QED BY <1>a, <1>b, <1>c, <1>d, <2>2 DEF DeferredOK
<1>3. ReservedOK'
  BY <1>a, <1>b, <1>c, <1>d DEF ReservedOK
<1>4. SendsOK'
  <2>1. ASSUME NEW c \in Commands PROVE sends'[c] <= 1 /\ (step[c] # "done" => sends'[c] = 0)
    <3>1. CASE sends'[c] = sends[c]
      BY <3>1 DEF SendsOK
    <3>2. CASE sends'[c] = sends[c] + 1 /\ \E r \in ToSet(reserved) : r[2] = c
      <4>1. sends[c] = 0 /\ step[c] = "done"
        BY <1>d, <1>e, <3>2
      <4> QED BY <3>2, <4>1
    <3> QED BY <1>b, <3>1, <3>2
  <2> QED BY <1>a, <1>c, <2>1 DEF SendsOK
<1> QED BY <1>1, <1>2, <1>3, <1>4

(* What is answered leaves the reserved commands. *)
LEMMA Once_Answer ==
  ASSUME Orderly, Base, Served, Unique, Base', Unique', Once, NEW reply \in {Head(inflight)[2], None}, Answers(reply)
  PROVE  Once'
<1> USE ThreadAssumption, TtlAssumption, RedisNoneAssumption DEF Base, Served, Unique, Once, timers, calls
<1>a. PICK c \in Commands :
        /\ step[c] = "done" /\ DOMAIN mapCallback' = DOMAIN mapCallback \ {ticket[c]}
        /\ \A k \in DOMAIN mapCallback' : mapCallback'[k] = mapCallback[k]
        /\ UNCHANGED <<rstate, context, timers, calls, deferred, sends, cancelled, overlap, assertFailed>>
        /\ Entry(c) \in ToSet(inflight)
        /\ ToSet(reserved') \subseteq ToSet(reserved) /\ ToSet(inflight') \subseteq ToSet(inflight)
        /\ ToSet(inflight) \ {Entry(c)} \subseteq ToSet(inflight')
        /\ IsInjective(reserved') /\ IsInjective(inflight')
        /\ \A r \in ToSet(reserved') : r[2] # c
  <2>1. InjectiveOK /\ TicketsOK /\ ReservedOK
    OBVIOUS
  <2> HIDE DEF Base, Served, Unique, Once
  <2> QED BY <2>1, AnswerQueues DEF InjectiveOK
<1>b. ticket[c] # 0 /\ \A d \in Commands : d # c => ticket[d] # ticket[c]
  BY <1>a DEF CallsOK, TicketsOK
<1>c. \A d \in Commands : Registered(d)' <=> d # c /\ Registered(d)
  BY <1>a, <1>b DEF Registered
<1>d. /\ \A r \in ToSet(deferred) \cup ToSet(reserved) \cup ToSet(inflight) :
           r[2] \in Commands /\ r = Entry(r[2]) /\ (r = Entry(c) <=> r[2] = c)
  BY DEF EntriesOK, Waiting, Entry
<1>e. \A r \in ToSet(deferred) : r[2] # c
  BY <1>a, <1>d DEF DeferredOK
<1>1. InjectiveOK'
  BY <1>a DEF InjectiveOK
<1>2. DeferredOK'
  BY <1>a, <1>c, <1>d, <1>e DEF DeferredOK
<1>3. ReservedOK'
  BY <1>a, <1>c, <1>d DEF ReservedOK
<1>4. SendsOK'
  BY <1>a, <1>c DEF SendsOK
<1> QED BY <1>1, <1>2, <1>3, <1>4

(* What expires is not deferred. *)
LEMMA Once_Timer_CommandTtl ==
  ASSUME Orderly, Base, Served, Unique, Base', Unique', Once, Timer_CommandTtl
  PROVE  Once'
<1> USE ThreadAssumption, TtlAssumption, RedisNoneAssumption DEF Base, Served, Unique, Once, timers, calls
<1>a. /\ UNCHANGED <<rstate, context, connTimer, reconTimer, calls, deferred, inflight, sends, cancelled, overlap, assertFailed>>
      /\ DOMAIN mapCallback' = DOMAIN mapCallback \ Expired
      /\ \A k \in DOMAIN mapCallback' : /\ mapCallback'[k].cmd = mapCallback[k].cmd
                                        /\ mapCallback'[k].ttl > 0 => mapCallback[k].ttl > 0
  BY TtlQueues
<1>b. /\ ToSet(reserved') = {r \in ToSet(reserved) : r[1] \notin Expired} /\ IsInjective(reserved')
      /\ \A k \in Expired : k \in DOMAIN mapCallback /\ mapCallback[k].ttl > 0
  <2>1. InjectiveOK
    OBVIOUS
  <2> HIDE DEF Base, Served, Unique, Once
  <2> QED BY <2>1, TtlQueues DEF InjectiveOK
<1>c. \A c \in Commands : Registered(c)' <=> Registered(c) /\ ticket[c] \notin Expired
  BY <1>a DEF Registered
<1>d. \A c \in TtlCommands : caller[c] = None
  BY DEF Timer_CommandTtl, LoopFree, Inside
<1>e. ASSUME NEW c \in Commands, ticket[c] \in Expired PROVE c \in TtlCommands /\ step[c] = "done"
  <2>1. /\ mapCallback[ticket[c]].cmd \in TtlCommands /\ ticket[mapCallback[ticket[c]].cmd] = ticket[c]
        /\ step[mapCallback[ticket[c]].cmd] \in {"post", "done"}
    BY <1>b, <1>e DEF MapOK
  <2>2. ticket[mapCallback[ticket[c]].cmd] # 0 /\ step[mapCallback[ticket[c]].cmd] = "done"
    BY <1>d, <2>1 DEF CallsOK
  <2>3. c = mapCallback[ticket[c]].cmd
    BY <2>1, <2>2 DEF TicketsOK
  <2> QED BY <2>1, <2>2, <2>3
<1>f. \A r \in ToSet(deferred) \cup ToSet(reserved) : r[2] \in Commands /\ r[1] = ticket[r[2]]
  BY DEF EntriesOK, Waiting, Entry
<1>1. InjectiveOK'
  BY <1>a, <1>b DEF InjectiveOK
<1>2. DeferredOK'
  BY <1>a, <1>b, <1>c, <1>e, <1>f DEF DeferredOK
<1>3. ReservedOK'
  BY <1>a, <1>b, <1>c, <1>f DEF ReservedOK
<1>4. SendsOK'
  BY <1>a, <1>c, <1>e DEF SendsOK
<1> QED BY <1>1, <1>2, <1>3, <1>4

-----------------------------------------------------------------------------
(* Nothing has been issued in the initial state. *)
LEMMA InitLayers == Init => Base /\ Served /\ Unique /\ Once
<1> SUFFICES ASSUME Init PROVE Base /\ Served /\ Unique /\ Once
  OBVIOUS
<1> USE TtlAssumption, RedisNoneAssumption DEF Init
<1>1. ToSet(<<>>) = {} /\ IsInjective(<<>>) /\ <<>> \in Seq(Queue) /\ <<>> \in Seq(Commands \cup {None})
  BY DEF ToSet, IsInjective
<1>2. DOMAIN mapCallback = {} /\ Waiting = {}
  BY <1>1 DEF Waiting
<1>3. DataOK
  <2>1. rstate \in RStates /\ context = "none" /\ sTicket \in Nat \ {0} /\ cancelled \subseteq Commands
    BY DEF RStates
  <2>2. /\ step \in [Commands -> {"new", "read", "insert", "post", "done"}]
        /\ caller \in [Commands -> RThreads \cup {None}]
        /\ ticket \in [Commands -> Nat] /\ sends \in [Commands -> 0..2]
    OBVIOUS
  <2>3. heard \in [Commands -> Seq(Commands \cup {None})]
    BY <1>1
  <2>4. connTimer \in BOOLEAN /\ reconTimer \in BOOLEAN /\ ttlTimer \in BOOLEAN
    BY Zenon
  <2> QED BY <1>1, <1>2, <2>1, <2>2, <2>3, <2>4 DEF DataOK
<1>4. CallsOK /\ TicketsOK
  BY DEF CallsOK, TicketsOK
<1>5. MapOK /\ EntriesOK /\ WaitOK
  BY <1>2 DEF MapOK, EntriesOK, WaitOK
<1>6. ConnectionOK
  BY DEF ConnectionOK
<1>7. Served
  BY <1>2 DEF Served, TtlIsServed
<1>8. HeardOK
  BY DEF HeardOK
<1>9. InjectiveOK /\ DeferredOK /\ ReservedOK /\ SendsOK
  BY <1>1 DEF InjectiveOK, DeferredOK, ReservedOK, SendsOK
<1> QED BY <1>3, <1>4, <1>5, <1>6, <1>7, <1>8, <1>9 DEF Base, Unique, Once

(* Every step keeps Base. *)
LEMMA NextBase ==
  ASSUME Base, [Next]_rvars
  PROVE  Base'
<1>1. CASE UNCHANGED rvars
  <2>1. Quiet
    BY <1>1 DEF Quiet, rvars, timers
  <2> QED BY <1>1, <2>1, QuietKeeps DEF Base, DataOK, ConnectionOK, rvars, timers, calls
<1>2. CASE ConnectionStep
  BY <1>2, ConnectionKeeps, QuietKeeps DEF Base
<1>3. ASSUME NEW t \in RThreads, NEW c \in Commands, Issue_Increase(t, c) PROVE Base'
  BY <1>3, Base_Issue_Increase
<1>4. ASSUME NEW c \in Commands, CommandStep(c) \/ Cancel(c) PROVE Base'
  BY <1>4, Base_Issue_Read, Base_Command_Insert, Base_Command_Post, Base_Cancel DEF CommandStep
<1>5. CASE Command_Deferred \/ ConnectCallback_Ok \/ Timer_CommandTtl
  BY <1>5, Base_Command_Deferred, Base_ConnectCallback_Ok, Base_Timer_CommandTtl
<1>6. CASE GetCallback_Reply \/ GetCallback_Null
  <2>1. Answers(Head(inflight)[2]) \/ Answers(None)
    BY <1>6 DEF GetCallback_Reply, GetCallback_Null, Answers
  <2> QED BY <2>1, Base_Answer
<1> QED BY <1>1, <1>2, <1>3, <1>4, <1>5, <1>6 DEF Next, Callback, ConnectionStep, Terminated

(* Every step keeps Served. *)
LEMMA NextServed ==
  ASSUME TtlOnLoop, Base, Served, [Next]_rvars
  PROVE  Served'
<1>1. CASE UNCHANGED rvars
  <2>1. Quiet
    BY <1>1 DEF Quiet, rvars, timers
  <2> QED BY <2>1, QuietKeeps
<1>2. CASE ConnectionStep
  BY <1>2, ConnectionKeeps, QuietKeeps DEF Base
<1>3. ASSUME NEW t \in RThreads, NEW c \in Commands, Issue_Increase(t, c) PROVE Served'
  BY <1>3, Served_Issue_Increase
<1>4. ASSUME NEW c \in Commands, CommandStep(c) \/ Cancel(c) PROVE Served'
  BY <1>4, Served_Issue_Read, Served_Command_Insert, Served_Command_Post, Served_Cancel DEF CommandStep
<1>5. CASE Command_Deferred \/ ConnectCallback_Ok \/ Timer_CommandTtl
  BY <1>5, Served_Command_Deferred, Served_ConnectCallback_Ok, Served_Timer_CommandTtl
<1>6. CASE GetCallback_Reply \/ GetCallback_Null
  <2>1. Answers(Head(inflight)[2]) \/ Answers(None)
    BY <1>6 DEF GetCallback_Reply, GetCallback_Null, Answers
  <2> QED BY <2>1, Served_Answer
<1> QED BY <1>1, <1>2, <1>3, <1>4, <1>5, <1>6 DEF Next, Callback, ConnectionStep, Terminated

(* Every step keeps Unique. *)
LEMMA NextUnique ==
  ASSUME ~ TicketRace, Base, Unique, [Next]_rvars
  PROVE  Unique'
<1>1. CASE UNCHANGED rvars
  <2>1. Quiet
    BY <1>1 DEF Quiet, rvars, timers
  <2> QED BY <2>1, QuietKeeps
<1>2. CASE ConnectionStep
  BY <1>2, ConnectionKeeps, QuietKeeps DEF Base
<1>3. ASSUME NEW t \in RThreads, NEW c \in Commands, Issue_Increase(t, c) PROVE Unique'
  BY <1>3, Unique_Issue_Increase
<1>4. ASSUME NEW c \in Commands, CommandStep(c) \/ Cancel(c) PROVE Unique'
  BY <1>4, Unique_Issue_Read, Unique_Command_Insert, Unique_Command_Post, Unique_Cancel DEF CommandStep
<1>5. CASE Command_Deferred \/ ConnectCallback_Ok \/ Timer_CommandTtl
  BY <1>5, Unique_Command_Deferred, Unique_ConnectCallback_Ok, Unique_Timer_CommandTtl
<1>6. CASE GetCallback_Reply \/ GetCallback_Null
  <2>1. Answers(Head(inflight)[2]) \/ Answers(None)
    BY <1>6 DEF GetCallback_Reply, GetCallback_Null, Answers
  <2> QED BY <2>1, Unique_Answer
<1> QED BY <1>1, <1>2, <1>3, <1>4, <1>5, <1>6 DEF Next, Callback, ConnectionStep, Terminated

(* Every step keeps Once. *)
LEMMA NextOnce ==
  ASSUME Orderly, Base, Served, Unique, Base', Unique', Once, [Next]_rvars
  PROVE  Once'
<1>1. CASE UNCHANGED rvars
  <2>1. Quiet
    BY <1>1 DEF Quiet, rvars, timers
  <2> QED BY <2>1, QuietKeeps
<1>2. CASE ConnectionStep
  BY <1>2, ConnectionKeeps, QuietKeeps DEF Base
<1>3. ASSUME NEW t \in RThreads, NEW c \in Commands, Issue_Increase(t, c) PROVE Once'
  BY <1>3, Once_Issue_Increase
<1>4. ASSUME NEW c \in Commands, CommandStep(c) \/ Cancel(c) PROVE Once'
  BY <1>4, Once_Issue_Read, Once_Command_Insert, Once_Command_Post, Once_Cancel DEF CommandStep
<1>5. CASE Command_Deferred \/ ConnectCallback_Ok \/ Timer_CommandTtl
  BY <1>5, Once_Command_Deferred, Once_ConnectCallback_Ok, Once_Timer_CommandTtl
<1>6. CASE GetCallback_Reply \/ GetCallback_Null
  <2>1. Answers(Head(inflight)[2]) \/ Answers(None)
    BY <1>6 DEF GetCallback_Reply, GetCallback_Null, Answers
  <2> QED BY <2>1, Once_Answer
<1> QED BY <1>1, <1>2, <1>3, <1>4, <1>5, <1>6 DEF Next, Callback, ConnectionStep, Terminated

(* The four layers hold in every state. *)
LEMMA AlwaysBase == Spec => []Base
<1>1. Base /\ [Next]_rvars => Base'
  BY NextBase
<1> QED BY <1>1, InitLayers, PTL DEF Spec

(* The second, when commands with a timeout come from the loop. *)
LEMMA AlwaysServed == ASSUME TtlOnLoop PROVE Spec => []Served
<1>1. Base /\ Served /\ [Next]_rvars => Served'
  BY NextServed
<1> QED BY <1>1, InitLayers, AlwaysBase, PTL DEF Spec

(* The third, when one thread at a time is inside issueTicket. *)
LEMMA AlwaysUnique == ASSUME ~ TicketRace PROVE Spec => []Unique
<1>1. Base /\ Unique /\ [Next]_rvars => Unique'
  BY NextUnique
<1> QED BY <1>1, InitLayers, AlwaysBase, PTL DEF Spec

(* The fourth, for an orderly application. *)
LEMMA AlwaysOnce == ASSUME Orderly PROVE Spec => []Once
<1>1. Base /\ Served /\ Unique /\ Base' /\ Unique' /\ Once /\ [Next]_rvars => Once'
  BY NextOnce
<1>2. ~ TicketRace /\ TtlOnLoop
  BY DEF Orderly
<1>3. Spec => []Served /\ []Unique
  BY <1>2, AlwaysServed, AlwaysUnique
<1> QED BY <1>1, <1>3, InitLayers, AlwaysBase, PTL DEF Spec

-----------------------------------------------------------------------------
(* fire_onRedisRequest_Response and _Error call a handler at most once, and *)
(* a reply reaches the handler of its own command, for any number of        *)
(* commands and threads, whatever is cancelled, expires or is lost, as long *)
(* as two threads are not inside issueTicket at once.                       *)
THEOREM HandlersAnsweredOnce == ASSUME ~ TicketRace PROVE Spec => []AnsweredOnce
<1>1. ASSUME Unique PROVE AnsweredOnce
  <2>1. SUFFICES ASSUME NEW c \in Commands
                 PROVE  Len(heard[c]) <= 1 /\ ToSet(heard[c]) \subseteq {c, None}
    BY DEF AnsweredOnce
  <2>2. heard[c] \in {<<>>, <<c>>, <<None>>}
    BY <1>1 DEF Unique, HeardOK
  <2>3. CASE heard[c] = <<>>
    BY <2>3 DEF ToSet
  <2>4. CASE heard[c] = <<c>>
    BY <2>4 DEF ToSet
  <2>5. CASE heard[c] = <<None>>
    BY <2>5 DEF ToSet
  <2> QED BY <2>2, <2>3, <2>4, <2>5
<1>2. Unique => AnsweredOnce
  BY <1>1
<1> QED BY <1>2, AlwaysUnique, PTL

(* No command reaches redisAsyncCommandArgv twice, although the reserved    *)
(* commands stay in reservedCommands_ until they are answered.  It takes an *)
(* orderly application: a command that is cancelled or expires while its    *)
(* _command is deferred is reserved without a handler, and then nothing     *)
(* takes it from reservedCommands_.                                         *)
THEOREM CommandsSentOnce == ASSUME Orderly PROVE Spec => []SentOnce
<1>1. Once => SentOnce
  BY DEF Once, SendsOK, SentOnce
<1> QED BY <1>1, AlwaysOnce, PTL

(* The command of every handler in mapCallback_ waits in the deferred       *)
(* calls, in reservedCommands_ or at hiredis, whatever the application does.*)
THEOREM HandlersNotForgotten == Spec => []NothingForgotten
<1>1. ASSUME Base PROVE NothingForgotten
  <2>1. SUFFICES ASSUME NEW k \in DOMAIN mapCallback, NEW c, c = mapCallback[k].cmd, step[c] = "done"
                 PROVE  In(deferred, c) \/ In(reserved, c) \/ In(inflight, c)
    BY DEF NothingForgotten
  <2>2. <<k, c>> \in ToSet(deferred) \cup ToSet(reserved) \cup ToSet(inflight)
    BY <1>1, <2>1 DEF Base, WaitOK, Waiting
  <2>3. ASSUME NEW s, <<k, c>> \in ToSet(s) PROVE In(s, c)
    BY <2>3 DEF ToSet, In
  <2> QED BY <2>2, <2>3
<1>2. Base => NothingForgotten
  BY <1>1
<1> QED BY <1>2, AlwaysBase, PTL

(* state_, the timers and the context always agree, and the assertion of    *)
(* the reconnect timer fails only if the application itself has connected   *)
(* while that timer was running.                                            *)
THEOREM TimersAlwaysMatchConnection == Spec => []TimersMatchConnection
<1>1. ASSUME Base PROVE TypeOK
  <2> USE <1>1 DEF Base
  <2>1. sTicket \in Nat /\ ticket \in [Commands -> Tickets \cup {0}]
    BY DEF DataOK, CallsOK, Tickets
  <2>2. ASSUME NEW k \in DOMAIN mapCallback PROVE k \in Tickets
    <3>1. /\ mapCallback[k].cmd \in Commands /\ ticket[mapCallback[k].cmd] = k
          /\ step[mapCallback[k].cmd] \notin {"new", "read"}
      BY DEF MapOK, DataOK
    <3> QED BY <3>1 DEF CallsOK, Tickets
  <2>3. ASSUME NEW s \in Seq(Queue), ToSet(s) \subseteq Waiting PROVE s \in Seq(Posted)
    <3>1. \A i \in 1..Len(s) : s[i] \in ToSet(s)
      BY DEF ToSet
    <3>2. \A c \in Commands : step[c] = "done" => ticket[c] \in Tickets
      BY DEF CallsOK, Tickets
    <3>3. \A r \in ToSet(s) : r \in Posted
      BY <2>3, <3>2 DEF EntriesOK, Entry, Posted
    <3> QED BY <3>1, <3>3, SeqDef
  <2>4. {deferred, reserved, inflight} \subseteq Seq(Posted)
    BY <2>3 DEF DataOK, Waiting
  <2>5. {connTimer, reconTimer, ttlTimer, overlap, assertFailed} \subseteq BOOLEAN
    BY DEF DataOK, ConnectionOK
  <2> QED BY <2>1, <2>2, <2>4, <2>5 DEF TypeOK, DataOK
<1>2. Base => TimersMatchConnection
  BY <1>1 DEF Base, ConnectionOK, TimersMatchConnection
<1> QED BY <1>2, AlwaysBase, PTL

(* TIMER_ID_COMMAND_TTL runs as long as a registered command has a time to  *)
(* live, although it is started before the handler is registered, when such *)
(* commands come from the loop's thread.                                    *)
THEOREM TtlAlwaysServed == ASSUME TtlOnLoop PROVE Spec => []TtlIsServed
<1>1. Served => TtlIsServed
  BY DEF Served
<1> QED BY <1>1, AlwaysServed, PTL

=============================================================================
