----------------------------- MODULE TimerProofs -----------------------------
(***************************************************************************)
(* Proofs about Timer, for any ids, threads and number of settings, and    *)
(* whatever other threads do with the Timer (RemoteOps): what libevent     *)
(* knows and what mapTimers_ holds agree, and a handler is called only for *)
(* the setting that counts.                                                *)
(***************************************************************************)
EXTENDS Timer, SequenceTheorems, TLAPS

Armed == pending \cup ToSet(queue)
Used(c) == context[c].id \in Ids

(* The types that TypeOK leaves out. *)
DataOK ==
  /\ sets \in 0 .. MaxSets /\ fired \subseteq 1 .. sets
  /\ mapTimers \in [Ids -> 0 .. sets]
  /\ context \in [Settings -> [id : Ids \cup {None}, repeat : BOOLEAN, setting : 0 .. sets]]
  /\ \A c \in Settings : context[c] # NoContext => Used(c)
OpOK ==
  /\ op \in [Others -> [kind : Ops, id : Ids \cup {None}, repeat : BOOLEAN]]
  /\ \A t \in Others : op[t].kind \in {"set", "kill"} => op[t].id \in Ids
  /\ \A t \in Others : op[t].kind = "kill" => "old" \in RemoteOps

(* The contexts that are not freed are those in the map, under their ids;   *)
(* each has a setting of its own, the one that counts for the id.           *)
MapOK ==
  /\ \A i \in Ids : mapTimers[i] # 0 => context[mapTimers[i]].id = i
  /\ \A c \in Settings : Used(c) => mapTimers[context[c].id] = c /\ context[c].setting # 0
  /\ \A c, d \in Settings : Used(c) /\ Used(d) /\ c # d => context[c].setting # context[d].setting
  /\ \A i \in Ids : live[i] = IF mapTimers[i] = 0 THEN 0 ELSE context[mapTimers[i]].setting

(* A context whose event is active, or whose callback is about to run, is   *)
(* due; one that does not repeat has not fired.                             *)
DueOK ==
  /\ \A c \in Armed : Used(c)
  /\ \A c \in ToSet(queue) : context[c].setting \in due
  /\ firing # 0 => Used(firing) /\ firing \notin Armed /\ context[firing].setting \in due
  /\ \A c \in Settings : Used(c) /\ ~ context[c].repeat => context[c].setting \notin fired

(* timerLock_ belongs to the loop inside of a handler, to a thread that     *)
(* waits in event_del, or to nobody.                                        *)
LockOK ==
  /\ (firing # 0) = (phase = "lock")
  /\ (owner = Loop) = (phase \notin {"dispatch", "lock"})
  /\ \A t \in Others : (owner = t) = (op[t].kind = "wait")

(* EventsMatchMap without TypeOK. *)
Matched ==
  /\ \A i \in Ids : mapTimers[i] # 0 =>
       mapTimers[i] \in Armed \/ (phase = "lock" /\ firing = mapTimers[i])
  /\ \A c \in Armed : context[c].id \in Ids /\ mapTimers[context[c].id] = c
  /\ pending \cap ToSet(queue) = {} /\ IsInjective(queue)

(* The inductive invariant. *)
TInv == TypeOK /\ DataOK /\ OpOK /\ MapOK /\ DueOK /\ LockOK /\ Matched

-----------------------------------------------------------------------------

(* What RemoveFirst leaves of a sequence without repetitions. *)
LEMMA Removed ==
  ASSUME NEW T, NEW s \in Seq(T), IsInjective(s), NEW c
  PROVE  /\ RemoveFirst(s, c) \in Seq(T) /\ IsInjective(RemoveFirst(s, c))
         /\ ToSet(RemoveFirst(s, c)) = ToSet(s) \ {c}
<1> DEFINE r == RemoveFirst(s, c)
<1>1. DOMAIN s = 1 .. Len(s) /\ Len(s) \in Nat /\ \A i \in 1 .. Len(s) : s[i] \in T
  OBVIOUS
<1>2. CASE ~ \E i \in 1 .. Len(s) : s[i] = c
  <2>1. r = s
    BY <1>2 DEF RemoveFirst
  <2>2. c \notin ToSet(s)
    BY <1>1, <1>2 DEF ToSet
  <2> QED BY <2>1, <2>2
<1>3. CASE \E i \in 1 .. Len(s) : s[i] = c
  <2>1. PICK k \in 1 .. Len(s) : s[k] = c
    BY <1>3
  <2>2. {i \in 1 .. Len(s) : s[i] = c} = {k}
    BY <1>1, <2>1 DEF IsInjective
  <2>3. k = CHOOSE x \in {k} : \A y \in {k} : x <= y
    BY <2>1
  <2>4. SelectInSeq(s, LAMBDA v : v = c) = k
    BY <2>2, <2>3 DEF SelectInSeq, Min
  <2>5. r = SubSeq(s, 1, k - 1) \o SubSeq(s, k + 1, Len(s))
    BY <1>3, <2>4 DEF RemoveFirst, RemoveAt
  <2> DEFINE a == SubSeq(s, 1, k - 1)
             b == SubSeq(s, k + 1, Len(s))
  <2>6. a \in Seq(T) /\ Len(a) = k - 1 /\ \A i \in 1 .. (k - 1) : a[i] = s[i]
    BY <1>1, <2>1
  <2>7. b \in Seq(T) /\ Len(b) = Len(s) - k /\ \A i \in 1 .. (Len(s) - k) : b[i] = s[k + i]
    <3>1. b \in Seq(T) /\ Len(b) = (IF k + 1 <= Len(s) THEN Len(s) - (k + 1) + 1 ELSE 0)
      BY <1>1, <2>1
    <3>2. Len(b) = Len(s) - k
      <4> HIDE DEF b
      <4>1. CASE k + 1 <= Len(s)
        BY <1>1, <2>1, <3>1, <4>1
      <4>2. CASE ~ (k + 1 <= Len(s))
        <5>1. Len(b) = 0
          BY <3>1, <4>2
        <5>2. \A n \in Nat : \A m \in 1 .. n : ~ (m + 1 <= n) => n - m = 0
          OBVIOUS
        <5>3. Len(s) - k = 0
          BY <1>1, <4>2, <5>2, Zenon
        <5> QED BY <5>1, <5>3
      <4> QED BY <4>1, <4>2
    <3>3. ASSUME NEW i \in 1 .. (Len(s) - k) PROVE b[i] = s[k + i]
      <4>1. i \in 1 .. (Len(s) - (k + 1) + 1) /\ k + 1 + i - 1 = k + i
        BY <1>1, <2>1
      <4> QED BY <1>1, <2>1, <4>1
    <3> QED BY <3>1, <3>2, <3>3
  <2> HIDE DEF a, b
  <2>8. /\ a \o b \in Seq(T) /\ Len(a \o b) = Len(s) - 1
        /\ \A i \in 1 .. (Len(s) - 1) : (a \o b)[i] = IF i < k THEN s[i] ELSE s[i + 1]
    <3>1. a \o b \in Seq(T) /\ Len(a \o b) = Len(s) - 1
      <4>1. a \o b \in Seq(T) /\ Len(a \o b) = Len(a) + Len(b)
        BY <2>6, <2>7, ConcatProperties
      <4>2. Len(a) + Len(b) = Len(s) - 1
        BY <1>1, <2>1, <2>6, <2>7
      <4> QED BY <4>1, <4>2
    <3>2. \A i \in 1 .. (Len(s) - 1) : (a \o b)[i] = IF i <= k - 1 THEN a[i] ELSE b[i - (k - 1)]
      BY <1>1, <2>1, <2>6, <2>7, <3>1, ConcatProperties
    <3>3. ASSUME NEW i \in 1 .. (Len(s) - 1) PROVE (a \o b)[i] = IF i < k THEN s[i] ELSE s[i + 1]
      <4>1. CASE i < k
        BY <1>1, <2>1, <2>6, <3>2, <4>1
      <4>2. CASE ~ (i < k)
        <5>1. i - (k - 1) \in 1 .. (Len(s) - k) /\ k + (i - (k - 1)) = i + 1
          BY <1>1, <2>1, <4>2
        <5>2. (a \o b)[i] = b[i - (k - 1)]
          <6>1. ~ (i <= k - 1)
            BY <1>1, <2>1, <4>2
          <6> QED BY <3>2, <6>1, Zenon
        <5> QED BY <2>7, <4>2, <5>1, <5>2
      <4> QED BY <4>1, <4>2
    <3> QED BY <3>1, <3>3
  <2>9. r = a \o b
    BY <2>5 DEF a, b
  <2> HIDE DEF r
  <2>10. /\ r \in Seq(T) /\ DOMAIN r = 1 .. (Len(s) - 1)
         /\ \A i \in 1 .. (Len(s) - 1) : r[i] = IF i < k THEN s[i] ELSE s[i + 1]
    BY <2>8, <2>9
  <2>11. IsInjective(r)
    <3>1. SUFFICES ASSUME NEW i \in 1 .. (Len(s) - 1), NEW j \in 1 .. (Len(s) - 1), r[i] = r[j]
                   PROVE  i = j
      BY <2>10 DEF IsInjective
    <3> DEFINE at(n) == IF n < k THEN n ELSE n + 1
    <3>2. at(i) \in 1 .. Len(s) /\ at(j) \in 1 .. Len(s)
      BY <1>1, <2>1
    <3>3. s[at(i)] = s[at(j)]
      BY <2>10, <3>1
    <3>4. at(i) = at(j)
      BY <1>1, <3>2, <3>3, Zenon DEF IsInjective
    <3> QED BY <1>1, <2>1, <3>4
  <2>12. ToSet(r) \subseteq ToSet(s) \ {c}
    BY <1>1, <2>1, <2>10 DEF ToSet, IsInjective
  <2>13. ASSUME NEW x \in ToSet(s), x # c PROVE x \in ToSet(r)
    <3>1. PICK j \in 1 .. Len(s) : s[j] = x
      BY <1>1 DEF ToSet
    <3>2. j # k
      BY <2>13, <2>1, <3>1
    <3>3. CASE j < k
      <4>1. j \in 1 .. (Len(s) - 1) /\ r[j] = x
        BY <1>1, <2>1, <2>10, <3>1, <3>3
      <4> QED BY <2>10, <4>1 DEF ToSet
    <3>4. CASE j > k
      <4>1. j - 1 \in 1 .. (Len(s) - 1) /\ r[j - 1] = x
        BY <1>1, <2>1, <2>10, <3>1, <3>4
      <4> QED BY <2>10, <4>1 DEF ToSet
    <3> QED BY <1>1, <2>1, <3>1, <3>2, <3>3, <3>4
  <2>14. r \in Seq(T) /\ IsInjective(r) /\ ToSet(r) = ToSet(s) \ {c}
    BY <2>10, <2>11, <2>12, <2>13
  <2> QED BY <2>14 DEF r
<1> QED BY <1>2, <1>3

(* A new element at the end. *)
LEMMA Added ==
  ASSUME NEW T, NEW s \in Seq(T), IsInjective(s), NEW c \in T, c \notin ToSet(s)
  PROVE  /\ Append(s, c) \in Seq(T) /\ IsInjective(Append(s, c))
         /\ ToSet(Append(s, c)) = ToSet(s) \cup {c}
<1> DEFINE r == Append(s, c)
<1>1. DOMAIN s = 1 .. Len(s) /\ Len(s) \in Nat
  OBVIOUS
<1>2. r \in Seq(T) /\ DOMAIN r = 1 .. (Len(s) + 1) /\ r[Len(s) + 1] = c
      /\ \A i \in 1 .. Len(s) : r[i] = s[i]
  OBVIOUS
<1> HIDE DEF r
<1>3. IsInjective(r)
  BY <1>1, <1>2 DEF IsInjective, ToSet
<1>4. ToSet(r) \subseteq ToSet(s) \cup {c}
  BY <1>1, <1>2 DEF ToSet
<1>5. ToSet(s) \subseteq ToSet(r)
  BY <1>1, <1>2 DEF ToSet
<1>6. c \in ToSet(r)
  BY <1>1, <1>2 DEF ToSet
<1>7. r \in Seq(T) /\ IsInjective(r) /\ ToSet(r) = ToSet(s) \cup {c}
  BY <1>2, <1>3, <1>4, <1>5, <1>6
<1> QED BY <1>7 DEF r

(* The head is taken. *)
LEMMA Taken ==
  ASSUME NEW T, NEW s \in Seq(T), IsInjective(s), s # <<>>
  PROVE  /\ Tail(s) \in Seq(T) /\ IsInjective(Tail(s)) /\ Head(s) \in ToSet(s)
         /\ ToSet(Tail(s)) = ToSet(s) \ {Head(s)}
<1> DEFINE r == Tail(s)
<1>1. DOMAIN s = 1 .. Len(s) /\ Len(s) \in Nat \ {0} /\ Head(s) = s[1]
  OBVIOUS
<1>2. r \in Seq(T) /\ DOMAIN r = 1 .. (Len(s) - 1) /\ \A i \in 1 .. (Len(s) - 1) : r[i] = s[i + 1]
  BY <1>1
<1> HIDE DEF r
<1>3. IsInjective(r)
  <2>1. SUFFICES ASSUME NEW i \in 1 .. (Len(s) - 1), NEW j \in 1 .. (Len(s) - 1), r[i] = r[j]
                 PROVE  i = j
    BY <1>2 DEF IsInjective
  <2>2. i + 1 \in 1 .. Len(s) /\ j + 1 \in 1 .. Len(s) /\ s[i + 1] = s[j + 1]
    BY <1>1, <1>2, <2>1
  <2>3. i + 1 = j + 1
    BY <1>1, <2>2, Zenon DEF IsInjective
  <2> QED BY <2>3
<1>4. ToSet(r) \subseteq ToSet(s) \ {s[1]}
  BY <1>1, <1>2 DEF ToSet, IsInjective
<1>5. ASSUME NEW x \in ToSet(s), x # s[1] PROVE x \in ToSet(r)
  <2>1. PICK j \in 1 .. Len(s) : s[j] = x
    BY <1>1 DEF ToSet
  <2>2. j - 1 \in 1 .. (Len(s) - 1) /\ r[j - 1] = x
    BY <1>1, <1>2, <1>5, <2>1
  <2> QED BY <1>2, <2>2 DEF ToSet
<1>6. s[1] \in ToSet(s)
  BY <1>1 DEF ToSet
<1>7. r \in Seq(T) /\ IsInjective(r) /\ Head(s) \in ToSet(s) /\ ToSet(r) = ToSet(s) \ {Head(s)}
  BY <1>1, <1>2, <1>3, <1>4, <1>5, <1>6
<1> QED BY <1>7 DEF r
-----------------------------------------------------------------------------
(* What the bodies of setTimer and killTimer keep, under timerLock_.  The   *)
(* callback that waits for timerLock_, if there is one, is not about the id. *)
BodyOK == DataOK /\ MapOK /\ DueOK /\ Matched
BodyTypes == /\ mapTimers \in [Ids -> 0 .. MaxSets] /\ live \in [Ids -> 0 .. MaxSets]
             /\ pending \subseteq Settings /\ queue \in Seq(Settings) /\ due \subseteq Settings
             /\ \A c \in Settings : context[c] = NoContext \/ context[c].id \in Ids

(* The context of the id, new or not, gets a setting that is larger than all others. *)
LEMMA Body_setTimer ==
  ASSUME TInv, NEW id \in Ids, NEW repeat \in BOOLEAN, setTimer(id, repeat), UNCHANGED <<firing, phase>>,
         firing = 0 \/ mapTimers[id] # firing
  PROVE  BodyTypes' /\ BodyOK'
<1> USE TimerAssumption DEF TInv
<1> DEFINE s == sets + 1
           c == IF mapTimers[id] = 0 THEN s ELSE mapTimers[id]
           new == [id |-> id, repeat |-> repeat, setting |-> s]
<1>a. /\ s \in Settings /\ c \in Settings /\ c \in 1 .. s /\ sets \in Nat /\ 0 .. sets \subseteq 0 .. s
      /\ 0 .. s \subseteq 0 .. MaxSets /\ s \notin 0 .. sets /\ s # 0 /\ s \in 0 .. s
  BY DEF setTimer, DataOK, Settings
<1>b. /\ sets' = s /\ mapTimers' = [mapTimers EXCEPT ![id] = c]
      /\ context' = [context EXCEPT ![c] = new] /\ live' = [live EXCEPT ![id] = s]
      /\ pending' = pending \cup {c} /\ queue' = RemoveFirst(queue, c)
      /\ due' = due /\ fired' = fired /\ firing' = firing /\ phase' = phase
  BY DEF setTimer, Rearm
<1>c. queue' \in Seq(Settings) /\ IsInjective(queue') /\ ToSet(queue') = ToSet(queue) \ {c}
  <2>1. queue \in Seq(Settings) /\ IsInjective(queue)
    BY DEF TypeOK, Matched
  <2> QED BY <1>b, <2>1, Removed
<1>d. /\ Used(c) => context[c].id = id /\ c = mapTimers[id]
      /\ \A i \in Ids : mapTimers[i] = c => i = id
      /\ mapTimers[id] # 0 => c = mapTimers[id] /\ Used(c)
      /\ firing # c
  BY <1>a DEF DataOK, MapOK, DueOK, Used, Settings
<1>i. \A d : d \in Settings /\ mapTimers[id] = d => d = c
  BY DEF Settings
<1> HIDE DEF c, s
<1>e. /\ \A i \in Ids : mapTimers'[i] = IF i = id THEN c ELSE mapTimers[i]
      /\ \A i \in Ids : live'[i] = IF i = id THEN s ELSE live[i]
      /\ \A d \in Settings : context'[d] = IF d = c THEN new ELSE context[d]
      /\ context'[c].id = id /\ context'[c].repeat = repeat /\ context'[c].setting = s
      /\ \A d \in Settings : Used(d)' <=> (d = c \/ Used(d))
  BY <1>a, <1>b DEF DataOK, TypeOK, Used
<1>h. s \notin fired
  BY <1>a DEF DataOK
<1>f. pending \subseteq Settings /\ ToSet(queue) \subseteq Settings
  BY DEF TypeOK, ToSet
<1>g. 0 \notin Settings /\ context \in [Settings -> [id : Ids \cup {None}, repeat : BOOLEAN, setting : 0 .. sets]]
  BY DEF DataOK, Settings
<1> HIDE DEF new
<1>1. BodyTypes'
  <2>1. mapTimers' \in [Ids -> 0 .. MaxSets] /\ live' \in [Ids -> 0 .. MaxSets]
    BY <1>a, <1>b DEF TypeOK, Settings
  <2>2. \A d \in Settings : context'[d] = NoContext \/ context'[d].id \in Ids
    BY <1>a, <1>e DEF TypeOK
  <2> QED BY <1>a, <1>b, <1>c, <2>1, <2>2 DEF TypeOK, BodyTypes
<1>2. DataOK'
  <2>1. sets' \in 0 .. MaxSets /\ fired' \subseteq 1 .. sets'
    BY <1>a, <1>b DEF DataOK, Settings
  <2>2. mapTimers' \in [Ids -> 0 .. sets']
    BY <1>a, <1>b DEF DataOK
  <2>3. new \in [id : Ids \cup {None}, repeat : BOOLEAN, setting : 0 .. s]
    BY <1>a DEF new
  <2>4. context' \in [Settings -> [id : Ids \cup {None}, repeat : BOOLEAN, setting : 0 .. sets']]
    BY <1>a, <1>b, <2>3 DEF DataOK
  <2>5. \A d \in Settings : context'[d] # NoContext => Used(d)'
    BY <1>e DEF DataOK
  <2> QED BY <2>1, <2>2, <2>4, <2>5 DEF DataOK
<1>3. MapOK'
  <2>1. \A i \in Ids : mapTimers'[i] # 0 => context'[mapTimers'[i]].id = i
    <3>1. SUFFICES ASSUME NEW i \in Ids, mapTimers'[i] # 0
                   PROVE  context'[mapTimers'[i]].id = i
      OBVIOUS
    <3>2. CASE i = id
      BY <1>a, <1>e, <3>2
    <3>3. CASE i # id
      <4>1. mapTimers'[i] = mapTimers[i] /\ mapTimers[i] # c /\ mapTimers[i] # 0
        BY <1>d, <1>e, <3>1, <3>3
      <4>2. mapTimers[i] \in Settings
        BY <4>1 DEF TypeOK, Settings
      <4>3. context'[mapTimers[i]] = context[mapTimers[i]]
        BY <1>e, <4>1, <4>2
      <4> QED BY <4>1, <4>3 DEF MapOK
    <3> QED BY <3>2, <3>3
  <2>2. \A d \in Settings : Used(d)' => mapTimers'[context'[d].id] = d /\ context'[d].setting # 0
    <3>1. SUFFICES ASSUME NEW d \in Settings, Used(d)'
                   PROVE  mapTimers'[context'[d].id] = d /\ context'[d].setting # 0
      OBVIOUS
    <3>2. CASE d = c
      BY <1>a, <1>e, <3>2
    <3>3. CASE d # c
      <4>1. Used(d) /\ context'[d] = context[d] /\ mapTimers[context[d].id] = d /\ context[d].setting # 0
        BY <1>e, <3>1, <3>3 DEF MapOK
      <4>2. context[d].id # id
        BY <1>i, <3>3, <4>1
      <4> QED BY <1>e, <4>1, <4>2 DEF Used
    <3> QED BY <3>2, <3>3
  <2>3. \A d \in Settings : d # c => context'[d].setting # s
    BY <1>a, <1>e, <1>g
  <2>4. \A d, e \in Settings : Used(d)' /\ Used(e)' /\ d # e => context'[d].setting # context'[e].setting
    BY <1>a, <1>e, <2>3 DEF MapOK
  <2>5. \A i \in Ids : live'[i] = IF mapTimers'[i] = 0 THEN 0 ELSE context'[mapTimers'[i]].setting
    <3>1. SUFFICES ASSUME NEW i \in Ids
                   PROVE  live'[i] = IF mapTimers'[i] = 0 THEN 0 ELSE context'[mapTimers'[i]].setting
      OBVIOUS
    <3>2. CASE i = id
      BY <1>a, <1>e, <1>g, <3>2
    <3>3. CASE i # id
      <4>1. mapTimers'[i] = mapTimers[i] /\ live'[i] = live[i] /\ mapTimers[i] # c
        BY <1>d, <1>e, <3>3
      <4>2. mapTimers[i] # 0 => context'[mapTimers[i]] = context[mapTimers[i]]
        BY <1>e, <4>1 DEF TypeOK, Settings
      <4> QED BY <4>1, <4>2 DEF MapOK
    <3> QED BY <3>2, <3>3
  <2> QED BY <2>1, <2>2, <2>4, <2>5 DEF MapOK
<1>4. DueOK'
  <2>1. \A d \in Armed' : Used(d)'
    BY <1>a, <1>b, <1>c, <1>e, <1>f DEF DueOK, Armed
  <2>2. \A d \in ToSet(queue') : context'[d].setting \in due'
    BY <1>b, <1>c, <1>e, <1>f DEF DueOK
  <2>3. firing # 0 => Used(firing)' /\ firing \notin Armed' /\ context'[firing].setting \in due'
    BY <1>b, <1>c, <1>d, <1>e DEF DueOK, Armed, TypeOK, Settings
  <2>4. \A d \in Settings : Used(d)' /\ ~ context'[d].repeat => context'[d].setting \notin fired'
    <3>1. SUFFICES ASSUME NEW d \in Settings, Used(d)', ~ context'[d].repeat
                   PROVE  context'[d].setting \notin fired
      BY <1>b
    <3>2. CASE d = c
      BY <1>e, <1>h, <3>2
    <3>3. CASE d # c
      <4>1. Used(d) /\ context'[d] = context[d]
        BY <1>e, <3>1, <3>3
      <4> QED BY <3>1, <4>1 DEF DueOK
    <3> QED BY <3>2, <3>3
  <2> QED BY <1>b, <2>1, <2>2, <2>3, <2>4 DEF DueOK
<1>5. Matched'
  <2>1. \A i \in Ids : mapTimers'[i] # 0 =>
          mapTimers'[i] \in Armed' \/ (phase = "lock" /\ firing = mapTimers'[i])
    BY <1>b, <1>c, <1>d, <1>e DEF Matched, Armed
  <2>2. \A d \in Armed' : context'[d].id \in Ids /\ mapTimers'[context'[d].id] = d
    <3>1. SUFFICES ASSUME NEW d \in Armed'
                   PROVE  context'[d].id \in Ids /\ mapTimers'[context'[d].id] = d
      OBVIOUS
    <3>2. CASE d = c
      BY <1>a, <1>e, <3>2
    <3>3. CASE d # c
      <4>1. d \in Settings /\ d \in Armed /\ context'[d] = context[d]
        BY <1>b, <1>c, <1>e, <1>f, <3>1, <3>3 DEF Armed
      <4>2. context[d].id \in Ids /\ mapTimers[context[d].id] = d
        BY <4>1 DEF Matched
      <4>3. context[d].id # id
        BY <1>i, <3>3, <4>1, <4>2
      <4> QED BY <1>e, <4>1, <4>2, <4>3
    <3> QED BY <3>2, <3>3
  <2>3. pending' \cap ToSet(queue') = {}
    BY <1>b, <1>c DEF Matched
  <2> QED BY <1>b, <1>c, <2>1, <2>2, <2>3 DEF Matched
<1> QED BY <1>1, <1>2, <1>3, <1>4, <1>5 DEF BodyOK

(* The context and its event go together. *)
LEMMA Body_killTimer ==
  ASSUME TInv, NEW id \in Ids, killTimer(id), UNCHANGED <<firing, phase>>,
         firing = 0 \/ mapTimers[id] # firing
  PROVE  BodyTypes' /\ BodyOK'
<1> USE TimerAssumption DEF TInv
<1> DEFINE c == mapTimers[id]
<1>a. mapTimers' = [mapTimers EXCEPT ![id] = 0] /\ live' = [live EXCEPT ![id] = 0]
      /\ sets' = sets /\ due' = due /\ fired' = fired /\ firing' = firing /\ phase' = phase
      /\ 0 \notin Settings /\ 0 \in 0 .. sets /\ 0 \in 0 .. MaxSets
  BY DEF killTimer, DataOK, Settings
<1>b. /\ pending' = pending \ {c} /\ queue' \in Seq(Settings) /\ IsInjective(queue')
      /\ ToSet(queue') = ToSet(queue) \ {c}
      /\ context' = IF c = 0 THEN context ELSE [context EXCEPT ![c] = NoContext]
  <2>1. queue \in Seq(Settings) /\ IsInjective(queue) /\ pending \subseteq Settings /\ ToSet(queue) \subseteq Settings
    BY DEF TypeOK, Matched, ToSet
  <2>2. CASE c = 0
    BY <1>a, <2>1, <2>2 DEF killTimer, eventVars
  <2>3. CASE c # 0
    BY <2>1, <2>3, Removed DEF killTimer, EventDel
  <2> QED BY <2>2, <2>3
<1>c. /\ c # 0 => c \in Settings /\ Used(c) /\ context[c].id = id
      /\ \A d \in Settings : Used(d) /\ context[d].id = id => d = c
      /\ \A i \in Ids : mapTimers[i] = c /\ c # 0 => i = id
      /\ firing = 0 \/ firing # c
  BY DEF DataOK, TypeOK, MapOK, DueOK, Used, Settings
<1>d. pending \subseteq Settings /\ ToSet(queue) \subseteq Settings
  BY DEF TypeOK, ToSet
<1> HIDE DEF c
<1>e. /\ \A i \in Ids : mapTimers'[i] = IF i = id THEN 0 ELSE mapTimers[i]
      /\ \A i \in Ids : live'[i] = IF i = id THEN 0 ELSE live[i]
      /\ \A d \in Settings : context'[d] = IF d = c THEN NoContext ELSE context[d]
      /\ NoContext.id = None
      /\ \A d \in Settings : Used(d)' <=> (d # c /\ Used(d))
  BY <1>a, <1>b, <1>c DEF DataOK, TypeOK, Used, NoContext
<1>1. BodyTypes'
  <2>1. mapTimers' \in [Ids -> 0 .. MaxSets] /\ live' \in [Ids -> 0 .. MaxSets]
    BY <1>a DEF TypeOK
  <2>2. \A d \in Settings : context'[d] = NoContext \/ context'[d].id \in Ids
    BY <1>e DEF TypeOK
  <2> QED BY <1>a, <1>b, <2>1, <2>2 DEF TypeOK, BodyTypes
<1>2. DataOK'
  <2>1. NoContext \in [id : Ids \cup {None}, repeat : BOOLEAN, setting : 0 .. sets]
    BY <1>a DEF NoContext
  <2>2. context' \in [Settings -> [id : Ids \cup {None}, repeat : BOOLEAN, setting : 0 .. sets]]
    BY <1>b, <2>1 DEF DataOK
  <2>3. \A d \in Settings : context'[d] # NoContext => Used(d)'
    BY <1>e DEF DataOK
  <2> QED BY <1>a, <2>2, <2>3 DEF DataOK
<1>3. MapOK'
  <2>1. \A i \in Ids : mapTimers'[i] # 0 => context'[mapTimers'[i]].id = i
    BY <1>a, <1>c, <1>e DEF MapOK, TypeOK, Settings
  <2>2. \A d \in Settings : Used(d)' => mapTimers'[context'[d].id] = d /\ context'[d].setting # 0
    BY <1>c, <1>e DEF MapOK, Used
  <2>3. \A d, e \in Settings : Used(d)' /\ Used(e)' /\ d # e => context'[d].setting # context'[e].setting
    BY <1>e DEF MapOK
  <2>4. \A i \in Ids : live'[i] = IF mapTimers'[i] = 0 THEN 0 ELSE context'[mapTimers'[i]].setting
    BY <1>c, <1>e DEF MapOK, TypeOK, Settings
  <2> QED BY <2>1, <2>2, <2>3, <2>4 DEF MapOK
<1>4. DueOK'
  <2>1. \A d \in Armed' : Used(d)'
    BY <1>b, <1>e, <1>d DEF DueOK, Armed
  <2>2. \A d \in ToSet(queue') : context'[d].setting \in due'
    BY <1>a, <1>b, <1>e, <1>d DEF DueOK
  <2>3. firing # 0 => Used(firing)' /\ firing \notin Armed' /\ context'[firing].setting \in due'
    BY <1>a, <1>b, <1>c, <1>e DEF DueOK, Armed, TypeOK, Settings
  <2>4. \A d \in Settings : Used(d)' /\ ~ context'[d].repeat => context'[d].setting \notin fired'
    BY <1>a, <1>e DEF DueOK
  <2> QED BY <1>a, <2>1, <2>2, <2>3, <2>4 DEF DueOK
<1>5. Matched'
  <2>1. \A i \in Ids : mapTimers'[i] # 0 =>
          mapTimers'[i] \in Armed' \/ (phase = "lock" /\ firing = mapTimers'[i])
    BY <1>b, <1>c, <1>e DEF Matched, Armed
  <2>2. \A d \in Armed' : context'[d].id \in Ids /\ mapTimers'[context'[d].id] = d
    BY <1>b, <1>c, <1>e, <1>d DEF Matched, Armed, Used
  <2>3. pending' \cap ToSet(queue') = {}
    BY <1>b DEF Matched
  <2> QED BY <1>a, <1>b, <2>1, <2>2, <2>3 DEF Matched
<1> QED BY <1>1, <1>2, <1>3, <1>4, <1>5 DEF BodyOK

(* A pending event becomes active, and its setting due. *)
LEMMA Step_Timeout ==
  ASSUME TInv, NEW c \in Settings, Timeout(c)
  PROVE  TInv'
<1> USE TimerAssumption DEF TInv, eventVars, lockVars, histVars
<1>a. queue' \in Seq(Settings) /\ IsInjective(queue') /\ ToSet(queue') = ToSet(queue) \cup {c}
  <2>1. queue \in Seq(Settings) /\ IsInjective(queue) /\ c \notin ToSet(queue)
    BY DEF TypeOK, Matched, Timeout
  <2> QED BY <2>1, Added DEF Timeout
<1>b. context[c].setting \in Settings
  BY DEF Timeout, DueOK, MapOK, DataOK, Armed, Settings
<1>c. Armed' = Armed
  BY <1>a DEF Timeout, Armed
<1>1. TypeOK'
  BY <1>a, <1>b DEF Timeout, TypeOK
<1>2. DataOK'
  BY DEF Timeout, DataOK, TypeOK, Used, NoContext, Settings
<1>3. OpOK'
  BY DEF Timeout, OpOK, DataOK, Ops
<1>4. MapOK'
  BY DEF Timeout, MapOK, DataOK, TypeOK, Used, NoContext, Settings
<1>5. DueOK'
  BY <1>a, <1>c DEF Timeout, DueOK, Used
<1>6. LockOK'
  BY DEF Timeout, LockOK, OpOK, TypeOK, Phases, Ops, Threads
<1>7. Matched'
  BY <1>a, <1>c DEF Timeout, Matched
<1> QED BY <1>1, <1>2, <1>3, <1>4, <1>5, <1>6, <1>7

(* The first active event is about to fire. *)
LEMMA Step_TimerCb ==
  ASSUME TInv, TimerCb
  PROVE  TInv'
<1> USE TimerAssumption DEF TInv, eventVars, lockVars, histVars
<1>a. /\ queue' \in Seq(Settings) /\ IsInjective(queue') /\ firing' \in ToSet(queue)
      /\ ToSet(queue') = ToSet(queue) \ {firing'} /\ firing' \in Settings
  <2>1. queue \in Seq(Settings) /\ IsInjective(queue) /\ ToSet(queue) \subseteq Settings
    BY DEF TypeOK, Matched, ToSet
  <2> QED BY <2>1, Taken DEF TimerCb
<1>b. Armed' = Armed \ {firing'} /\ firing' \in Armed /\ firing = 0 /\ 0 \notin Settings
  BY <1>a DEF TimerCb, Armed, Matched, LockOK, Settings
<1>1. TypeOK'
  BY <1>a DEF TimerCb, TypeOK, Phases, Settings
<1>2. DataOK'
  BY DEF TimerCb, DataOK, TypeOK, Used, NoContext, Settings
<1>3. OpOK'
  BY DEF TimerCb, OpOK, DataOK, Ops
<1>4. MapOK'
  BY DEF TimerCb, MapOK, DataOK, TypeOK, Used, NoContext, Settings
<1>5. DueOK'
  BY <1>a, <1>b DEF TimerCb, DueOK, Used
<1>6. LockOK'
  BY <1>a, <1>b DEF TimerCb, LockOK
<1>7. Matched'
  BY <1>a, <1>b DEF TimerCb, Matched
<1> QED BY <1>1, <1>2, <1>3, <1>4, <1>5, <1>6, <1>7

(* A repeating timer is armed again. *)
LEMMA Step_Fire_Repeat ==
  ASSUME TInv, Fire_Repeat
  PROVE  TInv'
<1> USE TimerAssumption DEF TInv, eventVars, lockVars, histVars
<1>a. /\ phase = "lock" /\ owner = None /\ owner' = Loop /\ depth' = 1 /\ phase' = "handler"
      /\ fired' = fired \cup {context[firing].setting} /\ firing' = 0
      /\ UNCHANGED <<service, op, sets, due>>
  BY DEF Fire_Repeat, Fire_Begin, CanLock, LockOK, TypeOK
<1>b. /\ firing \in Settings /\ Used(firing) /\ firing \notin Armed /\ 0 \notin Settings
      /\ context[firing].setting \in 1 .. sets /\ mapTimers[context[firing].id] = firing
      /\ \A i \in Ids : mapTimers[i] = firing => i = context[firing].id
  BY <1>a DEF LockOK, DueOK, TypeOK, DataOK, MapOK, Settings, Used
<1>c. /\ context[firing].repeat /\ pending' = pending \cup {firing}
      /\ UNCHANGED <<mapTimers, live, context, queue>>
  BY DEF Fire_Repeat
<1>1. TypeOK'
  BY <1>a, <1>b, <1>c DEF TypeOK, Phases, Threads
<1>2. DataOK'
  BY <1>a, <1>b, <1>c DEF DataOK, Used
<1>3. OpOK'
  BY <1>a, <1>b, <1>c DEF OpOK
<1>4. MapOK'
  BY <1>a, <1>b, <1>c DEF MapOK, Used
<1>5. DueOK'
  BY <1>a, <1>b, <1>c DEF DueOK, MapOK, Used, Armed
<1>6. LockOK'
  BY <1>a, <1>b, <1>c DEF LockOK
<1>7. Matched'
  <2>1. Armed' = Armed \cup {firing}
    BY <1>c DEF Armed
  <2>2. \A i \in Ids : mapTimers'[i] # 0 => mapTimers'[i] \in Armed'
    BY <1>c, <2>1 DEF Matched
  <2>3. \A c \in Armed' : context'[c].id \in Ids /\ mapTimers'[context'[c].id] = c
    BY <1>b, <1>c, <2>1 DEF Matched, Used
  <2>4. pending' \cap ToSet(queue') = {}
    BY <1>b, <1>c DEF Matched, Armed
  <2> QED BY <1>c, <2>2, <2>3, <2>4 DEF Matched
<1> QED BY <1>1, <1>2, <1>3, <1>4, <1>5, <1>6, <1>7

(* A timer that does not repeat leaves the map; its event is not armed. *)
LEMMA Step_Fire_Single ==
  ASSUME TInv, Fire_Single
  PROVE  TInv'
<1> USE TimerAssumption DEF TInv, eventVars, lockVars, histVars
<1>a. /\ phase = "lock" /\ owner = None /\ owner' = Loop /\ depth' = 1 /\ phase' = "handler"
      /\ fired' = fired \cup {context[firing].setting} /\ firing' = 0
      /\ UNCHANGED <<service, op, sets, due>>
  BY DEF Fire_Single, Fire_Begin, CanLock, LockOK, TypeOK
<1>b. /\ firing \in Settings /\ Used(firing) /\ firing \notin Armed /\ 0 \notin Settings
      /\ context[firing].setting \in 1 .. sets /\ mapTimers[context[firing].id] = firing
      /\ \A i \in Ids : mapTimers[i] = firing => i = context[firing].id
  BY <1>a DEF LockOK, DueOK, TypeOK, DataOK, MapOK, Settings, Used
<1>c. /\ mapTimers' = [mapTimers EXCEPT ![context[firing].id] = 0]
      /\ live' = [live EXCEPT ![context[firing].id] = 0]
      /\ context' = [context EXCEPT ![firing] = NoContext]
      /\ UNCHANGED <<pending, queue>>
  BY DEF Fire_Single
<1>d. /\ \A i \in Ids : mapTimers'[i] = IF i = context[firing].id THEN 0 ELSE mapTimers[i]
      /\ \A i \in Ids : live'[i] = IF i = context[firing].id THEN 0 ELSE live[i]
      /\ \A d \in Settings : context'[d] = IF d = firing THEN NoContext ELSE context[d]
      /\ NoContext.id = None
      /\ \A d \in Settings : Used(d)' <=> (d # firing /\ Used(d))
  BY <1>b, <1>c DEF DataOK, TypeOK, Used, NoContext
<1>e. Armed \subseteq Settings /\ Armed' = Armed
  BY <1>c DEF TypeOK, Armed, ToSet
<1>1. TypeOK'
  <2>1. mapTimers' \in [Ids -> 0 .. MaxSets] /\ live' \in [Ids -> 0 .. MaxSets]
    <3>1. 0 \in 0 .. MaxSets
      OBVIOUS
    <3> QED BY <1>c, <3>1 DEF TypeOK
  <2>2. \A d \in Settings : context'[d] = NoContext \/ context'[d].id \in Ids
    BY <1>d DEF TypeOK
  <2> QED BY <1>a, <1>c, <2>1, <2>2 DEF TypeOK, Threads, Phases
<1>2. DataOK'
  <2>1. NoContext \in [id : Ids \cup {None}, repeat : BOOLEAN, setting : 0 .. sets]
    BY DEF NoContext, DataOK
  <2>2. context' \in [Settings -> [id : Ids \cup {None}, repeat : BOOLEAN, setting : 0 .. sets]]
    BY <1>c, <2>1 DEF DataOK
  <2>3. \A d \in Settings : context'[d] # NoContext => Used(d)'
    BY <1>d DEF DataOK
  <2>4. mapTimers' \in [Ids -> 0 .. sets]
    <3>1. 0 \in 0 .. sets
      BY DEF DataOK
    <3> QED BY <1>c, <3>1 DEF DataOK
  <2>5. fired' \subseteq 1 .. sets
    BY <1>a, <1>b DEF DataOK
  <2> QED BY <1>a, <2>2, <2>3, <2>4, <2>5 DEF DataOK
<1>3. OpOK'
  BY <1>a DEF OpOK
<1>4. MapOK'
  <2>1. \A i \in Ids : mapTimers'[i] # 0 => context'[mapTimers'[i]].id = i
    BY <1>b, <1>d DEF MapOK, TypeOK, Settings
  <2>2. \A d \in Settings : Used(d)' => mapTimers'[context'[d].id] = d /\ context'[d].setting # 0
    BY <1>b, <1>d DEF MapOK, Used
  <2>3. \A d, e \in Settings : Used(d)' /\ Used(e)' /\ d # e => context'[d].setting # context'[e].setting
    BY <1>d DEF MapOK
  <2>4. \A i \in Ids : live'[i] = IF mapTimers'[i] = 0 THEN 0 ELSE context'[mapTimers'[i]].setting
    <3>1. SUFFICES ASSUME NEW i \in Ids, i # context[firing].id
                   PROVE  live'[i] = IF mapTimers'[i] = 0 THEN 0 ELSE context'[mapTimers'[i]].setting
      BY <1>d
    <3>2. mapTimers'[i] = mapTimers[i] /\ live'[i] = live[i] /\ mapTimers[i] # firing
      BY <1>b, <1>d, <3>1
    <3>3. mapTimers[i] # 0 => context'[mapTimers[i]] = context[mapTimers[i]]
      BY <1>d, <3>2 DEF TypeOK, Settings
    <3> QED BY <3>2, <3>3 DEF MapOK
  <2> QED BY <2>1, <2>2, <2>3, <2>4 DEF MapOK
<1>5. DueOK'
  <2>1. \A d \in Armed' : Used(d)'
    BY <1>b, <1>d, <1>e DEF DueOK
  <2>2. \A d \in ToSet(queue') : context'[d].setting \in due'
    BY <1>a, <1>b, <1>c, <1>d, <1>e DEF DueOK, Armed
  <2>3. \A d \in Settings : Used(d)' /\ ~ context'[d].repeat => context'[d].setting \notin fired'
    BY <1>a, <1>b, <1>d DEF DueOK, MapOK
  <2> QED BY <1>a, <2>1, <2>2, <2>3 DEF DueOK
<1>6. LockOK'
  BY <1>a DEF LockOK
<1>7. Matched'
  BY <1>a, <1>b, <1>c, <1>d, <1>e DEF Matched, Used
<1> QED BY <1>1, <1>2, <1>3, <1>4, <1>5, <1>6, <1>7

(* The handler releases timerLock_. *)
LEMMA Step_Fire_Return ==
  ASSUME TInv, Fire_Return
  PROVE  TInv'
<1> USE TimerAssumption DEF TInv, eventVars, lockVars, histVars
<1>1. TypeOK'
  BY DEF Fire_Return, TypeOK, Phases, Threads, Settings, LockOK
<1>2. DataOK'
  BY DEF Fire_Return, DataOK, TypeOK, Used, NoContext, Settings
<1>3. OpOK'
  BY DEF Fire_Return, OpOK, DataOK, Ops
<1>4. MapOK'
  BY DEF Fire_Return, MapOK, DataOK, TypeOK, Used, NoContext, Settings
<1>5. DueOK'
  BY DEF Fire_Return, DueOK, MapOK, DataOK, TypeOK, Used, Armed, NoContext, Settings
<1>6. LockOK'
  BY DEF Fire_Return, LockOK, OpOK, TypeOK, Phases, Ops, Threads
<1>7. Matched'
  BY DEF Fire_Return, Matched, DueOK, LockOK, MapOK, DataOK, TypeOK, Used, Armed, NoContext, Settings
<1> QED BY <1>1, <1>2, <1>3, <1>4, <1>5, <1>6, <1>7

(* Only the mutex of the IOService changes. *)
LEMMA Step_LoopLocksService ==
  ASSUME TInv, LoopLocksService
  PROVE  TInv'
<1> USE TimerAssumption DEF TInv, eventVars, lockVars, histVars
<1>1. TypeOK'
  BY DEF LoopLocksService, TypeOK, Phases, Threads, Settings, LockOK
<1>2. DataOK'
  BY DEF LoopLocksService, DataOK, TypeOK, Used, NoContext, Settings
<1>3. OpOK'
  BY DEF LoopLocksService, OpOK, DataOK, Ops
<1>4. MapOK'
  BY DEF LoopLocksService, MapOK, DataOK, TypeOK, Used, NoContext, Settings
<1>5. DueOK'
  BY DEF LoopLocksService, DueOK, MapOK, DataOK, TypeOK, Used, Armed, NoContext, Settings
<1>6. LockOK'
  BY DEF LoopLocksService, LockOK, OpOK, TypeOK, Phases, Ops, Threads
<1>7. Matched'
  BY DEF LoopLocksService, Matched, DueOK, LockOK, MapOK, DataOK, TypeOK, Used, Armed, NoContext, Settings
<1> QED BY <1>1, <1>2, <1>3, <1>4, <1>5, <1>6, <1>7

(* Likewise. *)
LEMMA Step_LoopUnlocksService ==
  ASSUME TInv, LoopUnlocksService
  PROVE  TInv'
<1> USE TimerAssumption DEF TInv, eventVars, lockVars, histVars
<1>1. TypeOK'
  BY DEF LoopUnlocksService, TypeOK, Phases, Threads, Settings, LockOK
<1>2. DataOK'
  BY DEF LoopUnlocksService, DataOK, TypeOK, Used, NoContext, Settings
<1>3. OpOK'
  BY DEF LoopUnlocksService, OpOK, DataOK, Ops
<1>4. MapOK'
  BY DEF LoopUnlocksService, MapOK, DataOK, TypeOK, Used, NoContext, Settings
<1>5. DueOK'
  BY DEF LoopUnlocksService, DueOK, MapOK, DataOK, TypeOK, Used, Armed, NoContext, Settings
<1>6. LockOK'
  BY DEF LoopUnlocksService, LockOK, OpOK, TypeOK, Phases, Ops, Threads
<1>7. Matched'
  BY DEF LoopUnlocksService, Matched, DueOK, LockOK, MapOK, DataOK, TypeOK, Used, Armed, NoContext, Settings
<1> QED BY <1>1, <1>2, <1>3, <1>4, <1>5, <1>6, <1>7

(* Likewise. *)
LEMMA Step_LoopUsesSocket ==
  ASSUME TInv, LoopUsesSocket
  PROVE  TInv'
<1> USE TimerAssumption DEF TInv, eventVars, lockVars, histVars
<1>1. TypeOK'
  BY DEF LoopUsesSocket, TypeOK, Phases, Threads, Settings, LockOK
<1>2. DataOK'
  BY DEF LoopUsesSocket, DataOK, TypeOK, Used, NoContext, Settings
<1>3. OpOK'
  BY DEF LoopUsesSocket, OpOK, DataOK, Ops
<1>4. MapOK'
  BY DEF LoopUsesSocket, MapOK, DataOK, TypeOK, Used, NoContext, Settings
<1>5. DueOK'
  BY DEF LoopUsesSocket, DueOK, MapOK, DataOK, TypeOK, Used, Armed, NoContext, Settings
<1>6. LockOK'
  BY DEF LoopUsesSocket, LockOK, OpOK, TypeOK, Phases, Ops, Threads
<1>7. Matched'
  BY DEF LoopUsesSocket, Matched, DueOK, LockOK, MapOK, DataOK, TypeOK, Used, Armed, NoContext, Settings
<1> QED BY <1>1, <1>2, <1>3, <1>4, <1>5, <1>6, <1>7

(* No callback waits for timerLock_ while the loop sets a timer. *)
LEMMA Step_LoopSets ==
  ASSUME TInv, NEW id \in Ids, NEW repeat \in BOOLEAN, LoopSets(id, repeat)
  PROVE  TInv'
<1> USE TimerAssumption DEF TInv, eventVars, lockVars, histVars
<1>1. UNCHANGED <<firing, phase, owner, depth, service, op>> /\ firing = 0
  BY DEF LoopSets, InHandler, LockOK
<1>2. BodyTypes' /\ BodyOK'
  BY <1>1, Body_setTimer DEF LoopSets
<1>3. TypeOK'
  BY <1>1, <1>2 DEF TypeOK, BodyTypes
<1>4. OpOK' /\ LockOK'
  BY <1>1 DEF OpOK, LockOK
<1> QED BY <1>2, <1>3, <1>4 DEF BodyOK

(* Nor while it kills one. *)
LEMMA Step_LoopKills ==
  ASSUME TInv, NEW id \in Ids, LoopKills(id)
  PROVE  TInv'
<1> USE TimerAssumption DEF TInv, eventVars, lockVars, histVars
<1>1. UNCHANGED <<firing, phase, owner, depth, service, op>> /\ firing = 0
  BY DEF LoopKills, InHandler, LockOK
<1>2. BodyTypes' /\ BodyOK'
  BY <1>1, Body_killTimer DEF LoopKills
<1>3. TypeOK'
  BY <1>1, <1>2 DEF TypeOK, BodyTypes
<1>4. OpOK' /\ LockOK'
  BY <1>1 DEF OpOK, LockOK
<1> QED BY <1>2, <1>3, <1>4 DEF BodyOK

(* Only the mutex and what the thread does change. *)
LEMMA Step_OtherLocksService ==
  ASSUME TInv, NEW t \in Others, OtherLocksService(t)
  PROVE  TInv'
<1> USE TimerAssumption DEF TInv, eventVars, lockVars, histVars
<1>1. TypeOK'
  BY DEF OtherLocksService, SetOp, TypeOK, Threads, Ops, OpOK
<1>2. DataOK'
  BY DEF OtherLocksService, SetOp, Idle, DataOK, TypeOK, Used, NoContext, Settings
<1>3. OpOK'
  BY DEF OtherLocksService, SetOp, Idle, OpOK, DataOK, Ops
<1>4. MapOK'
  BY DEF OtherLocksService, SetOp, Idle, MapOK, DataOK, TypeOK, Used, NoContext, Settings
<1>5. DueOK'
  BY DEF OtherLocksService, SetOp, Idle, DueOK, MapOK, DataOK, TypeOK, Used, Armed, NoContext, Settings
<1>6. LockOK'
  BY DEF OtherLocksService, SetOp, Idle, LockOK, OpOK, TypeOK, Phases, Ops, Threads
<1>7. Matched'
  BY DEF OtherLocksService, SetOp, Idle, Matched, DueOK, LockOK, MapOK, DataOK, TypeOK, Used, Armed, NoContext, Settings
<1> QED BY <1>1, <1>2, <1>3, <1>4, <1>5, <1>6, <1>7

(* Likewise. *)
LEMMA Step_OtherUnlocksService ==
  ASSUME TInv, NEW t \in Others, OtherUnlocksService(t)
  PROVE  TInv'
<1> USE TimerAssumption DEF TInv, eventVars, lockVars, histVars
<1>1. TypeOK'
  BY DEF OtherUnlocksService, SetOp, TypeOK, Threads, Ops, OpOK
<1>2. DataOK'
  BY DEF OtherUnlocksService, SetOp, Idle, DataOK, TypeOK, Used, NoContext, Settings
<1>3. OpOK'
  BY DEF OtherUnlocksService, SetOp, Idle, OpOK, DataOK, Ops
<1>4. MapOK'
  BY DEF OtherUnlocksService, SetOp, Idle, MapOK, DataOK, TypeOK, Used, NoContext, Settings
<1>5. DueOK'
  BY DEF OtherUnlocksService, SetOp, Idle, DueOK, MapOK, DataOK, TypeOK, Used, Armed, NoContext, Settings
<1>6. LockOK'
  BY DEF OtherUnlocksService, SetOp, Idle, LockOK, OpOK, TypeOK, Phases, Ops, Threads
<1>7. Matched'
  BY DEF OtherUnlocksService, SetOp, Idle, Matched, DueOK, LockOK, MapOK, DataOK, TypeOK, Used, Armed, NoContext, Settings
<1> QED BY <1>1, <1>2, <1>3, <1>4, <1>5, <1>6, <1>7

(* Likewise. *)
LEMMA Step_OtherCalls ==
  ASSUME TInv, NEW t \in Others, NEW kind \in {"set", "kill"}, NEW id \in Ids, NEW repeat \in BOOLEAN, OtherCalls(t, kind, id, repeat)
  PROVE  TInv'
<1> USE TimerAssumption DEF TInv, eventVars, lockVars, histVars
<1>1. TypeOK'
  BY DEF OtherCalls, SetOp, TypeOK, Threads, Ops, OpOK
<1>2. DataOK'
  BY DEF OtherCalls, SetOp, Idle, DataOK, TypeOK, Used, NoContext, Settings
<1>3. OpOK'
  BY DEF OtherCalls, SetOp, Idle, OpOK, DataOK, Ops
<1>4. MapOK'
  BY DEF OtherCalls, SetOp, Idle, MapOK, DataOK, TypeOK, Used, NoContext, Settings
<1>5. DueOK'
  BY DEF OtherCalls, SetOp, Idle, DueOK, MapOK, DataOK, TypeOK, Used, Armed, NoContext, Settings
<1>6. LockOK'
  BY DEF OtherCalls, SetOp, Idle, LockOK, OpOK, TypeOK, Phases, Ops, Threads
<1>7. Matched'
  BY DEF OtherCalls, SetOp, Idle, Matched, DueOK, LockOK, MapOK, DataOK, TypeOK, Used, Armed, NoContext, Settings
<1> QED BY <1>1, <1>2, <1>3, <1>4, <1>5, <1>6, <1>7

(* A thread waits, does nothing, or runs setTimer or killTimer under timerLock_. *)
LEMMA Step_OtherRuns ==
  ASSUME TInv, NEW t \in Others, OtherRuns(t)
  PROVE  TInv'
<1> USE TimerAssumption DEF TInv, eventVars, lockVars, histVars
<1>1. CASE MustWait(t)
  <2>1. /\ owner' = t /\ depth' = depth + 1 /\ CanLock(t) /\ op[t].kind \in {"set", "kill"}
        /\ op' = [op EXCEPT ![t].kind = "wait"]
        /\ UNCHANGED <<mapTimers, eventVars, sets, histVars, firing, phase, service>>
    BY <1>1 DEF OtherRuns
  <2> USE <2>1
  <2>2. TypeOK'
    BY DEF CanLock, TypeOK, Threads, Ops, OpOK, LockOK
  <2>3. OpOK'
    BY DEF OpOK, Ops
  <2>4. DataOK' /\ MapOK'
    BY DEF DataOK, MapOK, Used
  <2>5. DueOK' /\ Matched'
    BY DEF DueOK, Matched, Used, Armed
  <2>6. LockOK'
    BY SMTT(30) DEF LockOK, CanLock, OpOK, TypeOK, Threads
  <2> QED BY <2>2, <2>3, <2>4, <2>5, <2>6
<1>2. CASE ~ MustWait(t)
  <2>1. /\ AfterCall(t) /\ CanLock(t) /\ op[t].kind \in {"set", "kill"} /\ op[t].id \in Ids
        /\ UNCHANGED <<owner, depth, firing, phase, service>>
    BY <1>2 DEF OtherRuns, OpOK
  <2>2. OpOK' /\ op[t].repeat \in BOOLEAN /\ op'[t].kind \in {"out", "socket"}
    BY <2>1 DEF OpOK, AfterCall, SetOp, Ops
  <2>3. LockOK'
    BY <2>1, <2>2 DEF LockOK, OpOK, AfterCall, SetOp
  <2>4. CASE UNCHANGED <<mapTimers, eventVars, sets, histVars>>
    <3>1. TypeOK'
      BY <2>1, <2>2, <2>4 DEF TypeOK, OpOK
    <3>2. DataOK' /\ MapOK'
      BY <2>4 DEF DataOK, MapOK, Used
    <3>3. DueOK' /\ Matched'
      BY <2>1, <2>4 DEF DueOK, Matched, Used, Armed
    <3> QED BY <2>2, <2>3, <3>1, <3>2, <3>3
  <2>5. CASE ~ UNCHANGED <<mapTimers, eventVars, sets, histVars>>
    <3>1. firing = 0 \/ mapTimers[op[t].id] # firing
      <4>1. SUFFICES ASSUME "old" \notin RemoteOps, firing # 0, mapTimers[op[t].id] = firing PROVE FALSE
        BY <1>2 DEF MustWait
      <4>2. op[t].kind # "kill"
        BY <4>1 DEF OpOK
      <4>3. UNCHANGED <<mapTimers, eventVars, sets, histVars>>
        BY <1>2, <4>1, <4>2 DEF OtherRuns
      <4> QED BY <2>5, <4>3
    <3>2. BodyTypes' /\ BodyOK'
      <4>1. CASE killTimer(op[t].id)
        BY <2>1, <3>1, <4>1, Body_killTimer
      <4>2. CASE setTimer(op[t].id, op[t].repeat)
        BY <2>1, <2>2, <3>1, <4>2, Body_setTimer
      <4> QED BY <1>2, <2>5, <4>1, <4>2 DEF OtherRuns
    <3>3. TypeOK'
      BY <2>1, <2>2, <3>2 DEF TypeOK, BodyTypes, OpOK
    <3> QED BY <2>2, <2>3, <3>2, <3>3 DEF BodyOK
  <2> QED BY <2>4, <2>5
<1> QED BY <1>1, <1>2

-----------------------------------------------------------------------------
(* No timer is set in the initial state. *)
LEMMA InitTInv == Init => TInv
<1> SUFFICES ASSUME Init PROVE TInv
  OBVIOUS
<1> USE TimerAssumption DEF Init, NoContext
<1>1. ToSet(queue) = {} /\ IsInjective(queue) /\ queue \in Seq(Settings)
  BY DEF ToSet, IsInjective
<1>2. 0 \in 0 .. MaxSets /\ 0 \in 0 .. 0 /\ depth \in 0 .. 1
  OBVIOUS
<1>3. TypeOK
  BY <1>1, <1>2 DEF TypeOK, Phases, Threads, Ops
<1>4. DataOK /\ OpOK
  BY <1>2 DEF DataOK, OpOK, Used, Ops
<1>5. MapOK /\ DueOK /\ Matched
  BY <1>1 DEF MapOK, DueOK, Matched, Used, Armed
<1>6. LockOK
  BY DEF LockOK
<1> QED BY <1>3, <1>4, <1>5, <1>6 DEF TInv

(* Every step keeps the invariant. *)
LEMMA NextTInv == TInv /\ [Next]_vars => TInv'
<1> SUFFICES ASSUME TInv, [Next]_vars PROVE TInv'
  OBVIOUS
<1>1. CASE UNCHANGED vars
  <2> USE <1>1 DEF vars, TInv
  <2>1. TypeOK' /\ OpOK'
    BY DEF TypeOK, OpOK
  <2>2. DataOK' /\ MapOK'
    BY DEF DataOK, MapOK, Used
  <2>3. DueOK' /\ Matched'
    BY DEF DueOK, Matched, Used, Armed
  <2>4. LockOK'
    BY DEF LockOK
  <2> QED BY <2>1, <2>2, <2>3, <2>4
<1>2. CASE LoopStep \/ LoopUsesSocket
  BY <1>2, Step_TimerCb, Step_Fire_Repeat, Step_Fire_Single, Step_Fire_Return,
     Step_LoopLocksService, Step_LoopUnlocksService, Step_LoopUsesSocket DEF LoopStep
<1>3. CASE \E t \in Others : OtherLocksService(t) \/ OtherStep(t)
  BY <1>3, Step_OtherLocksService, Step_OtherUnlocksService, Step_OtherRuns DEF OtherStep
<1>4. ASSUME NEW t \in Others, NEW kind \in {"set", "kill"}, NEW id \in Ids,
             NEW repeat \in BOOLEAN, OtherCalls(t, kind, id, repeat)
      PROVE  TInv'
  BY <1>4, Step_OtherCalls
<1>5. ASSUME NEW id \in Ids, NEW repeat \in BOOLEAN, LoopSets(id, repeat) PROVE TInv'
  BY <1>5, Step_LoopSets
<1> QED BY <1>1, <1>2, <1>3, <1>4, <1>5, Step_LoopKills, Step_Timeout DEF Next

(* The inductive invariant holds in every state. *)
LEMMA AlwaysTInv == Spec => []TInv
<1> QED BY InitTInv, NextTInv, PTL DEF Spec

(* mapTimers_ and libevent agree, for any number of ids, threads and        *)
(* settings, whatever other threads do with the Timer: a timer in the map   *)
(* will fire, and no event has a context that has left the map.             *)
THEOREM EventsAlwaysMatchMap == Spec => []EventsMatchMap
<1>1. TInv => EventsMatchMap
  BY DEF TInv, Matched, EventsMatchMap, Armed
<1> QED BY <1>1, AlwaysTInv, PTL

(* onTimer_Timer is called only for the setting that counts for its id,     *)
(* after that setting's own time has passed, and once unless it repeats.    *)
THEOREM TimersFireAsSet == Spec => FiresAsSet
<1> DEFINE Fires == phase = "lock" /\ phase' = "handler" =>
              LET c == context[firing]
              IN /\ c.id \in Ids /\ live[c.id] = c.setting
                 /\ c.setting \in due
                 /\ c.repeat \/ c.setting \notin fired
<1>1. ASSUME TInv, [Next]_vars PROVE [Fires]_vars
  <2>1. SUFFICES ASSUME phase = "lock" PROVE Fires
    OBVIOUS
  <2>2. firing # 0 /\ firing \in Settings
    BY <1>1, <2>1 DEF TInv, LockOK, TypeOK, Settings
  <2>3. Used(firing) /\ context[firing].setting \in due
    BY <1>1, <2>2 DEF TInv, DueOK
  <2>4. mapTimers[context[firing].id] = firing /\ live[context[firing].id] = context[firing].setting
    BY <1>1, <2>2, <2>3 DEF TInv, MapOK, Used
  <2>5. context[firing].repeat \/ context[firing].setting \notin fired
    BY <1>1, <2>2, <2>3 DEF TInv, DueOK
  <2> QED BY <2>3, <2>4, <2>5 DEF Used
<1>2. Spec => [][Fires]_vars
  BY <1>1, AlwaysTInv, PTL DEF Spec
<1> QED BY <1>2 DEF FiresAsSet

=============================================================================
