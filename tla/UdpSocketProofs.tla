--------------------------- MODULE UdpSocketProofs ---------------------------
(***************************************************************************)
(* Proofs about UdpSocket, for any hosts, peers and number of datagrams.   *)
(* As in the model-checked instance, writeTo is called on the loop's       *)
(* thread.  The socket may be closed at any time.                          *)
(***************************************************************************)
EXTENDS UdpSocket, SequenceTheorems, TLAPS

(* The case that is proved about. *)
Orderly == OtherThread = FALSE

(* The query that resolve() has started and not yet put into the map is     *)
(* under way, and the map has no entry for its host.                        *)
ResolvingOK == resolving # 0 => resolving \in queries /\ mapcontext_[host[resolving]] = 0

(* A query was made by a writeTo for a host. *)
QueriesOK == \A w \in queries : w <= writes /\ host[w] \in Hosts

(* What was sent is not under way any more, and was written before.         *)
SentOK == /\ sent \in Seq(1 .. writes) /\ IsInjective(sent)
          /\ \A i \in DOMAIN sent : sent[i] \notin queries

MemoryOK == destroyed = TRUE \/ contexts = queries

(* The inductive invariant. *)
UInv == /\ ContextsMatchQueries /\ ResolvingOK /\ QueriesOK
        /\ SentOK /\ MemoryOK

-----------------------------------------------------------------------------
(* The initial state satisfies the invariant. *)
LEMMA InitUInv == Init => UInv
<1> SUFFICES ASSUME Init PROVE UInv
  OBVIOUS
<1> USE UdpAssumption
<1>1. ContextsMatchQueries
  <2>1. TypeOK
    <3>1. ev_ \in BOOLEAN /\ destroyed \in BOOLEAN /\ failed \in BOOLEAN
      BY DEF Init
    <3>2. /\ lastclient_sin_ \in Peers \cup {None} /\ host \in [Writes -> Hosts \cup {None}]
          /\ queries \subseteq Writes /\ contexts \subseteq Writes
      BY DEF Init
    <3>3. /\ mapcontext_ \in [Hosts -> 0 .. MaxWrites]
          /\ resolving \in 0 .. MaxWrites /\ writes \in 0 .. MaxWrites
      BY DEF Init
    <3> QED BY <3>1, <3>2, <3>3 DEF TypeOK
  <2> QED BY <2>1 DEF Init, ContextsMatchQueries
<1>2. ResolvingOK /\ QueriesOK /\ MemoryOK
  BY DEF Init, ResolvingOK, QueriesOK, MemoryOK
<1>3. SentOK
  BY DEF Init, SentOK, IsInjective
<1> QED BY <1>1, <1>2, <1>3 DEF UInv

(* One datagram at most is put behind those sent before. *)
LEMMA SendOnce ==
  ASSUME NEW m \in Nat, NEW s \in Seq(1 .. m), IsInjective(s),
         NEW w \in 1 .. m, \A i \in DOMAIN s : s[i] # w,
         NEW e \in Seq(1 .. m), Len(e) \in {0, 1}, \A k \in 1 .. Len(e) : e[k] = w
  PROVE  /\ s \o e \in Seq(1 .. m) /\ IsInjective(s \o e)
         /\ \A i \in DOMAIN (s \o e) : (s \o e)[i] = w \/ \E j \in DOMAIN s : (s \o e)[i] = s[j]
<1> DEFINE r == s \o e
<1>2. /\ r \in Seq(1 .. m) /\ Len(r) = Len(s) + Len(e)
      /\ \A i \in 1 .. Len(r) : r[i] = IF i <= Len(s) THEN s[i] ELSE e[i - Len(s)]
      /\ \A k \in 1 .. Len(e) : r[Len(s) + k] = e[k]
  OBVIOUS
<1> HIDE DEF r
<1>3. \A i \in 1 .. Len(r) : i <= Len(s) \/ (i = Len(s) + 1 /\ r[i] = w)
  <2> SUFFICES ASSUME NEW i \in 1 .. Len(r), ~ (i <= Len(s))
               PROVE  i = Len(s) + 1 /\ r[i] = w
    OBVIOUS
  <2>1. Len(e) = 1 /\ i = Len(s) + 1
    <3>1. Len(s) \in Nat /\ Len(r) = Len(s) + Len(e) /\ Len(e) \in {0, 1}
      BY <1>2
    <3>2. CASE Len(e) = 0
      BY <3>1, <3>2
    <3>3. CASE Len(e) = 1
      BY <3>1, <3>3
    <3> QED BY <3>1, <3>2, <3>3
  <2>2. 1 \in 1 .. Len(e)
    BY <2>1
  <2>3. e[1] = w
    BY <2>2
  <2>4. r[Len(s) + 1] = e[1]
    BY <1>2, <2>2
  <2> QED BY <2>1, <2>3, <2>4
<1>4. DOMAIN r = 1 .. Len(r) /\ DOMAIN s = 1 .. Len(s)
  BY <1>2
<1>5. IsInjective(r)
  <2>0. \A i \in 1 .. Len(s) : i \in 1 .. Len(r) /\ r[i] = s[i] /\ s[i] # w
    <3> SUFFICES ASSUME NEW i \in 1 .. Len(s)
                 PROVE  i \in 1 .. Len(r) /\ r[i] = s[i] /\ s[i] # w
      OBVIOUS
    <3>1. i \in 1 .. Len(r) /\ i <= Len(s)
      BY <1>2
    <3>2. r[i] = s[i]
      BY <1>2, <3>1
    <3>3. s[i] # w
      BY <1>4
    <3> QED BY <3>1, <3>2, <3>3
  <2> SUFFICES ASSUME NEW a \in 1 .. Len(r), NEW b \in 1 .. Len(r), r[a] = r[b]
               PROVE  a = b
    BY <1>4 DEF IsInjective
  <2>1. CASE a <= Len(s) /\ b <= Len(s)
    <3>1. a \in DOMAIN s /\ b \in DOMAIN s /\ s[a] = s[b]
      BY <1>2, <1>4, <2>1
    <3> QED BY <3>1 DEF IsInjective
  <2>2. CASE a > Len(s) /\ b > Len(s)
    <3>1. ~ (a <= Len(s)) /\ ~ (b <= Len(s))
      BY <2>2
    <3> QED BY <1>3, <3>1
  <2>3. CASE a <= Len(s) /\ b > Len(s)
    <3>1. a \in 1 .. Len(s) /\ ~ (b <= Len(s))
      BY <2>3
    <3>2. r[a] # w
      BY <2>0, <3>1
    <3>3. r[b] = w
      BY <1>3, <3>1
    <3> QED BY <3>2, <3>3
  <2>4. CASE a > Len(s) /\ b <= Len(s)
    <3>1. b \in 1 .. Len(s) /\ ~ (a <= Len(s))
      BY <2>4
    <3>2. r[b] # w
      BY <2>0, <3>1
    <3>3. r[a] = w
      BY <1>3, <3>1
    <3> QED BY <3>2, <3>3
  <2> QED BY <1>2, <2>1, <2>2, <2>3, <2>4
<1>6. \A i \in DOMAIN r : r[i] = w \/ \E j \in DOMAIN s : r[i] = s[j]
  BY <1>2, <1>3, <1>4
<1> QED BY <1>2, <1>5, <1>6 DEF r

(* The answer to a datagram that was not sent before; a closed socket sends *)
(* nothing.                                                                 *)
LEMMA AfterAnswer ==
  ASSUME UInv, NEW w \in Writes, NEW m \in Nat, writes <= m, w <= m,
         NEW answer \in Answers, NEW i \in DOMAIN answer \cup {1},
         \A j \in DOMAIN sent : sent[j] # w, onDnsResolveResult(w, answer, i)
  PROVE  /\ failed' \in BOOLEAN /\ sent' \in Seq(1 .. m) /\ IsInjective(sent')
         /\ \A k \in DOMAIN sent' : sent'[k] = w \/ \E j \in DOMAIN sent : sent'[k] = sent[j]
<1> DEFINE n == Chosen(answer, i)
<1>1. n \in {0, 1}
  BY DEF Chosen
<1> HIDE DEF n
<1> DEFINE e == [k \in 1 .. n |-> w]
<1>2. failed' \in BOOLEAN /\ (sent' = sent \/ sent' = sent \o e)
  BY DEF onDnsResolveResult, n
<1>3. sent \in Seq(1 .. m) /\ IsInjective(sent)
  BY DEF UInv, SentOK, ContextsMatchQueries, TypeOK
<1>4. w \in 1 .. m
  BY DEF Writes
<1>5. e \in Seq(1 .. m) /\ Len(e) \in {0, 1} /\ \A k \in 1 .. Len(e) : e[k] = w
  BY <1>1, <1>4
<1> HIDE DEF e
<1>6. /\ sent' \in Seq(1 .. m) /\ IsInjective(sent')
      /\ \A k \in DOMAIN sent' : sent'[k] = w \/ \E j \in DOMAIN sent : sent'[k] = sent[j]
  <2>1. CASE sent' = sent
    BY <1>3, <2>1
  <2>2. CASE sent' = sent \o e
    BY <1>3, <1>4, <1>5, <2>2, SendOnce
  <2> QED BY <1>2, <2>1, <2>2
<1> QED BY <1>2, <1>6

(* A sequence of datagrams is one also when more have been written. *)
LEMMA MoreWritten ==
  ASSUME NEW m \in Nat, NEW s \in Seq(1 .. m)
  PROVE  s \in Seq(1 .. m + 1)
OBVIOUS

-----------------------------------------------------------------------------
(* The steps of the socket that leave the resolver alone. *)
LEMMA SocketSteps ==
  ASSUME Orderly, UInv, UNCHANGED <<resolverVars, destroyed, failed, sent>>,
         ev_' \in BOOLEAN, lastclient_sin_' \in Peers \cup {None}
  PROVE  UInv'
<1>1. TypeOK'
  BY DEF UInv, ContextsMatchQueries, TypeOK, resolverVars
<1>2. ContextsMatchQueries' /\ ResolvingOK' /\ MemoryOK'
  BY <1>1 DEF UInv, ContextsMatchQueries, ResolvingOK, MemoryOK, resolverVars
<1>3. QueriesOK' /\ SentOK'
  BY DEF UInv, QueriesOK, SentOK, resolverVars
<1> QED BY <1>2, <1>3 DEF UInv

(* The answer to a query that is under way. *)
LEMMA AnswerStep ==
  ASSUME Orderly, UInv, NEW w \in Writes, NEW answer \in Answers,
         NEW i \in DOMAIN answer \cup {1}, DnsCallback(w, answer, i)
  PROVE  UInv'
<1> USE UdpAssumption
<1>1. /\ w \in queries /\ resolving = 0 /\ host[w] \in Hosts
      /\ w <= writes /\ writes \in Nat /\ mapcontext_[host[w]] = w
  BY DEF UInv, DnsCallback, Orderly, QueriesOK, ContextsMatchQueries, TypeOK, Writes
<1>2. \A j \in DOMAIN sent : sent[j] # w
  BY <1>1 DEF UInv, SentOK
<1>3. /\ failed' \in BOOLEAN /\ sent' \in Seq(1 .. writes) /\ IsInjective(sent')
      /\ \A k \in DOMAIN sent' : sent'[k] = w \/ \E j \in DOMAIN sent : sent'[k] = sent[j]
  <2>1. onDnsResolveResult(w, answer, i)
    BY DEF DnsCallback
  <2>2. writes <= writes
    BY <1>1
  <2> QED BY <1>1, <1>2, <2>1, <2>2, AfterAnswer
<1>4. /\ queries' = queries \ {w} /\ contexts' = contexts \ {w}
      /\ mapcontext_' = [mapcontext_ EXCEPT ![host[w]] = 0]
      /\ UNCHANGED <<ev_, lastclient_sin_, host, resolving, writes, destroyed>>
  BY DEF DnsCallback, Erase
<1>5. TypeOK'
  BY <1>1, <1>3, <1>4 DEF UInv, ContextsMatchQueries, TypeOK
<1>6. ContextsMatchQueries'
  <2>1. ASSUME NEW h \in Hosts, mapcontext_'[h] # 0
        PROVE  mapcontext_'[h] \in queries' /\ host'[mapcontext_'[h]] = h
    BY <1>1, <1>4, <2>1 DEF UInv, ContextsMatchQueries, TypeOK
  <2>2. ASSUME NEW v \in queries'
        PROVE  mapcontext_'[host'[v]] = v
    <3>1. v \in queries /\ v # w /\ v # 0 /\ host[v] \in Hosts
      BY <1>4, <2>2 DEF UInv, QueriesOK, ContextsMatchQueries, TypeOK, Writes
    <3>2. mapcontext_[host[v]] = v
      BY <1>1, <3>1 DEF UInv, ContextsMatchQueries
    <3>3. host[v] # host[w]
      BY <1>1, <3>1, <3>2
    <3> QED BY <1>1, <1>4, <3>1, <3>2, <3>3 DEF UInv, ContextsMatchQueries, TypeOK
  <2>3. destroyed' => queries' = {}
    BY <1>4 DEF UInv, ContextsMatchQueries
  <2> QED BY <1>5, <2>1, <2>2, <2>3 DEF UInv, ContextsMatchQueries
<1>7. ResolvingOK' /\ QueriesOK' /\ MemoryOK'
  BY <1>1, <1>3, <1>4 DEF UInv, ResolvingOK, QueriesOK, MemoryOK
<1>8. SentOK'
  BY <1>3, <1>4 DEF UInv, SentOK
<1> QED BY <1>6, <1>7, <1>8 DEF UInv

(* writeTo that does not leave a query behind. *)
LEMMA WriteStep ==
  ASSUME Orderly, UInv, NEW h \in Hosts,
         \/ WriteTo_Refused(h)
         \/ \E answer \in Answers : \E i \in DOMAIN answer \cup {1} : WriteTo_Immediate(h, answer, i)
  PROVE  UInv'
<1> USE UdpAssumption
<1>1. /\ writes \in Nat /\ writes + 1 \in Writes /\ ev_ = TRUE /\ writes' = writes + 1
      /\ UNCHANGED <<ev_, lastclient_sin_, mapcontext_, host, queries, resolving, contexts, destroyed>>
  BY DEF UInv, WriteTo_Refused, WriteTo_Immediate, CanWriteTo, ContextsMatchQueries, TypeOK, Writes
<1>2. \A j \in DOMAIN sent : sent[j] \in 1 .. writes
  <2>1. sent \in Seq(1 .. writes)
    BY DEF UInv, SentOK
  <2>2. DOMAIN sent = 1 .. Len(sent)
    BY <2>1
  <2> QED BY <2>1, <2>2, ElementOfSeq
<1>3. /\ failed' \in BOOLEAN /\ sent' \in Seq(1 .. writes + 1) /\ IsInjective(sent')
      /\ \A k \in DOMAIN sent' : sent'[k] = writes + 1 \/ \E j \in DOMAIN sent : sent'[k] = sent[j]
  <2>1. CASE WriteTo_Refused(h)
    <3>1. sent' = sent /\ failed' = failed
      BY <2>1 DEF WriteTo_Refused
    <3>2. sent \in Seq(1 .. writes + 1)
      BY <1>1, MoreWritten DEF UInv, SentOK
    <3> QED BY <3>1, <3>2 DEF UInv, SentOK, ContextsMatchQueries, TypeOK
  <2>2. ASSUME NEW answer \in Answers, NEW i \in DOMAIN answer \cup {1}, WriteTo_Immediate(h, answer, i)
        PROVE  <1>3
    <3>1. onDnsResolveResult(writes + 1, answer, i)
      BY <2>2 DEF WriteTo_Immediate
    <3>2. \A j \in DOMAIN sent : sent[j] # writes + 1
      BY <1>1, <1>2
    <3>3. writes + 1 \in Nat /\ writes <= writes + 1 /\ writes + 1 <= writes + 1
      BY <1>1
    <3> QED BY <1>1, <3>1, <3>2, <3>3, AfterAnswer
  <2> QED BY <2>1, <2>2
<1>4. TypeOK'
  <2>1. writes' \in 0 .. MaxWrites
    BY <1>1 DEF Writes
  <2>2. failed' \in BOOLEAN
    BY <1>3
  <2> QED BY <1>1, <2>1, <2>2 DEF UInv, ContextsMatchQueries, TypeOK
<1>5. ContextsMatchQueries' /\ ResolvingOK' /\ MemoryOK'
  BY <1>1, <1>3, <1>4 DEF UInv, ContextsMatchQueries, ResolvingOK, MemoryOK
<1>6. QueriesOK'
  BY <1>1 DEF UInv, QueriesOK, ContextsMatchQueries, TypeOK, Writes
<1>7. SentOK'
  <2>1. writes + 1 \notin queries
    BY <1>1 DEF UInv, QueriesOK
  <2> QED BY <1>1, <1>3, <2>1 DEF UInv, SentOK
<1> QED BY <1>5, <1>6, <1>7 DEF UInv

(* writeTo that starts a query. *)
LEMMA QueryStep ==
  ASSUME Orderly, UInv, NEW h \in Hosts, WriteTo_Query(h)
  PROVE  UInv'
<1> USE UdpAssumption
<1> DEFINE w == writes + 1
<1>1. /\ writes \in Nat /\ w \in Writes /\ ev_ = TRUE /\ resolving = 0 /\ mapcontext_[h] = 0
      /\ destroyed = FALSE
  BY DEF UInv, WriteTo_Query, CanWriteTo, Unlocked, Running, ContextsMatchQueries, TypeOK, Writes
<1>2. /\ writes' = w /\ contexts' = contexts \cup {w} /\ queries' = queries \cup {w}
      /\ host' = [host EXCEPT ![w] = h] /\ resolving' = w
      /\ UNCHANGED <<ev_, lastclient_sin_, mapcontext_, destroyed, failed, sent>>
  BY DEF WriteTo_Query
<1>3. \A v \in queries : v \in Writes /\ v <= writes /\ v # w /\ host'[v] = host[v]
  BY <1>1, <1>2 DEF UInv, QueriesOK, ContextsMatchQueries, TypeOK, Writes
<1>4. host'[w] = h /\ w # 0
  BY <1>1, <1>2 DEF UInv, ContextsMatchQueries, TypeOK
<1>5. TypeOK'
  <2>1. writes' \in 0 .. MaxWrites /\ resolving' \in 0 .. MaxWrites
    BY <1>1, <1>2 DEF Writes
  <2>2. /\ host' \in [Writes -> Hosts \cup {None}] /\ queries' \subseteq Writes
        /\ contexts' \subseteq Writes
    BY <1>1, <1>2 DEF UInv, ContextsMatchQueries, TypeOK
  <2> QED BY <1>2, <2>1, <2>2 DEF UInv, ContextsMatchQueries, TypeOK
<1>6. ContextsMatchQueries'
  <2>1. ASSUME NEW g \in Hosts, mapcontext_'[g] # 0
        PROVE  mapcontext_'[g] \in queries' /\ host'[mapcontext_'[g]] = g
    BY <1>2, <1>3, <2>1 DEF UInv, ContextsMatchQueries
  <2>2. ASSUME NEW v \in queries'
        PROVE  mapcontext_'[host'[v]] = v \/ resolving' = v
    <3>1. CASE v = w
      BY <1>2, <3>1
    <3>2. CASE v \in queries
      <4>1. v # 0
        BY <1>3, <3>2 DEF Writes
      <4> QED BY <1>1, <1>2, <1>3, <3>2, <4>1 DEF UInv, ContextsMatchQueries
    <3> QED BY <1>2, <3>1, <3>2
  <2> QED BY <1>1, <1>2, <1>5, <2>1, <2>2 DEF ContextsMatchQueries
<1>7. ResolvingOK'
  BY <1>1, <1>2, <1>4 DEF ResolvingOK
<1>8. QueriesOK'
  <2>1. ASSUME NEW v \in queries'
        PROVE  v <= writes' /\ host'[v] \in Hosts
    <3>1. CASE v = w
      BY <1>1, <1>2, <1>4, <3>1
    <3>2. CASE v \in queries
      <4>1. v <= w
        BY <1>1, <1>3, <3>2 DEF Writes
      <4> QED BY <1>1, <1>2, <1>3, <3>2, <4>1 DEF UInv, QueriesOK
    <3> QED BY <1>2, <3>1, <3>2
  <2> QED BY <2>1 DEF QueriesOK
<1>9. SentOK'
  <2>1. \A j \in DOMAIN sent : sent[j] # w
    <3>1. sent \in Seq(1 .. writes) /\ DOMAIN sent = 1 .. Len(sent)
      BY DEF UInv, SentOK
    <3>2. \A j \in DOMAIN sent : sent[j] \in 1 .. writes
      BY <3>1, ElementOfSeq
    <3> QED BY <1>1, <3>2
  <2>2. sent' \in Seq(1 .. writes')
    BY <1>1, <1>2, MoreWritten DEF UInv, SentOK
  <2> QED BY <1>2, <2>1, <2>2 DEF UInv, SentOK
<1>10. MemoryOK'
  BY <1>1, <1>2 DEF UInv, MemoryOK
<1> QED BY <1>6, <1>7, <1>8, <1>9, <1>10 DEF UInv

(* resolve() puts the query into the map. *)
LEMMA InsertStep ==
  ASSUME Orderly, UInv, Resolve_Insert
  PROVE  UInv'
<1> USE UdpAssumption
<1> DEFINE h == host[resolving]
<1>1. resolving \in queries /\ resolving # 0 /\ mapcontext_[h] = 0 /\ h \in Hosts
  BY DEF UInv, Resolve_Insert, ResolvingOK, QueriesOK
<1>2. /\ mapcontext_' = [mapcontext_ EXCEPT ![h] = resolving] /\ resolving' = 0
      /\ UNCHANGED <<ev_, lastclient_sin_, host, queries, writes, contexts, destroyed, failed, sent>>
  BY <1>1 DEF Resolve_Insert
<1>3. TypeOK'
  BY <1>1, <1>2 DEF UInv, ContextsMatchQueries, TypeOK
<1>4. ContextsMatchQueries'
  <2>1. ASSUME NEW g \in Hosts, mapcontext_'[g] # 0
        PROVE  mapcontext_'[g] \in queries' /\ host'[mapcontext_'[g]] = g
    <3>1. CASE g = h
      BY <1>1, <1>2, <3>1 DEF UInv, ContextsMatchQueries, TypeOK
    <3>2. CASE g # h
      BY <1>1, <1>2, <2>1, <3>2 DEF UInv, ContextsMatchQueries, TypeOK
    <3> QED BY <3>1, <3>2
  <2>2. ASSUME NEW v \in queries'
        PROVE  mapcontext_'[host'[v]] = v
    <3>1. CASE v = resolving
      BY <1>1, <1>2, <3>1 DEF UInv, ContextsMatchQueries, TypeOK
    <3>2. CASE v # resolving
      <4>1. v \in queries /\ host[v] \in Hosts /\ v # 0 /\ mapcontext_[host[v]] = v
        BY <1>2, <2>2, <3>2 DEF UInv, QueriesOK, ContextsMatchQueries, TypeOK, Writes
      <4>2. host[v] # h
        BY <1>1, <4>1
      <4> QED BY <1>1, <1>2, <4>1, <4>2 DEF UInv, ContextsMatchQueries, TypeOK
    <3> QED BY <3>1, <3>2
  <2> QED BY <1>2, <1>3, <2>1, <2>2 DEF UInv, ContextsMatchQueries
<1>5. ResolvingOK' /\ QueriesOK' /\ SentOK' /\ MemoryOK'
  BY <1>2 DEF UInv, ResolvingOK, QueriesOK, SentOK, MemoryOK
<1> QED BY <1>4, <1>5 DEF UInv

(* The end of the socket. *)
LEMMA DestroyStep ==
  ASSUME Orderly, UInv, Destroy
  PROVE  UInv'
<1> USE UdpAssumption
<1>1. /\ destroyed' = TRUE /\ ev_' = FALSE /\ queries' = {} /\ resolving = 0
      /\ mapcontext_' = [h \in Hosts |-> 0]
      /\ UNCHANGED <<lastclient_sin_, host, resolving, writes, contexts, failed, sent>>
  BY DEF Destroy, Unlocked
<1>2. TypeOK'
  <2>1. mapcontext_' \in [Hosts -> 0 .. MaxWrites]
    BY <1>1
  <2>2. ev_' \in BOOLEAN /\ destroyed' \in BOOLEAN /\ queries' \subseteq Writes
    BY <1>1
  <2> QED BY <1>1, <2>1, <2>2 DEF UInv, ContextsMatchQueries, TypeOK
<1>3. ContextsMatchQueries'
  BY <1>1, <1>2 DEF ContextsMatchQueries
<1>4. ResolvingOK' /\ QueriesOK' /\ SentOK' /\ MemoryOK'
  BY <1>1 DEF UInv, ResolvingOK, QueriesOK, SentOK, MemoryOK
<1> QED BY <1>3, <1>4 DEF UInv

-----------------------------------------------------------------------------
(* Every step keeps the invariant. *)
LEMMA NextUInv ==
  ASSUME Orderly, UInv, [Next]_vars
  PROVE  UInv'
<1>0. ev_ \in BOOLEAN /\ lastclient_sin_ \in Peers \cup {None}
  BY DEF UInv, ContextsMatchQueries, TypeOK
<1>1. ASSUME bind PROVE UInv'
  BY <1>0, <1>1, SocketSteps DEF bind
<1>2. ASSUME close PROVE UInv'
  BY <1>0, <1>2, SocketSteps DEF close
<1>3. ASSUME NEW p \in Peers, event_cb(p) PROVE UInv'
  BY <1>0, <1>3, SocketSteps DEF event_cb
<1>4. ASSUME NEW w \in Writes, Answering(w) PROVE UInv'
  BY <1>4, AnswerStep DEF Answering
<1>5. ASSUME NEW h \in Hosts, WriteTo_Refused(h) PROVE UInv'
  BY <1>5, WriteStep
<1>6. ASSUME NEW h \in Hosts, WriteTo_Query(h) PROVE UInv'
  BY <1>6, QueryStep
<1>7. ASSUME NEW h \in Hosts,
             \E answer \in Answers : \E i \in DOMAIN answer \cup {1} : WriteTo_Immediate(h, answer, i)
      PROVE  UInv'
  BY <1>7, WriteStep
<1>8. ASSUME UNCHANGED vars PROVE UInv'
  BY <1>0, <1>8, SocketSteps DEF vars
<1> QED BY <1>1, <1>2, <1>3, <1>4, <1>5, <1>6, <1>7, <1>8, InsertStep, DestroyStep DEF Next

(* UInv holds in every state. *)
LEMMA AlwaysUInv ==
  ASSUME Orderly
  PROVE  Spec => []UInv
<1>1. UInv /\ [Next]_vars => UInv'
  BY NextUInv
<1> QED BY <1>1, InitUInv, PTL DEF Spec

(* mapcontext_ holds exactly the queries under way (resolve, its callback   *)
(* and cleanUp of the resolver), and none outlives the socket.              *)
THEOREM ContextsAlwaysMatch ==
  ASSUME Orderly
  PROVE  Spec => []ContextsMatchQueries
<1>1. UInv => ContextsMatchQueries
  BY DEF UInv
<1> QED BY <1>1, AlwaysUInv, PTL

(* A datagram leaves at most once and its memory is freed with its query    *)
(* (onDnsResolveResult, writeTo).                                           *)
THEOREM DatagramsLeaveOnce ==
  ASSUME Orderly
  PROVE  Spec => []DatagramOnce
<1>1. UInv => DatagramOnce
  BY DEF UInv, SentOK, MemoryOK, DatagramOnce
<1> QED BY <1>1, AlwaysUInv, PTL
=============================================================================
