------------------------------ MODULE UdpSocket ------------------------------
(***************************************************************************)
(* A UDP socket, LibeventUdpSocketImpl.h, and the DNSResolver that it      *)
(* makes for datagrams to a host name, LibeventDNSResolverImpl.h.  The     *)
(* datagram waits in a write_context_t for the answer, the query in a      *)
(* dns_context_t, which mapcontext_ keeps by host; both are named by the   *)
(* number of the writeTo that allocated them.                              *)
(***************************************************************************)
EXTENDS Naturals, Sequences, SequencesExt

CONSTANTS Hosts,         \* names to resolve
          Peers,         \* addresses
          MaxWrites,     \* bound: datagrams written to names
          OtherThread,   \* writeTo is called by another thread than the loop's
          None

ASSUME UdpAssumption ==
  /\ MaxWrites \in Nat
  /\ OtherThread \in BOOLEAN
  /\ None \notin Hosts \cup Peers

Writes == 1 .. MaxWrites

VARIABLES
  ev_,            \* the socket is open and its event is added
  lastclient_sin_, \* the sender of the last datagram read, or None
  mapcontext_,    \* the dns_context_t of a host, 0 for none
  host,           \* host_alloc of a write's dns_context_t
  queries,        \* queries that evdns will answer
  resolving,      \* the query that resolve() has still to put into the map, or 0
  writes,         \* number of write_context_t allocated
  contexts,       \* write_context_t not freed
  destroyed,
  failed,         \* assert(ev_) has failed: the program has ended
  sent            \* history: the datagrams sent to a resolved address

resolverVars == <<mapcontext_, host, queries, resolving, writes, contexts>>
vars == <<ev_, lastclient_sin_, resolverVars, destroyed, failed, sent>>

Init ==
  /\ ev_ = FALSE /\ lastclient_sin_ = None
  /\ mapcontext_ = [h \in Hosts |-> 0] /\ host = [w \in Writes |-> None]
  /\ queries = {} /\ resolving = 0 /\ writes = 0 /\ contexts = {}
  /\ destroyed = FALSE /\ failed = FALSE /\ sent = <<>>

-----------------------------------------------------------------------------
(* The socket.  The loop's thread does one thing at a time; another thread  *)
(* inside of resolve() holds the IOService's mutex, which bind and close    *)
(* take and the callbacks do not.                                           *)
Running == ~ destroyed /\ ~ failed
Unlocked == Running /\ resolving = 0
InCallback == Running /\ (resolving = 0 \/ OtherThread)

(* A second bind() replaces ev_, and the first event leaks. *)
bind ==
  /\ Unlocked /\ ev_' = TRUE
  /\ UNCHANGED <<lastclient_sin_, resolverVars, destroyed, failed, sent>>

(* close() leaves the queries under way alone. *)
close ==
  /\ Unlocked /\ ev_' = FALSE
  /\ UNCHANGED <<lastclient_sin_, resolverVars, destroyed, failed, sent>>

(* event_cb: recvfrom and the handler.  write() answers the last sender;    *)
(* like writeTo with an address it is one sendto and changes nothing here.  *)
event_cb(p) ==
  /\ InCallback /\ ev_ /\ lastclient_sin_' = p
  /\ UNCHANGED <<ev_, resolverVars, destroyed, failed, sent>>

-----------------------------------------------------------------------------
(* The answer to a query, onDnsResolveResult: one of the addresses is taken *)
(* by chance; an IPv4 address gets the datagram, an IPv6 address nothing.   *)
(* After close() the assertion of writeTo ends the program instead, and     *)
(* what the callback has still to do makes no difference.  The mutation     *)
(* sends to all of them.                                                    *)
Answers == {<<>>, <<"v4">>, <<"v4", "v4">>, <<"v6", "v4">>}    \* <<>>: an error

Chosen_All(answer, i) == Len(SelectSeq(answer, LAMBDA f : f = "v4"))
Chosen(answer, i) == IF answer # <<>> /\ answer[i] = "v4" THEN 1 ELSE 0

onDnsResolveResult(w, answer, i) ==
  LET n == Chosen(answer, i)
  IN /\ failed' = (n > 0 /\ ~ ev_)
     /\ sent' = IF ev_ THEN sent \o [k \in 1 .. n |-> w] ELSE sent

(* fire_onDnsResolveResult erases the entry of the host after the handler;  *)
(* the mutation leaves it.                                                  *)
Erase_Not(h) == mapcontext_
Erase(h) == [mapcontext_ EXCEPT ![h] = 0]

(* The DNS answers: callback on the loop's thread. *)
DnsCallback(w, answer, i) ==
  /\ ~ failed /\ w \in queries /\ (resolving = 0 \/ OtherThread)
  /\ onDnsResolveResult(w, answer, i)
  /\ mapcontext_' = Erase(host[w])
  /\ queries' = queries \ {w}
  /\ contexts' = contexts \ {w}
  /\ UNCHANGED <<ev_, lastclient_sin_, host, resolving, writes, destroyed>>

(* writeTo, on an open socket, with a host name that is not an address: a   *)
(* query for the same host is under way and the write is refused, ...       *)
CanWriteTo == Unlocked /\ ev_ /\ writes < MaxWrites
WriteTo_Refused(h) ==
  /\ CanWriteTo /\ mapcontext_[h] # 0
  /\ writes' = writes + 1
  /\ UNCHANGED <<ev_, lastclient_sin_, mapcontext_, host, queries, resolving, contexts, destroyed,
                 failed, sent>>

(* ... evdns knows the answer and calls back at once, ...  evdns returns    *)
(* NULL only after it has called back; the mutation is what would happen    *)
(* if it did not, and the datagram were forgotten.                          *)
WriteTo_Immediate_NoResult(h, answer, i) ==
  /\ CanWriteTo /\ mapcontext_[h] = 0
  /\ writes' = writes + 1 /\ contexts' = contexts \cup {writes + 1}
  /\ UNCHANGED <<ev_, lastclient_sin_, mapcontext_, host, queries, resolving, destroyed, failed, sent>>

WriteTo_Immediate(h, answer, i) ==
  /\ CanWriteTo /\ mapcontext_[h] = 0
  /\ writes' = writes + 1
  /\ onDnsResolveResult(writes + 1, answer, i)
  /\ UNCHANGED <<ev_, lastclient_sin_, mapcontext_, host, queries, resolving, contexts, destroyed>>

(* ... or it starts a query, which is put into the map afterwards. *)
WriteTo_Query(h) ==
  LET w == writes + 1
  IN /\ CanWriteTo /\ mapcontext_[h] = 0
     /\ writes' = w /\ contexts' = contexts \cup {w}
     /\ host' = [host EXCEPT ![w] = h]
     /\ queries' = queries \cup {w} /\ resolving' = w
     /\ UNCHANGED <<ev_, lastclient_sin_, mapcontext_, destroyed, failed, sent>>

Resolve_Insert ==
  /\ resolving # 0 /\ ~ failed
  /\ mapcontext_' = [mapcontext_ EXCEPT ![host[resolving]] = IF @ = 0 THEN resolving ELSE @]
  /\ resolving' = 0
  /\ UNCHANGED <<ev_, lastclient_sin_, host, queries, writes, contexts, destroyed, failed, sent>>

(* ~LibeventUdpSocketImpl: close, and cleanUp of the resolver, which takes  *)
(* the queries back without an answer.                                      *)
Destroy ==
  /\ Unlocked /\ destroyed' = TRUE /\ ev_' = FALSE
  /\ queries' = {} /\ mapcontext_' = [h \in Hosts |-> 0]
  /\ UNCHANGED <<lastclient_sin_, host, resolving, writes, contexts, failed, sent>>

-----------------------------------------------------------------------------
Answering(w) == \E answer \in Answers : \E i \in DOMAIN answer \cup {1} : DnsCallback(w, answer, i)

Next ==
  \/ bind \/ close \/ Resolve_Insert \/ Destroy
  \/ \E p \in Peers : event_cb(p)
  \/ \E w \in Writes : Answering(w)
  \/ \E h \in Hosts : WriteTo_Refused(h) \/ WriteTo_Query(h)
  \/ \E h \in Hosts, answer \in Answers : \E i \in DOMAIN answer \cup {1} :
       WriteTo_Immediate(h, answer, i)

(* evdns answers every query, with an error after its timeouts, and         *)
(* resolve() returns.                                                       *)
Spec ==
  /\ Init /\ [][Next]_vars
  /\ \A w \in Writes : WF_vars(Answering(w))
  /\ WF_vars(Resolve_Insert)

-----------------------------------------------------------------------------
TypeOK ==
  /\ ev_ \in BOOLEAN /\ lastclient_sin_ \in Peers \cup {None}
  /\ mapcontext_ \in [Hosts -> 0 .. MaxWrites] /\ host \in [Writes -> Hosts \cup {None}]
  /\ queries \subseteq Writes /\ resolving \in 0 .. MaxWrites
  /\ writes \in 0 .. MaxWrites /\ contexts \subseteq Writes
  /\ destroyed \in BOOLEAN /\ failed \in BOOLEAN

(* mapcontext_ holds exactly the contexts of the queries under way, by host:*)
(* no entry is left of a query that was answered, which would refuse every  *)
(* later writeTo to its host and be freed a second time, and no query can   *)
(* call back into a destroyed resolver.                                     *)
ContextsMatchQueries ==
  /\ TypeOK
  /\ \A h \in Hosts : mapcontext_[h] # 0 => mapcontext_[h] \in queries /\ host[mapcontext_[h]] = h
  /\ \A w \in queries : mapcontext_[host[w]] = w \/ resolving = w
  /\ destroyed => queries = {}

(* A datagram leaves once at most, whatever the answer has to offer, and    *)
(* its memory is kept as long as its query and no longer.                   *)
DatagramOnce == IsInjective(sent) /\ (destroyed \/ contexts = queries)

(* Every datagram written to a name is sent or given up and its memory      *)
(* freed, unless the socket is destroyed or an answer after close() ends    *)
(* the program.                                                             *)
NamedWritesEnd ==
  \A w \in Writes : w \in contexts ~> (w \notin contexts \/ destroyed \/ failed)

=============================================================================
