----------------------------- MODULE HttpClient -----------------------------
(***************************************************************************)
(* An HttpClient, LibeventHttpClientImpl.h, on the thread of its loop: the *)
(* handles it keeps, request, cancelRequest and the callbacks of libevent. *)
(* A handler may call request and cancelRequest; since the client has been *)
(* cleaned up when the handler of an outcome is called, that is a later    *)
(* step here, except inside of cancelRequest, which goes on afterwards.    *)
(***************************************************************************)
EXTENDS Naturals, Sequences

CONSTANTS MaxRequests,     \* bound: requests made
          MaxChunks,       \* bound: pieces of one response
          StartResults,    \* what evhttp_make_request does, see Starts
          RequestInCanceled \* the handler of Canceled may make a request

(* "started"; "called back": it fails and has called http_done_cb(NULL);    *)
(* "failed": it returns an error, which is ignored, and never calls back.   *)
Starts == {"started", "called back", "failed"}

ASSUME HttpAssumption ==
  /\ MaxRequests \in Nat /\ MaxChunks \in Nat /\ StartResults \subseteq Starts
  /\ RequestInCanceled \in BOOLEAN

VARIABLES
  state_,         \* Prepare, Requesting, ReceivingResponse
  req_, evcon_, evuri_, dnsbase_, responsebuffer_, \* the handle is not NULL
  received,       \* what responsebuffer_ holds: pieces <<request, number>>
  responseCode_,  \* of the last response: "ok" is 200, "other" all else
  responseBody_,  \* what responsebuffer_ held at the last code 200
  uri_,           \* the request() that uri_ and paramTemp_ come from, or 0
  paramTemp_,     \* paramTemp_ is not NULL
  param_,         \* where the elements of param_ come from
  evhttp,         \* libevent's request with this client: its number, or 0
  chunks,         \* pieces of the response that libevent has read
  canceling,      \* inside of cancelRequest, after the handler was called
  destroyed,
  requests,       \* history: requests made
  response,       \* history: the last response, <<request, pieces>>
  answers         \* history: the outcomes told to the handler

handles == <<req_, evcon_, evuri_, dnsbase_, responsebuffer_>>
settings == <<uri_, paramTemp_, param_>>
lastResponse == <<responseCode_, responseBody_, response>>
vars == <<state_, handles, received, lastResponse, settings, evhttp, chunks,
          canceling, destroyed, requests, answers>>

States == {"Prepare", "Requesting", "ReceivingResponse"}

Init ==
  /\ state_ = "Prepare"
  /\ req_ = FALSE /\ evcon_ = FALSE /\ evuri_ = FALSE /\ dnsbase_ = FALSE
  /\ responsebuffer_ = FALSE /\ received = <<>>
  /\ responseCode_ = "other" /\ responseBody_ = <<>> /\ response = <<0, 0>>
  /\ uri_ = 0 /\ paramTemp_ = FALSE /\ param_ = <<>>
  /\ evhttp = 0 /\ chunks = 0 /\ canceling = FALSE /\ destroyed = FALSE
  /\ requests = 0 /\ answers = <<>>

-----------------------------------------------------------------------------
(* cleanUp.  Freeing the connection frees the request that libevent still   *)
(* has, and there is no callback for it.  The mutation keeps the connection.*)
cleanUp_KeepsConnection ==
  /\ req_' = FALSE /\ evuri_' = FALSE /\ dnsbase_' = FALSE
  /\ responsebuffer_' = FALSE /\ received' = <<>>
  /\ UNCHANGED <<evcon_, evhttp, chunks>>

cleanUp ==
  /\ req_' = FALSE /\ evcon_' = FALSE /\ evuri_' = FALSE /\ dnsbase_' = FALSE
  /\ responsebuffer_' = FALSE /\ received' = <<>>
  /\ evhttp' = 0 /\ chunks' = 0

(* parseParameter: the parameters of the caller replace those of earlier    *)
(* requests, those of the uri are added.  Without any from the caller the   *)
(* old ones stay and are sent again.                                        *)
parseParameter(u, given) ==
  Append(IF given THEN <<<<"user", u>>>> ELSE param_, <<"uri", u>>)

(* requestInternal: all handles are made, and startRequest sets the state   *)
(* after evhttp_make_request, whatever that did.  A failure that has called *)
(* back has cleaned up; one that has not leaves the client waiting.         *)
requestInternal(u, given, result) ==
  /\ requests' = requests + 1
  /\ param_' = parseParameter(u, given)
  /\ IF result = "called back"
     THEN /\ cleanUp
          /\ answers' = Append(answers, "error")
     ELSE /\ req_' = TRUE /\ evcon_' = TRUE /\ evuri_' = TRUE /\ dnsbase_' = TRUE
          /\ responsebuffer_' = TRUE /\ received' = <<>>
          /\ evhttp' = IF result = "started" THEN requests + 1 ELSE 0
          /\ chunks' = 0 /\ UNCHANGED answers
  /\ state_' = "Requesting"
  /\ UNCHANGED <<lastResponse, canceling, destroyed>>

(* Otherwise request throws. *)
MayRequest == /\ state_ = "Prepare" /\ ~ destroyed /\ requests < MaxRequests
              /\ canceling => RequestInCanceled

(* request(method, uri, param, timeout) and request(), which uses what is   *)
(* set.                                                                     *)
Request(given, result) ==
  /\ MayRequest
  /\ uri_' = requests + 1 /\ paramTemp_' = given
  /\ requestInternal(requests + 1, given, result)

RequestAgain(result) ==
  /\ MayRequest /\ uri_ # 0
  /\ requestInternal(uri_, paramTemp_, result)
  /\ UNCHANGED <<uri_, paramTemp_>>

-----------------------------------------------------------------------------
(* http_chuncked_cb.  The mutation loses the earlier pieces. *)
Chunked_Replaces ==
  /\ evhttp # 0 /\ chunks < MaxChunks /\ ~ canceling
  /\ chunks' = chunks + 1
  /\ state_' = "ReceivingResponse"
  /\ received' = <<<<evhttp, chunks + 1>>>>
  /\ UNCHANGED <<handles, lastResponse, settings, evhttp, canceling, destroyed, requests, answers>>

Chunked ==
  /\ evhttp # 0 /\ chunks < MaxChunks /\ ~ canceling
  /\ chunks' = chunks + 1
  /\ state_' = "ReceivingResponse"
  /\ received' = Append(received, <<evhttp, chunks + 1>>)
  /\ UNCHANGED <<handles, lastResponse, settings, evhttp, canceling, destroyed, requests, answers>>

(* http_done_cb with a request: the response is complete, or the connection *)
(* was refused, which gives a response with the code 0.                     *)
Done(ok) ==
  /\ evhttp # 0 /\ ~ canceling
  /\ responseCode_' = IF ok THEN "ok" ELSE "other"
  /\ responseBody_' = IF ok THEN received ELSE responseBody_
  /\ response' = <<evhttp, chunks>>
  /\ cleanUp /\ state_' = "Prepare"
  /\ answers' = Append(answers, "response")
  /\ UNCHANGED <<settings, canceling, destroyed, requests>>

(* http_done_cb without a request: the connection failed or timed out. *)
ErrorCode == IF state_ = "Requesting" THEN "timeout" ELSE "error"
Failed ==
  /\ evhttp # 0 /\ ~ canceling
  /\ answers' = Append(answers, ErrorCode)
  /\ cleanUp /\ state_' = "Prepare"
  /\ UNCHANGED <<lastResponse, settings, canceling, destroyed, requests>>

(* cancelRequest: evhttp_cancel_request does not call back; cleanUp, the    *)
(* handler, and then once more the state.  The mutation is a cancel that    *)
(* leaves the answer to libevent.                                           *)
Cancel_Silent ==
  /\ req_ /\ ~ canceling /\ ~ destroyed
  /\ cleanUp /\ state_' = "Prepare" /\ canceling' = TRUE
  /\ UNCHANGED <<answers, lastResponse, settings, destroyed, requests>>

Cancel ==
  /\ req_ /\ ~ canceling /\ ~ destroyed
  /\ cleanUp /\ state_' = "Prepare" /\ canceling' = TRUE
  /\ answers' = Append(answers, "canceled")
  /\ UNCHANGED <<lastResponse, settings, destroyed, requests>>

Cancel_Return ==
  /\ canceling
  /\ canceling' = FALSE /\ state_' = "Prepare"
  /\ UNCHANGED <<handles, received, lastResponse, settings, evhttp, chunks, destroyed, requests,
                 answers>>

(* ~LibeventHttpClientImpl, of a client that waits for nothing or does. *)
Destroy ==
  /\ ~ destroyed /\ ~ canceling
  /\ destroyed' = TRUE /\ cleanUp /\ state_' = "Prepare"
  /\ UNCHANGED <<lastResponse, settings, canceling, requests, answers>>

-----------------------------------------------------------------------------
Requests == \/ \E given \in BOOLEAN, result \in StartResults : Request(given, result)
            \/ \E result \in StartResults : RequestAgain(result)
Callbacks == Chunked \/ Failed \/ \E ok \in BOOLEAN : Done(ok)

Next == Requests \/ Callbacks \/ Cancel \/ Cancel_Return \/ Destroy

(* libevent answers a request: the response, an error or the timeout that   *)
(* every connection has.  Nobody has to make requests or to cancel.         *)
Spec == Init /\ [][Next]_vars /\ WF_vars(Callbacks) /\ WF_vars(Cancel_Return)

-----------------------------------------------------------------------------
(* The type invariant. *)
TypeOK ==
  /\ state_ \in States
  /\ <<req_, evcon_, evuri_, dnsbase_, responsebuffer_>> \in BOOLEAN \X BOOLEAN \X BOOLEAN \X BOOLEAN \X BOOLEAN
  /\ uri_ \in 0 .. MaxRequests /\ requests \in 0 .. MaxRequests
  /\ evhttp \in 0 .. MaxRequests /\ chunks \in 0 .. MaxChunks
  /\ Len(received) <= MaxChunks /\ Len(responseBody_) <= MaxChunks
  /\ responseCode_ \in {"ok", "other"} /\ Len(param_) <= requests + 1

(* The client has its handles, and libevent a request that calls it back,   *)
(* exactly while the state says that a request is under way: nothing leaks, *)
(* nothing is freed twice, and nothing calls back into a client that was    *)
(* destroyed.                                                               *)
HandlesMatchRequest ==
  LET busy == state_ # "Prepare"
  IN /\ TypeOK
     /\ req_ = busy /\ evcon_ = busy /\ evuri_ = busy /\ dnsbase_ = busy
     /\ responsebuffer_ = busy /\ (evhttp # 0) = busy
     /\ destroyed => ~ busy

(* responsebuffer_ holds the pieces of the response under way, all of them  *)
(* and in order, also when earlier requests were cancelled halfway, and     *)
(* after a response with code 200 responseBody() is the whole body of that  *)
(* response.  After another code it is still the body of an earlier one.    *)
BodyIsWhole ==
  /\ \A i \in DOMAIN received : received[i] = <<evhttp, i>>
  /\ Len(received) = chunks
  /\ responseCode_ = "ok" =>
       /\ Len(responseBody_) = response[2]
       /\ \A i \in DOMAIN responseBody_ : responseBody_[i] = <<response[1], i>>

(* What the EventHandler sees is a behaviour of SingleRequest: every        *)
(* request has exactly one outcome, the right one, unless the client is     *)
(* destroyed, and nothing is reported before or after.                      *)
Stage == CASE state_ = "Prepare" -> "idle"
           [] state_ = "Requesting" -> "requesting"
           [] state_ = "ReceivingResponse" -> "receiving"
S == INSTANCE SingleRequest WITH stage <- Stage, answers <- answers, gone <- destroyed
ImplementsSingleRequest == S!SSpec

=============================================================================
