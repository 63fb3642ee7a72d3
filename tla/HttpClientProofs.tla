-------------------------- MODULE HttpClientProofs --------------------------
(***************************************************************************)
(* Proofs about HttpClient, for any number of requests and of pieces of a  *)
(* response.  As in the model-checked instance, evhttp_make_request starts *)
(* what it is given, and the handler of Canceled does not make a request.  *)
(***************************************************************************)
EXTENDS HttpClient, SequenceTheorems, TLAPS

Pieces == Seq(Nat \X Nat)

(* The types of the data that TypeOK only bounds. *)
DataOK ==
  /\ received \in Pieces /\ responseBody_ \in Pieces
  /\ answers \in Seq(S!Outcomes)
  /\ canceling \in BOOLEAN /\ destroyed \in BOOLEAN
  /\ state_ \in States
  /\ requests \in 0 .. MaxRequests /\ uri_ \in 0 .. MaxRequests
  /\ evhttp \in 0 .. MaxRequests /\ chunks \in 0 .. MaxChunks
  /\ Len(responseBody_) <= MaxChunks
  /\ responseCode_ \in {"ok", "other"} /\ response \in Nat \X Nat

(* All handles are there, or none is. *)
AllHandles == /\ req_ = TRUE /\ evcon_ = TRUE /\ evuri_ = TRUE
              /\ dnsbase_ = TRUE /\ responsebuffer_ = TRUE
NoHandles == /\ req_ = FALSE /\ evcon_ = FALSE /\ evuri_ = FALSE
             /\ dnsbase_ = FALSE /\ responsebuffer_ = FALSE

(* A request is under way, in the client and in libevent, or none is; the   *)
(* second is the case inside of the handler of Canceled and after the end.  *)
Busy == state_ \in {"Requesting", "ReceivingResponse"} /\ AllHandles /\ evhttp # 0
Quiet == state_ = "Prepare" /\ NoHandles /\ evhttp = 0
Phase == Quiet \/ (Busy /\ canceling = FALSE /\ destroyed = FALSE)

(* A request adds one element to what the last caller has given. *)
Parameter == {"user", "uri"} \X Nat
Params == param_ \in Seq(Parameter) /\ Len(param_) <= requests + 1

(* The inductive invariant. *)
HInv == DataOK /\ Phase /\ Params /\ BodyIsWhole

(* The case that is proved about. *)
Orderly == StartResults = {"started"} /\ RequestInCanceled = FALSE

-----------------------------------------------------------------------------
(* The initial state satisfies the invariant. *)
LEMMA InitHInv == Init => HInv
<1> SUFFICES ASSUME Init PROVE HInv
  OBVIOUS
<1>1. DataOK
  <2>1. <<>> \in Pieces /\ <<>> \in Seq(S!Outcomes) /\ Len(<<>>) = 0
    BY EmptySeq DEF Pieces
  <2>2. /\ received = <<>> /\ responseBody_ = <<>> /\ answers = <<>> /\ state_ \in States
        /\ canceling \in BOOLEAN /\ destroyed \in BOOLEAN
    BY DEF Init, States
  <2>3. /\ requests = 0 /\ uri_ = 0 /\ evhttp = 0 /\ chunks = 0
        /\ responseCode_ = "other" /\ response = <<0, 0>>
    BY DEF Init
  <2>4. 0 \in 0 .. MaxRequests /\ 0 \in 0 .. MaxChunks /\ 0 <= MaxChunks
    BY HttpAssumption
  <2> QED BY <2>1, <2>2, <2>3, <2>4 DEF DataOK
<1>2. Phase
  BY DEF Init, Phase, Quiet, NoHandles
<1>3. Params
  <2>1. param_ = <<>> /\ requests = 0
    BY DEF Init
  <2>2. <<>> \in Seq(Parameter) /\ Len(<<>>) = 0
    BY EmptySeq
  <2> QED BY <2>1, <2>2 DEF Params
<1>4. BodyIsWhole
  BY DEF Init, BodyIsWhole
<1> QED BY <1>1, <1>2, <1>3, <1>4 DEF HInv

(* What cleanUp leaves behind satisfies the invariant, if the state is      *)
(* Prepare and the other data keep their types.                             *)
LEMMA AfterCleanUp ==
  ASSUME HInv, cleanUp, state_' = "Prepare", UNCHANGED settings, requests' = requests,
         \/ UNCHANGED lastResponse
         \/ responseCode_' = "other" /\ responseBody_' = responseBody_ /\ response' = <<evhttp, chunks>>
         \/ responseCode_' = "ok" /\ responseBody_' = received /\ response' = <<evhttp, chunks>>,
         answers' \in Seq(S!Outcomes), canceling' \in BOOLEAN, destroyed' \in BOOLEAN
  PROVE HInv'
<1>1. DataOK'
  BY HttpAssumption DEF HInv, DataOK, cleanUp, settings, lastResponse, Pieces, States, BodyIsWhole
<1>2. Phase'
  BY DEF cleanUp, Phase, Quiet, NoHandles
<1>3. Params'
  BY DEF HInv, Params, settings
<1>4. BodyIsWhole'
  <2>1. ASSUME responseBody_' = received, response' = <<evhttp, chunks>>
        PROVE  /\ Len(responseBody_') = response'[2]
               /\ \A i \in DOMAIN responseBody_' : responseBody_'[i] = <<response'[1], i>>
    <3>1. response'[1] = evhttp /\ response'[2] = chunks
      BY <2>1
    <3> QED BY <2>1, <3>1 DEF HInv, BodyIsWhole
  <2>2. (responseCode_ = "ok" => /\ Len(responseBody_) = response[2]
                                /\ \A i \in DOMAIN responseBody_ : responseBody_[i] = <<response[1], i>>)'
    <3>1. CASE UNCHANGED lastResponse
      BY <3>1 DEF HInv, BodyIsWhole, lastResponse
    <3>2. CASE responseCode_' = "other"
      BY <3>2
    <3> QED BY <2>1, <3>1, <3>2
  <2>3. received' = <<>> /\ chunks' = 0
    BY DEF cleanUp
  <2>4. (\A i \in DOMAIN received : received[i] = <<evhttp, i>>)' /\ Len(received') = chunks'
    BY <2>3
  <2> QED BY <2>2, <2>4 DEF BodyIsWhole
<1> QED BY <1>1, <1>2, <1>3, <1>4 DEF HInv

(* A request that is started satisfies it too. *)
LEMMA AfterRequest ==
  ASSUME HInv, MayRequest, Orderly, NEW u \in 1 .. MaxRequests, NEW given,
         requestInternal(u, given, "started"), uri_' = u
  PROVE HInv'
<1> USE HttpAssumption
<1>1. requests + 1 \in 1 .. MaxRequests /\ canceling = FALSE /\ destroyed = FALSE
  BY DEF HInv, DataOK, MayRequest, Orderly
<1>2. DataOK'
  BY <1>1 DEF HInv, DataOK, requestInternal, Pieces, States, lastResponse
<1>3. Phase'
  BY <1>1 DEF HInv, DataOK, requestInternal, Phase, Busy, AllHandles
<1>4. Params'
  <2>1. <<"user", u>> \in Parameter /\ <<"uri", u>> \in Parameter
    BY DEF Parameter
  <2>2. PICK old \in Seq(Parameter) : param_' = Append(old, <<"uri", u>>) /\ Len(old) <= requests + 1
    <3>1. CASE given
      <4>1. <<<<"user", u>>>> \in Seq(Parameter) /\ Len(<<<<"user", u>>>>) = 1
        BY <2>1
      <4>2. 1 <= requests + 1
        BY <1>1 DEF HInv, DataOK
      <4> QED BY <3>1, <4>1, <4>2 DEF requestInternal, parseParameter
    <3>2. CASE ~ given
      BY <3>2 DEF requestInternal, parseParameter, HInv, Params
    <3> QED BY <3>1, <3>2
  <2>3. param_' \in Seq(Parameter) /\ Len(param_') = Len(old) + 1 /\ Len(old) \in Nat
    BY <2>1, <2>2
  <2>4. requests' = requests + 1 /\ requests \in Nat
    BY DEF requestInternal, HInv, DataOK
  <2> QED BY <2>2, <2>3, <2>4 DEF Params
<1>5. BodyIsWhole'
  BY DEF HInv, requestInternal, BodyIsWhole, lastResponse
<1> QED BY <1>2, <1>3, <1>4, <1>5 DEF HInv

(* Another piece is put behind the pieces of the same response. *)
LEMMA AfterChunk ==
  ASSUME HInv, Chunked
  PROVE HInv'
<1> USE HttpAssumption
<1>1. Busy
  BY DEF HInv, Phase, Quiet, Chunked
<1>2. /\ received' \in Pieces /\ Len(received') = Len(received) + 1
      /\ \A i \in 1 .. Len(received) : received'[i] = received[i]
      /\ received'[Len(received) + 1] = <<evhttp, chunks + 1>>
  BY DEF HInv, DataOK, Pieces, Chunked
<1>3. DataOK'
  BY <1>2 DEF HInv, DataOK, Chunked, States, settings, lastResponse
<1>4. Phase'
  BY <1>1 DEF HInv, Phase, Quiet, Busy, AllHandles, Chunked, handles
<1>5. Params'
  BY DEF HInv, Params, Chunked, settings
<1>6. BodyIsWhole'
  BY <1>2 DEF HInv, DataOK, Pieces, BodyIsWhole, Chunked, lastResponse
<1> QED BY <1>3, <1>4, <1>5, <1>6 DEF HInv

(* Every step keeps the invariant. *)
LEMMA NextHInv ==
  ASSUME Orderly, HInv, [Next]_vars
  PROVE  HInv'
<1> USE HttpAssumption
<1>1. ASSUME NEW given \in BOOLEAN, NEW result \in StartResults, Request(given, result)
      PROVE  HInv'
  <2>1. result = "started"
    BY <1>1 DEF Orderly
  <2>2. requests + 1 \in 1 .. MaxRequests
    BY <1>1 DEF HInv, DataOK, Request, MayRequest
  <2> QED BY <1>1, <2>1, <2>2, AfterRequest DEF Request
<1>2. ASSUME NEW result \in StartResults, RequestAgain(result)
      PROVE  HInv'
  <2>1. result = "started"
    BY <1>2 DEF Orderly
  <2>2. uri_ \in 1 .. MaxRequests
    BY <1>2 DEF RequestAgain, HInv, DataOK
  <2> QED BY <1>2, <2>1, <2>2, AfterRequest DEF RequestAgain
<1>3. ASSUME Chunked PROVE HInv'
  BY <1>3, AfterChunk
<1>4. ASSUME NEW ok \in BOOLEAN, Done(ok) PROVE HInv'
  <2>1. Append(answers, "response") \in Seq(S!Outcomes)
    BY DEF HInv, DataOK, S!Outcomes
  <2> QED BY <1>4, <2>1, AfterCleanUp DEF Done, HInv, DataOK
<1>5. ASSUME Failed PROVE HInv'
  <2>1. Append(answers, ErrorCode) \in Seq(S!Outcomes)
    BY DEF HInv, DataOK, S!Outcomes, ErrorCode
  <2> QED BY <1>5, <2>1, AfterCleanUp DEF Failed, HInv, DataOK
<1>6. ASSUME Cancel PROVE HInv'
  <2>1. Append(answers, "canceled") \in Seq(S!Outcomes)
    BY DEF HInv, DataOK, S!Outcomes
  <2> QED BY <1>6, <2>1, AfterCleanUp DEF Cancel, HInv, DataOK
<1>7. ASSUME Cancel_Return PROVE HInv'
  <2>1. Quiet
    BY <1>7 DEF HInv, Phase, Cancel_Return
  <2>2. DataOK' /\ Params' /\ BodyIsWhole'
    BY <1>7 DEF HInv, DataOK, Params, BodyIsWhole, Cancel_Return, settings, lastResponse, States
  <2>3. Phase'
    BY <1>7, <2>1 DEF Phase, Quiet, NoHandles, Cancel_Return, handles
  <2> QED BY <2>2, <2>3 DEF HInv
<1>8. ASSUME Destroy PROVE HInv'
  BY <1>8, AfterCleanUp DEF Destroy, HInv, DataOK
<1>9. ASSUME UNCHANGED vars PROVE HInv'
  <2>1. DataOK' /\ Params' /\ BodyIsWhole'
    BY <1>9 DEF HInv, DataOK, Params, BodyIsWhole, vars, settings, lastResponse
  <2>2. Phase'
    BY <1>9 DEF HInv, Phase, Quiet, Busy, AllHandles, NoHandles, vars, handles
  <2> QED BY <2>1, <2>2 DEF HInv
<1> QED BY <1>1, <1>2, <1>3, <1>4, <1>5, <1>6, <1>7, <1>8, <1>9 DEF Next, Requests, Callbacks

(* HInv holds in every state. *)
LEMMA AlwaysHInv ==
  ASSUME Orderly
  PROVE  Spec => []HInv
<1>1. HInv /\ [Next]_vars => HInv'
  BY NextHInv
<1> QED BY <1>1, InitHInv, PTL DEF Spec

-----------------------------------------------------------------------------
(* The handles of the client, libevent's request and the state agree        *)
(* (cleanUp, startRequest, the callbacks): nothing leaks, nothing is freed  *)
(* twice, and a destroyed client is not called back.                        *)
THEOREM HandlesAlwaysMatch ==
  ASSUME Orderly
  PROVE  Spec => []HandlesMatchRequest
<1>1. HInv => HandlesMatchRequest
  <2> SUFFICES ASSUME HInv PROVE HandlesMatchRequest
    OBVIOUS
  <2>1. Len(received) <= MaxChunks
    BY HttpAssumption DEF HInv, DataOK, BodyIsWhole
  <2>2. Len(param_) <= requests + 1
    BY DEF HInv, Params
  <2>3. <<req_, evcon_, evuri_, dnsbase_, responsebuffer_>>
          \in BOOLEAN \X BOOLEAN \X BOOLEAN \X BOOLEAN \X BOOLEAN
    BY DEF HInv, Phase, Busy, Quiet, AllHandles, NoHandles
  <2>4. TypeOK
    BY <2>1, <2>2, <2>3 DEF TypeOK, HInv, DataOK
  <2>5. CASE Quiet
    BY <2>4, <2>5 DEF HandlesMatchRequest, Quiet, NoHandles
  <2>6. CASE Busy /\ destroyed = FALSE
    BY <2>4, <2>6 DEF HandlesMatchRequest, Busy, AllHandles
  <2> QED BY <2>5, <2>6 DEF HInv, Phase
<1> QED BY <1>1, AlwaysHInv, PTL

(* After a response with code 200 the body is that of this response, whole  *)
(* and in order, whatever was cancelled or failed before                    *)
(* (fire_onHttpClient_ReceivedChunked, makeResultBody, cleanUp).            *)
THEOREM BodiesAreWhole ==
  ASSUME Orderly
  PROVE  Spec => []BodyIsWhole
<1>1. HInv => BodyIsWhole
  BY DEF HInv
<1> QED BY <1>1, AlwaysHInv, PTL

(* What the EventHandler sees is a behaviour of SingleRequest, as far as    *)
(* safety goes: one request at a time, and one outcome, of the right kind,  *)
(* for each (request, http_done_cb, cancelRequest).                         *)
THEOREM OneOutcomeEach ==
  ASSUME Orderly
  PROVE  Spec => S!SInit /\ [][S!SNext]_(S!svars)
<1>1. Init => S!SInit
  BY DEF Init, S!SInit, Stage
<1>2. ASSUME HInv, [Next]_vars PROVE [S!SNext]_(S!svars)
  <2>1. ASSUME NEW given \in BOOLEAN, NEW result \in StartResults,
               Request(given, result) \/ RequestAgain(result)
        PROVE  S!SRequest
    <3>1. result = "started" /\ MayRequest /\ state_' = "Requesting"
      BY <2>1 DEF Orderly, Request, RequestAgain, requestInternal
    <3>2. answers' = answers /\ destroyed' = destroyed
      BY <2>1, <3>1 DEF Request, RequestAgain, requestInternal
    <3> QED BY <3>1, <3>2 DEF S!SRequest, Stage, MayRequest
  <2>2. ASSUME evhttp # 0
        PROVE  Stage \in {"requesting", "receiving"} /\ destroyed = FALSE
    BY <1>2, <2>2 DEF HInv, Phase, Quiet, Busy, Stage
  <2>3. ASSUME Chunked PROVE S!SChunk
    BY <2>2, <2>3 DEF Chunked, S!SChunk, Stage
  <2>4. ASSUME NEW ok \in BOOLEAN, Done(ok) PROVE S!Answering
    BY <2>2, <2>4 DEF Done, S!Answering, S!SAnswer, S!Outcomes, Stage
  <2>5. ASSUME Failed PROVE S!Answering
    BY <1>2, <2>2, <2>5 DEF HInv, Phase, Quiet, Busy, Failed, ErrorCode, S!Answering, S!SAnswer, S!Outcomes, Stage
  <2>6. ASSUME Cancel PROVE S!Answering
    BY <1>2, <2>2, <2>6 DEF HInv, Phase, Quiet, Busy, NoHandles, Cancel, S!Answering, S!SAnswer, S!Outcomes, Stage
  <2>7. ASSUME Cancel_Return PROVE UNCHANGED S!svars
    BY <1>2, <2>7 DEF HInv, Phase, Cancel_Return, Quiet, S!svars, Stage
  <2>8. ASSUME Destroy PROVE S!SDestroy
    BY <2>8 DEF Destroy, S!SDestroy, Stage
  <2>9. ASSUME UNCHANGED vars PROVE UNCHANGED S!svars
    BY <2>9 DEF vars, S!svars, Stage
  <2> QED BY <1>2, <2>1, <2>3, <2>4, <2>5, <2>6, <2>7, <2>8, <2>9
          DEF Next, Requests, Callbacks, S!SNext
<1> QED BY <1>1, <1>2, AlwaysHInv, PTL DEF Spec
=============================================================================
