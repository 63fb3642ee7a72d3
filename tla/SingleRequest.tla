---------------------------- MODULE SingleRequest ----------------------------
(***************************************************************************)
(* What an HttpClient promises its EventHandler (HttpClient.h): one        *)
(* request at a time, any number of ReceivedChunked while it is under way, *)
(* and then exactly one Response or Error.  A connection timeout is        *)
(* reported only before data has come, a response error only after it.     *)
(***************************************************************************)
EXTENDS Naturals, Sequences

VARIABLES stage,   \* "idle", "requesting" or "receiving"
          answers, \* the outcomes so far, in order
          gone     \* the client has been destroyed

svars == <<stage, answers, gone>>

Outcomes == {"response", "timeout", "error", "canceled"}

SInit == stage = "idle" /\ answers = <<>> /\ gone = FALSE

SRequest == /\ stage = "idle" /\ ~ gone
            /\ stage' = "requesting" /\ UNCHANGED <<answers, gone>>

SChunk == /\ stage # "idle" /\ ~ gone
          /\ stage' = "receiving" /\ UNCHANGED <<answers, gone>>

SAnswer(o) ==
  /\ stage # "idle" /\ ~ gone
  /\ o = "timeout" => stage = "requesting"
  /\ o = "error" => stage = "receiving"
  /\ stage' = "idle" /\ answers' = Append(answers, o)
  /\ UNCHANGED gone

(* The handler hears nothing of a destroyed client. *)
SDestroy == ~ gone /\ gone' = TRUE /\ stage' = "idle" /\ UNCHANGED answers

Answering == \E o \in Outcomes : SAnswer(o)
SNext == SRequest \/ SChunk \/ SDestroy \/ Answering

SSpec == SInit /\ [][SNext]_svars /\ WF_svars(Answering)
=============================================================================
