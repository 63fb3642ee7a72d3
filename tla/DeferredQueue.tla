---------------------------- MODULE DeferredQueue ----------------------------
(***************************************************************************)
(* What deferredCall promises (IOService.h, DeferredCaller.h): a call that *)
(* an event loop has accepted is executed by that loop's thread, each call *)
(* once, in the order in which the calls were accepted.                    *)
(***************************************************************************)
EXTENDS Naturals, Sequences

CONSTANTS Loops,    \* the event loops, one IOService each
          Jobs      \* the deferred calls, one element per invocation

VARIABLES accepted, \* accepted[l]: the calls accepted by loop l, in order
          executed  \* executed[l]: the calls loop l has begun to execute

qvars == <<accepted, executed>>

QInit == /\ accepted = [l \in Loops |-> <<>>]
         /\ executed = [l \in Loops |-> <<>>]

(* A caller hands a call over to loop l. *)
Accept(l, j) == /\ accepted' = [accepted EXCEPT ![l] = Append(@, j)]
                /\ UNCHANGED executed

(* Loop l begins the oldest accepted call that it has not begun yet. *)
Execute(l) ==
  /\ Len(executed[l]) < Len(accepted[l])
  /\ executed' = [executed EXCEPT
                    ![l] = Append(@, accepted[l][Len(executed[l]) + 1])]
  /\ UNCHANGED accepted

QNext == \E l \in Loops : Execute(l) \/ \E j \in Jobs : Accept(l, j)

QSpec == QInit /\ [][QNext]_qvars

=============================================================================
