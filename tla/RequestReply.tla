---------------------------- MODULE RequestReply ----------------------------
(***************************************************************************)
(* What client.Client promises the goroutines that call Get and SetC:      *)
(* requests are served one at a time, each is numbered when it is opened,  *)
(* and it ends either in an error or in an answer to that very request.    *)
(* A TID is 16 bits wide, so the promise about answers is the one TIDs can *)
(* keep: an answer that is not the request's own was meant for a request   *)
(* at least Window requests older.                                         *)
(***************************************************************************)
EXTENDS Naturals

CONSTANTS Callers,   \* the goroutines that use the client
          Window     \* number of distinct TIDs

VARIABLES phase,     \* phase[c] of the call that c is making
          serial,    \* number of requests opened so far
          num,       \* num[c]: the number of c's current request
          answer     \* answer[c]: the request whose answer c got, 0 for an error

vars == <<phase, serial, num, answer>>

Init == /\ phase = [c \in Callers |-> "idle"]
        /\ serial = 0
        /\ num = [c \in Callers |-> 0]
        /\ answer = [c \in Callers |-> 0]

Call(c) == /\ phase[c] = "idle"
           /\ phase' = [phase EXCEPT ![c] = "queued"]
           /\ answer' = [answer EXCEPT ![c] = 0]
           /\ UNCHANGED <<serial, num>>

(* Nobody else's request is open or still to be returned. *)
Open(c) == /\ phase[c] = "queued"
           /\ \A d \in Callers : phase[d] \in {"idle", "queued"}
           /\ phase' = [phase EXCEPT ![c] = "open"]
           /\ serial' = serial + 1
           /\ num' = [num EXCEPT ![c] = serial + 1]
           /\ UNCHANGED answer

Answer(c) == /\ phase[c] = "open"
             /\ \E q \in 1..num[c] :
                   /\ q = num[c] \/ num[c] - q >= Window
                   /\ answer' = [answer EXCEPT ![c] = q]
             /\ phase' = [phase EXCEPT ![c] = "done"]
             /\ UNCHANGED <<serial, num>>

Fail(c) == /\ phase[c] = "open"
           /\ phase' = [phase EXCEPT ![c] = "done"]
           /\ UNCHANGED <<serial, num, answer>>

Return(c) == /\ phase[c] \in {"queued", "done"}
             /\ phase' = [phase EXCEPT ![c] = "idle"]
             /\ UNCHANGED <<serial, num, answer>>

Next == \E c \in Callers : Call(c) \/ Open(c) \/ Answer(c) \/ Fail(c) \/ Return(c)

Spec == Init /\ [][Next]_vars
=============================================================================
