------------------------------ MODULE GlobalRef ------------------------------
(***************************************************************************)
(* What the C side may do with a JNI global reference: NewGlobalRef makes  *)
(* it, threads call Java methods through it while it is live, and          *)
(* DeleteGlobalRef ends it, once, when nobody is in such a call.           *)
(***************************************************************************)
CONSTANTS Ref, User

VARIABLES
  ref,    \* the life of each reference: "none", "live", "deleted"
  calls   \* the threads that are inside a call through it

Init ==
  /\ ref = [r \in Ref |-> "none"]
  /\ calls = [r \in Ref |-> {}]

New(r) ==
  /\ ref[r] = "none"
  /\ ref' = [ref EXCEPT ![r] = "live"]
  /\ UNCHANGED calls

Enter(u, r) ==
  /\ ref[r] = "live" /\ u \notin calls[r]
  /\ calls' = [calls EXCEPT ![r] = @ \cup {u}]
  /\ UNCHANGED ref

Exit(u, r) ==
  /\ u \in calls[r]
  /\ calls' = [calls EXCEPT ![r] = @ \ {u}]
  /\ UNCHANGED ref

Delete(r) ==
  /\ ref[r] = "live" /\ calls[r] = {}
  /\ ref' = [ref EXCEPT ![r] = "deleted"]
  /\ UNCHANGED calls

Next ==
  \E r \in Ref :
    \/ New(r) \/ Delete(r)
    \/ \E u \in User : Enter(u, r) \/ Exit(u, r)

Spec == Init /\ [][Next]_<<ref, calls>>
=============================================================================
