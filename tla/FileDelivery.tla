---------------------------- MODULE FileDelivery ----------------------------
(***************************************************************************)
(* What the file service promises for each file, with no upload sessions,  *)
(* no chunk rows and no concurrent handlers: the bytes of a file arrive in *)
(* order, the file is offered to its recipient only when all of them are   *)
(* there, and once offered it stays until it is withdrawn with its chat.   *)
(* FileTransfers is shown to implement this specification.                 *)
(***************************************************************************)
EXTENDS Integers

CONSTANTS
  Files,      \* file identifiers, drawn by the clients
  Size        \* Size[f], the length of the encrypted file f, a natural number

VARIABLES
  phase,      \* where the file is in its life
  bytes       \* the positions of the bytes that are stored

deliveryVars == <<phase, bytes>>

----------------------------------------------------------------------------
Init ==
  /\ phase = [f \in Files |-> "absent"]
  /\ bytes = [f \in Files |-> {}]

Begin(f) ==
  /\ phase[f] = "absent"
  /\ phase' = [phase EXCEPT ![f] = "uploading"]
  /\ UNCHANGED bytes

\* The next n bytes, after the first m.
Receive(f, m, n) ==
  /\ phase[f] = "uploading"
  /\ n > 0
  /\ m + n <= Size[f]
  /\ bytes[f] = 0..(m - 1)
  /\ bytes' = [bytes EXCEPT ![f] = 0..(m + n - 1)]
  /\ UNCHANGED phase

Finish(f) ==
  /\ phase[f] = "uploading"
  /\ bytes[f] = 0..(Size[f] - 1)
  /\ phase' = [phase EXCEPT ![f] = "ready"]
  /\ UNCHANGED bytes

\* The recipient acknowledges files it has downloaded.
Deliver(F) ==
  /\ phase' = [f \in Files |-> IF f \in F /\ phase[f] = "ready" THEN "delivered"
                                                             ELSE phase[f]]
  /\ UNCHANGED bytes

\* An upload is given up and may begin again; a file that was offered is not
\* offered again.  A chat takes all its files along.
Withdraw(F) ==
  /\ phase' = [f \in Files |->
                 IF f \notin F THEN phase[f]
                 ELSE IF phase[f] \in {"absent", "uploading"} THEN "absent"
                 ELSE "withdrawn"]
  /\ bytes' = [f \in Files |-> IF f \in F THEN {} ELSE bytes[f]]

Next ==
  \/ \E f \in Files : Begin(f) \/ Finish(f)
  \/ \E f \in Files : \E m, n \in 0..Size[f] : Receive(f, m, n)
  \/ \E F \in SUBSET Files : Deliver(F) \/ Withdraw(F)

Spec == Init /\ [][Next]_deliveryVars
=============================================================================
