----------------------------- MODULE RequestLife -----------------------------
(***************************************************************************)
(* What the deal classes of cnode promise of one HTTP request: it is       *)
(* answered at most once, and the object that handles it lives until it    *)
(* has been answered, or until the server goes down.                       *)
(***************************************************************************)
CONSTANT Requests

VARIABLES
  life,  (* "new", "open": an object handles it, "answered": and it is still *)
         (* there, "closed": answered and no object left, "abandoned": the   *)
         (* server went down before an answer                                *)
  down   (* the objects that were left have been destroyed                   *)

Init == life = [r \in Requests |-> "new"] /\ down = FALSE

Move(r, from, to) == life[r] = from /\ life' = [life EXCEPT ![r] = to] /\ UNCHANGED down

Refuse(r) == Move(r, "new", "closed")
Open(r)   == Move(r, "new", "open") /\ ~down
Answer(r) == Move(r, "open", "answered")
Reject(r) == Move(r, "open", "closed")

(* The objects of all the answered requests go together.                   *)
Free ==
  /\ life' = [r \in Requests |-> IF life[r] = "answered" THEN "closed" ELSE life[r]]
  /\ UNCHANGED down

Shutdown ==
  /\ ~down /\ down' = TRUE
  /\ life' = [r \in Requests |-> CASE life[r] = "answered" -> "closed"
                                   [] life[r] = "open" -> "abandoned"
                                   [] OTHER -> life[r]]

Next ==
  \/ \E r \in Requests : Refuse(r) \/ Open(r) \/ Answer(r) \/ Reject(r)
  \/ Free \/ Shutdown

Spec == Init /\ [][Next]_<<life, down>>
=============================================================================
