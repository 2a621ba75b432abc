--------------------------- MODULE MCConfigWorker ---------------------------
(* Instances of ConfigWorker for TLC, with a history variable: which requests
   no other request has overlapped.  Declarations, scripts and requests are
   interchangeable. *)
EXTENDS ConfigWorker, TLC

VARIABLE alone

Alone(r) == \A q \in Requests \ {r} : pc'[q] \notin Open

MCInit == Init /\ alone = [r \in Requests |-> TRUE]

MCNext ==
  /\ Next
  /\ alone' = [r \in Requests |-> alone[r] /\ (pc'[r] \in Open => Alone(r))]

MCSpec == MCInit /\ [][MCNext]_<<vars, alone>>

Symmetry ==
  Permutations(Declarations) \cup Permutations(Scripts) \cup Permutations(Requests)

\* A declaration that is accepted and that no other request has overlapped is
\* the one the answer shows, the one in force, and the one the device boots
\* with, whatever overlapped, failed or restarted before (processConfigRequest
\* and the answer of POST /declare).
AcceptedAsDeclared ==
  [][\A r \in Requests : pc[r] # "accepted" /\ pc'[r] = "accepted" /\ alone[r] =>
       /\ answer[r] = declared[r] /\ LoadedFromStore = declared[r]
       /\ saved = declared[r]]_<<vars, alone>>
=============================================================================
