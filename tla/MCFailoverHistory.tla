------------------------- MODULE MCFailoverHistory -------------------------
(* FailoverTask with two history variables: which tasks took the state file
   while no other request was about to write it, and whether the failover is
   blocked by a failure that left nothing to recover. *)
EXTENDS MCFailoverTask

VARIABLES exclusive, blocked

\* From the poll that lets a task go ahead to the end of its cloud updates.
Claiming == {"lock", "recover", "discover", "log", "update"}

\* A request in one of these positions will still replace the state file.
Writing == {"neverRun", "reset", "lock", "recover"} \cup Holding

\* Nobody but r will replace the state file unless he polls it first.
AloneWriting(r) == \A q \in Requests \ {r} : pc[q] \notin Writing

\* A failure without operations is all that the finished requests have left.
NothingToRecover ==
  /\ stateFile.taskState = "FAILED" /\ stateFile.failoverOperations = NoOperations
  /\ \A r \in Requests : pc[r] \notin Open

MCInit == Init /\ exclusive = {} /\ blocked = FALSE

MCNext ==
  /\ Next
  /\ exclusive' = {r \in Requests : /\ pc'[r] \in Claiming
                                    /\ pc[r] = "wait" \/ r \in exclusive
                                    /\ AloneWriting(r)'}
  /\ blocked' = IF \E r \in Requests : pc'[r] = "reset" THEN FALSE
                ELSE blocked \/ NothingToRecover'

MCSpec == MCInit /\ [][MCNext]_<<vars, exclusive, blocked>>

\* The wait for the running task excludes whoever polls in time: once a task
\* has put its record in the state file, and nobody else had found the file
\* free before, no other task gets through _waitForTask until it has finished
\* its updates.  (Two that both polled a free file run side by side.)
LockExcludes ==
  [][\A r \in exclusive : pc[r] \in {"discover", "log", "update"} =>
       \A q \in Requests \ {r} :
         pc[q] = "wait" => pc'[q] \notin {"lock", "recover"}]_<<vars, exclusive, blocked>>

\* A failure recorded without operations blocks every later failover until a
\* user resets the state file ("advise reset via the API"): no task that comes
\* after it, on any device, gets as far as taking the file or discovering
\* anything, and the record it leaves is the same again
\* (_getRecoveryOperations).
FailureBlocks ==
  blocked =>
    /\ stateFile.taskState = "FAILED" /\ stateFile.failoverOperations = NoOperations
    /\ \A r \in Requests : pc[r] \notin Claiming
=============================================================================
