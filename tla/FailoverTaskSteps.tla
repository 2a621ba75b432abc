-------------------------- MODULE FailoverTaskSteps --------------------------
(***************************************************************************)
(* What the steps of overlapping failover tasks amount to, for every set   *)
(* of devices, addresses, routes and requests, every switch of the         *)
(* declaration and every bound: a task that took the state file alone is   *)
(* joined by nobody, a failure that left nothing to recover blocks until a *)
(* reset, and addresses move as AddressOwnership allows.  And what they    *)
(* amount to when requests come one at a time and nothing fails: the       *)
(* active device gets everything.                                          *)
(***************************************************************************)
EXTENDS FailoverTaskProofs, MCFailoverHistory, FiniteSetTheorems

-----------------------------------------------------------------------------
(* What a client remembers.                                                *)

\* The step of one request leaves the others alone.
LEMMA OthersKept ==
  ASSUME TypeOK, NEW r \in Requests, NEW q \in Requests \ {r},
         \/ Continue(r) \/ CloudCall(r)
         \/ \E d \in Devices, kind \in {"trigger", "status", "reset"} : Arrive(r, d, kind)
  PROVE  pc'[q] = pc[q] /\ client'[q] = client[q] /\ work'[q] = work[q]
<1>. USE DEF TypeOK
<1>1. CASE CloudCall(r)
  BY <1>1 DEF CloudCall, DetachAddress, AttachAddress, UpdateRoute, Rejected
<1>2. CASE \E d \in Devices, kind \in {"trigger", "status", "reset"} : Arrive(r, d, kind)
  BY <1>2 DEF Arrive, Goto
<1>3. CASE ReadStateFile(r) \/ WriteNeverRun(r) \/ Answer(r) \/ Reset(r) \/ Snapshot(r)
  BY <1>3 DEF ReadStateFile, WriteNeverRun, Answer, Reset, Snapshot, Goto, Close
<1>4. CASE PollFree(r) \/ PollRecover(r) \/ PollAgain(r) \/ GiveUp(r)
  BY <1>4 DEF PollFree, PollRecover, PollAgain, GiveUp, Goto
<1>5. CASE Lock(r) \/ Recover(r) \/ Discover(r) \/ Log(r) \/ Pass(r) \/ Fail(r)
  BY <1>5 DEF Lock, Recover, Discover, Log, Pass, Fail, Goto, Close
<1>. QED
  BY <1>1, <1>2, <1>3, <1>4, <1>5 DEF Continue

\* A client that remembers active traffic groups has discovered them.
Late == {"log", "update", "fail", "answer"} \cup Finished

AInv == \A r \in Requests : client[r].hasActive => pc[r] \in Late

LEMMA InitAInv == Init => AInv
BY DEF Init, NewClient, AInv

\* A request that is answered remembers nothing.
LEMMA ClosedForgets ==
  ASSUME TypeOK, NEW r \in Requests, NEW where, Close(r, where)
  PROVE  ~ client'[r].hasActive
BY DEF Close, TypeOK, NewClient

LEMMA NextAInv == TypeOK /\ AInv /\ [Next]_vars => AInv'
<1>. SUFFICES ASSUME TypeOK, AInv, [Next]_vars, NEW q \in Requests
              PROVE  client'[q].hasActive => pc'[q] \in Late
  BY DEF AInv
<1>. USE DEF TypeOK
<1>1. ASSUME client'[q] = client[q], pc'[q] = pc[q] \/ pc'[q] \in Late
      PROVE  client'[q].hasActive => pc'[q] \in Late
  BY <1>1 DEF AInv
<1>2. ASSUME NEW r \in Requests, Continue(r) PROVE client'[q].hasActive => pc'[q] \in Late
  <2>1. CASE q # r
    BY <1>1, <1>2, <2>1, OthersKept
  <2>2. CASE q = r /\ (\/ ReadStateFile(r) \/ WriteNeverRun(r) \/ Reset(r) \/ Answer(r)
                       \/ PollFree(r) \/ GiveUp(r) \/ Lock(r) \/ Log(r) \/ Pass(r) \/ Fail(r))
    <3>1. CASE client' = client /\ pc[r] \in {"read", "neverRun", "reset", "wait", "lock"}
      BY <2>2, <3>1 DEF AInv, Late, Finished
    <3>2. CASE client' = client /\ pc'[r] \in Late
      BY <1>1, <2>2, <3>2
    <3>. QED
      BY <2>2, <3>1, <3>2, ClosedForgets
         DEF ReadStateFile, WriteNeverRun, Reset, Answer, PollFree, GiveUp, Lock, Log, Pass,
             Fail, Goto, AfterLog, Late, Finished
  <2>3. CASE q = r /\ (Snapshot(r) \/ PollRecover(r) \/ PollAgain(r) \/ Recover(r))
    <3>1. client'[r].hasActive = client[r].hasActive
      BY <2>3 DEF Snapshot, PollRecover, PollAgain, Recover, Client
    <3>2. pc[r] \notin Late
      BY <2>3 DEF Snapshot, PollRecover, PollAgain, Recover, Late, Finished
    <3>. QED
      BY <2>3, <3>1, <3>2 DEF AInv
  <2>4. CASE q = r /\ Discover(r)
    <3>1. pc'[r] \in {"log", "fail"}
      BY <2>4 DEF Discover, Goto
    <3>. QED
      BY <2>4, <3>1 DEF Late
  <2>. QED
    BY <1>2, <2>1, <2>2, <2>3, <2>4 DEF Continue
<1>3. ASSUME NEW r \in Requests, CloudCall(r) PROVE client'[q].hasActive => pc'[q] \in Late
  BY <1>1, <1>3 DEF CloudCall, DetachAddress, AttachAddress, UpdateRoute, Rejected, Late
<1>4. ASSUME NEW r \in Requests, NEW d \in Devices, NEW kind \in {"trigger", "status", "reset"},
             Arrive(r, d, kind)
      PROVE  client'[q].hasActive => pc'[q] \in Late
  <2>1. CASE q # r
    BY <1>1, <1>4, <2>1, OthersKept
  <2>2. CASE q = r
    BY <1>4, <2>2 DEF Arrive, NewClient
  <2>. QED
    BY <2>1, <2>2
<1>5. ASSUME NEW d \in Devices, Restart(d) PROVE client'[q].hasActive => pc'[q] \in Late
  BY <1>1, <1>5 DEF Restart, Late, Finished
<1>6. ASSUME TimePasses \/ UNCHANGED vars PROVE client'[q].hasActive => pc'[q] \in Late
  BY <1>1, <1>6 DEF TimePasses, vars
<1>. QED
  BY <1>2, <1>3, <1>4, <1>5, <1>6, KindsAssumption
     DEF Next, Done, UserRequest, TakeOver, Reconcile

-----------------------------------------------------------------------------
(* Who replaces the state file.                                            *)

\* The steps that upload.
Uploads(r) ==
  \/ WriteNeverRun(r) \/ Reset(r) \/ Lock(r) \/ Recover(r) \/ Log(r) \/ Pass(r) \/ Fail(r)

\* What the file says is changed by a request that was about to write it.
LEMMA Writers ==
  ASSUME TypeOK, [Next]_vars
  PROVE  \/ /\ stateFile'.taskState = stateFile.taskState
            /\ stateFile'.failoverOperations = stateFile.failoverOperations
         \/ \E r \in Requests : Uploads(r) /\ pc[r] \in Writing
<1>1. CASE stateFile' = stateFile
  BY <1>1
<1>2. CASE TimePasses
  BY <1>2 DEF TimePasses, TypeOK, StateFile
<1>3. CASE stateFile' # stateFile /\ ~ TimePasses
  <2>1. PICK r \in Requests : Continue(r) \/ CloudCall(r)
    BY <1>3 DEF Next, UserRequest, TakeOver, Reconcile, Arrive, Restart, Done, vars
  <2>2. ~ CloudCall(r)
    BY <1>3 DEF CloudCall, DetachAddress, AttachAddress, UpdateRoute
  <2>3. ~ (\/ ReadStateFile(r) \/ Answer(r) \/ Snapshot(r) \/ PollFree(r) \/ PollRecover(r)
           \/ PollAgain(r) \/ GiveUp(r) \/ Discover(r))
    BY <1>3 DEF ReadStateFile, Answer, Snapshot, PollFree, PollRecover, PollAgain, GiveUp,
                Discover
  <2>4. Uploads(r)
    BY <2>1, <2>2, <2>3 DEF Continue, Uploads
  <2>5. pc[r] \in Writing
    BY <2>4 DEF Uploads, Writing, Holding, WriteNeverRun, Reset, Lock, Recover, Log, Pass, Fail
  <2>. QED
    BY <2>4, <2>5
<1>. QED
  BY <1>1, <1>2, <1>3

\* The specification with its history is the specification.
LEMMA HistorySpec == MCSpec => Spec
<1>1. MCInit => Init
  BY DEF MCInit
<1>2. [MCNext]_<<vars, exclusive, blocked>> => [Next]_vars
  BY DEF MCNext
<1>. QED
  BY <1>1, <1>2, PTL DEF MCSpec, Spec

-----------------------------------------------------------------------------
(* The state file excludes the tasks that poll it in time.                 *)

\* Nobody who could replace it without polling is there, and the file says so.
XInv ==
  \A r \in exclusive :
    /\ r \in Requests /\ pc[r] \in Claiming /\ AloneWriting(r)
    /\ pc[r] \in {"discover", "log", "update"} => stateFile.taskState = "RUNNING"

LEMMA NextXInv == TypeOK /\ XInv /\ [MCNext]_<<vars, exclusive, blocked>> => XInv'
<1>. SUFFICES ASSUME TypeOK, XInv, [MCNext]_<<vars, exclusive, blocked>> PROVE XInv'
  OBVIOUS
<1>1. CASE UNCHANGED <<vars, exclusive, blocked>>
  BY <1>1 DEF vars, XInv, AloneWriting
<1>2. CASE MCNext
  <2>. SUFFICES ASSUME NEW r \in exclusive'
                PROVE  /\ r \in Requests /\ pc'[r] \in Claiming /\ AloneWriting(r)'
                       /\ pc'[r] \in {"discover", "log", "update"} =>
                            stateFile'.taskState = "RUNNING"
    BY DEF XInv
  <2>1. /\ [Next]_vars /\ r \in Requests /\ pc'[r] \in Claiming /\ AloneWriting(r)'
        /\ pc[r] = "wait" \/ r \in exclusive
    BY <1>2 DEF MCNext
  <2>2. ASSUME pc'[r] \in {"discover", "log", "update"}, pc'[r] # pc[r]
        PROVE  Lock(r) \/ Recover(r) \/ Discover(r) \/ Log(r)
    <3>. USE DEF TypeOK
    <3>1. ASSUME NEW q \in Requests, NEW d \in Devices,
                 NEW kind \in {"trigger", "status", "reset"}
          PROVE  ~ Arrive(q, d, kind)
      BY <2>1, <2>2 DEF Arrive, Goto
    <3>2. ~ (TimePasses \/ UNCHANGED vars)
      BY <2>2 DEF TimePasses, vars
    <3>3. ASSUME NEW d \in Devices PROVE ~ Restart(d)
      BY <2>1, <2>2 DEF Restart
    <3>4. PICK q \in Requests : Continue(q) \/ CloudCall(q)
      BY <2>1, <3>1, <3>2, <3>3, KindsAssumption
         DEF Next, Done, UserRequest, TakeOver, Reconcile
    <3>5. r = q
      BY <2>1, <2>2, <3>4, OthersKept
    <3>6. ~ CloudCall(r)
      BY <2>2 DEF CloudCall, DetachAddress, AttachAddress, UpdateRoute, Rejected
    <3>7. ~ (\/ ReadStateFile(r) \/ WriteNeverRun(r) \/ Answer(r) \/ Reset(r) \/ Snapshot(r)
             \/ PollFree(r) \/ PollRecover(r) \/ PollAgain(r) \/ GiveUp(r) \/ Pass(r) \/ Fail(r))
      BY <2>2 DEF ReadStateFile, WriteNeverRun, Answer, Reset, Snapshot, PollFree,
                  PollRecover, PollAgain, GiveUp, Pass, Fail, Goto, Close, ExecuteFrom
    <3>. QED
      BY <3>4, <3>5, <3>6, <3>7 DEF Continue
  <2>3. ASSUME pc'[r] \in {"discover", "log", "update"}
        PROVE  stateFile'.taskState = "RUNNING"
    <3>1. r \in exclusive /\ AloneWriting(r)
          /\ (pc[r] \in {"discover", "log", "update"} => stateFile.taskState = "RUNNING")
      BY <2>1, <2>2, <2>3 DEF XInv, Lock, Recover, Discover, Log
    <3>2. CASE pc'[r] # pc[r]
      <4>1. CASE Lock(r) /\ pc'[r] # "fail"
        BY <2>1, <4>1 DEF Lock, Goto, Upload, StateObject, TypeOK
      <4>2. CASE Recover(r) /\ pc'[r] # "fail"
        BY <2>1, <4>2 DEF Recover, Goto, Upload, StateObject, TypeOK
      <4>3. CASE Log(r) /\ pc'[r] # "fail"
        BY <2>1, <4>3 DEF Log, Goto, Upload, StateObject, TypeOK
      <4>4. CASE Discover(r)
        BY <3>1, <4>4 DEF Discover
      <4>. QED
        BY <2>2, <2>3, <3>2, <4>1, <4>2, <4>3, <4>4
    <3>3. CASE pc'[r] = pc[r]
      <4>1. stateFile.taskState = "RUNNING"
        BY <2>3, <3>1, <3>3
      <4>2. ASSUME NEW q \in Requests, Uploads(q), pc[q] \in Writing
            PROVE  FALSE
        <5>1. q = r
          BY <3>1, <4>2 DEF AloneWriting
        <5>2. Log(r) \/ Pass(r)
          BY <2>3, <3>3, <4>2, <5>1
             DEF Uploads, WriteNeverRun, Reset, Lock, Recover, Fail
        <5>. QED
          BY <2>1, <2>3, <3>3, <5>2 DEF Log, Pass, Goto, AfterLog, TypeOK
      <4>. QED
        BY <2>1, <4>1, <4>2, Writers
    <3>. QED
      BY <3>2, <3>3
  <2>. QED
    BY <2>1, <2>3
<1>. QED
  BY <1>1, <1>2

\* A poll of a file that says RUNNING is rejected: the record has no field
\* timeStamp.
LEMMA RunningIsWaitedFor ==
  ASSUME TypeOK, [Next]_vars, stateFile.taskState = "RUNNING",
         NEW q \in Requests, pc[q] = "wait"
  PROVE  pc'[q] \notin {"lock", "recover"}
<1>. USE DEF TypeOK
<1>. SUFFICES ASSUME pc'[q] \in {"lock", "recover"} PROVE FALSE
  OBVIOUS
<1>1. ASSUME NEW p \in Requests, NEW d \in Devices,
             NEW kind \in {"trigger", "status", "reset"}
      PROVE  ~ Arrive(p, d, kind)
  BY DEF Arrive, Goto
<1>2. ~ (TimePasses \/ UNCHANGED vars)
  BY DEF TimePasses, vars
<1>3. ASSUME NEW d \in Devices PROVE ~ Restart(d)
  BY DEF Restart, Open
<1>4. PICK p \in Requests : Continue(p) \/ CloudCall(p)
  BY <1>1, <1>2, <1>3, KindsAssumption DEF Next, Done, UserRequest, TakeOver, Reconcile
<1>5. p = q
  BY <1>4, OthersKept
<1>6. ~ CloudCall(q)
  BY DEF CloudCall, DetachAddress, AttachAddress, UpdateRoute, Rejected
<1>7. ~ (\/ ReadStateFile(q) \/ WriteNeverRun(q) \/ Answer(q) \/ Reset(q) \/ Snapshot(q)
         \/ GiveUp(q) \/ Lock(q) \/ Recover(q) \/ Discover(q) \/ Log(q) \/ Pass(q) \/ Fail(q))
  BY DEF ReadStateFile, WriteNeverRun, Answer, Reset, Snapshot, GiveUp, Lock, Recover,
         Discover, Log, Pass, Fail, Goto, Close
<1>8. ~ PollFree(q) /\ ~ PollAgain(q)
  BY DEF PollFree, PollAgain
<1>9. ~ TimeDriftExceeded(stateFile)
  BY DEF StateFile, TimeDriftExceeded
<1>10. ~ PollRecover(q)
  BY <1>9 DEF PollRecover
<1>. QED
  BY <1>4, <1>5, <1>6, <1>7, <1>8, <1>10 DEF Continue

\* Once a task has put its record in the state file, and nobody else had found
\* the file free before, no other task gets through _waitForTask until it has
\* finished its updates, for any number of devices and requests, and whatever
\* fails or restarts (_checkTaskState).
THEOREM Exclusion == MCSpec => LockExcludes
<1>1. MCInit => XInv
  BY DEF MCInit, XInv
<1>2. TypeOK /\ XInv /\ [MCNext]_<<vars, exclusive, blocked>> => XInv'
  BY NextXInv
<1>3. TypeOK /\ XInv /\ [MCNext]_<<vars, exclusive, blocked>> =>
        [\A r \in exclusive : pc[r] \in {"discover", "log", "update"} =>
           \A q \in Requests \ {r} :
             pc[q] = "wait" => pc'[q] \notin {"lock", "recover"}]_<<vars, exclusive, blocked>>
  BY RunningIsWaitedFor DEF XInv, MCNext
<1>. QED
  BY <1>1, <1>2, <1>3, HistorySpec, TypeCorrect, PTL DEF MCSpec, LockExcludes

-----------------------------------------------------------------------------
(* A failure that leaves nothing to recover blocks every failover.         *)

\* While it does, what requests there are have found out nothing.
BInv ==
  blocked =>
    /\ stateFile.taskState = "FAILED" /\ stateFile.failoverOperations = NoOperations
    /\ \A r \in Requests :
         /\ pc[r] \notin Claiming \cup {"neverRun", "reset"}
         /\ pc[r] \in Open => client[r].addresses = Null /\ client[r].routes = Null

\* The request that makes a step while the failover is blocked.
LEMMA BlockedStep ==
  ASSUME TypeOK, BInv, blocked, NEW r \in Requests,
         \/ Continue(r) \/ CloudCall(r)
         \/ \E d \in Devices, kind \in {"trigger", "status", "reset"} : Arrive(r, d, kind),
         pc'[r] # "reset"
  PROVE  /\ pc'[r] \notin Claiming \cup {"neverRun"}
         /\ pc'[r] \in Open => client'[r].addresses = Null /\ client'[r].routes = Null
<1>. USE DEF TypeOK
<1>1. /\ stateFile.taskState = "FAILED" /\ stateFile.failoverOperations = NoOperations
      /\ pc[r] \notin Claiming \cup {"neverRun", "reset"}
      /\ pc[r] \in Open => client[r].addresses = Null /\ client[r].routes = Null
  BY DEF BInv
<1>2. CASE CloudCall(r)
  <2>1. client'[r] = client[r] /\ (pc'[r] = pc[r] \/ (pc[r] = "update" /\ pc'[r] = "fail"))
    BY <1>2 DEF CloudCall, DetachAddress, AttachAddress, UpdateRoute, Rejected
  <2>. QED
    BY <1>1, <2>1 DEF Claiming
<1>3. ASSUME NEW d \in Devices, NEW kind \in {"trigger", "status", "reset"}, Arrive(r, d, kind)
      PROVE  /\ pc'[r] \notin Claiming \cup {"neverRun"}
             /\ pc'[r] \in Open => client'[r].addresses = Null /\ client'[r].routes = Null
  <2>1. pc'[r] \in {"read", "reset", "closed"} /\ client'[r] = NewClient(d, kind)
    BY <1>3 DEF Arrive, Goto
  <2>. QED
    BY <2>1 DEF NewClient, Claiming
<1>4. CASE ReadStateFile(r) \/ Answer(r) \/ GiveUp(r) \/ Fail(r)
  <2>1. \/ pc'[r] \in {"answer", "snapshot", "fail"} /\ client'[r] = client[r] /\ pc[r] \in Open
        \/ pc'[r] \in Finished
    BY <1>1, <1>4 DEF ReadStateFile, Answer, GiveUp, Fail, Goto, Close, ExecuteFrom, Open,
                      Holding, Finished
  <2>. QED
    BY <1>1, <2>1 DEF Claiming, Finished, Open, Holding
<1>5. CASE Snapshot(r) \/ PollAgain(r)
  <2>1. /\ pc'[r] \in {"wait", "fail"} /\ pc[r] \in Open
        /\ client'[r].addresses = client[r].addresses /\ client'[r].routes = client[r].routes
    BY <1>5 DEF Snapshot, PollAgain, Goto, Open, Holding, Client
  <2>. QED
    BY <1>1, <2>1 DEF Claiming
<1>6. CASE PollRecover(r)
  <2>1. ~ Recoverable(stateFile.failoverOperations)
    BY <1>1 DEF Recoverable, NoOperations, Null
  <2>2. /\ pc'[r] = "fail" /\ pc[r] \in Open
        /\ client'[r].addresses = client[r].addresses /\ client'[r].routes = client[r].routes
    BY <1>6, <2>1 DEF PollRecover, Goto, Open, Client
  <2>. QED
    BY <1>1, <2>2 DEF Claiming
<1>7. ~ (\/ WriteNeverRun(r) \/ Reset(r) \/ PollFree(r) \/ Lock(r) \/ Recover(r)
         \/ Discover(r) \/ Log(r) \/ Pass(r))
  BY <1>1 DEF WriteNeverRun, Reset, PollFree, Lock, Recover, Discover, Log, Pass, Claiming
<1>. QED
  BY <1>2, <1>3, <1>4, <1>5, <1>6, <1>7 DEF Continue

LEMMA NextBInv == TypeOK /\ BInv /\ [MCNext]_<<vars, exclusive, blocked>> => BInv'
<1>. SUFFICES ASSUME TypeOK, BInv, [MCNext]_<<vars, exclusive, blocked>>, blocked'
              PROVE  BInv'
  BY DEF BInv
<1>1. CASE UNCHANGED <<vars, exclusive, blocked>>
  BY <1>1 DEF vars, BInv
<1>2. CASE MCNext /\ NothingToRecover'
  BY <1>2 DEF NothingToRecover, BInv, Claiming, Open, Holding
<1>3. CASE MCNext /\ ~ NothingToRecover'
  <2>1. blocked /\ [Next]_vars /\ \A r \in Requests : pc'[r] # "reset"
    BY <1>3, Zenon DEF MCNext
  <2>2. /\ stateFile.taskState = "FAILED" /\ stateFile.failoverOperations = NoOperations
        /\ \A r \in Requests :
             /\ pc[r] \notin Claiming \cup {"neverRun", "reset"}
             /\ pc[r] \in Open => client[r].addresses = Null /\ client[r].routes = Null
    BY <2>1 DEF BInv
  <2>3. stateFile'.taskState = "FAILED" /\ stateFile'.failoverOperations = NoOperations
    <3>1. ASSUME NEW r \in Requests, Uploads(r)
          PROVE  stateFile'.taskState = "FAILED" /\ stateFile'.failoverOperations = NoOperations
      <4>1. Fail(r) /\ pc[r] = "fail"
        BY <2>2, <3>1 DEF Uploads, WriteNeverRun, Reset, Lock, Recover, Log, Pass, Fail, Claiming
      <4>2. Discovered(client[r]) = NoOperations
        BY <2>2, <4>1 DEF Discovered, NoOperations, Open, Holding
      <4>. QED
        BY <2>2, <4>1, <4>2 DEF Fail, Upload, UploadFails, StateObject
    <3>. QED
      BY <2>1, <2>2, <3>1, Writers
  <2>4. ASSUME NEW q \in Requests
        PROVE  /\ pc'[q] \notin Claiming \cup {"neverRun", "reset"}
               /\ pc'[q] \in Open => client'[q].addresses = Null /\ client'[q].routes = Null
    <3>1. ASSUME client'[q] = client[q], pc'[q] = pc[q] \/ pc'[q] \in Finished
          PROVE  /\ pc'[q] \notin Claiming \cup {"neverRun", "reset"}
                 /\ pc'[q] \in Open => client'[q].addresses = Null /\ client'[q].routes = Null
      BY <2>2, <3>1 DEF Finished, Claiming, Open, Holding
    <3>2. ASSUME NEW r \in Requests,
                 \/ Continue(r) \/ CloudCall(r)
                 \/ \E d \in Devices, kind \in {"trigger", "status", "reset"} : Arrive(r, d, kind)
          PROVE  /\ pc'[q] \notin Claiming \cup {"neverRun", "reset"}
                 /\ pc'[q] \in Open => client'[q].addresses = Null /\ client'[q].routes = Null
      <4>1. CASE q = r
        BY <2>1, <3>2, <4>1, BlockedStep
      <4>2. CASE q # r
        BY <3>1, <3>2, <4>2, OthersKept
      <4>. QED
        BY <4>1, <4>2
    <3>3. ASSUME NEW d \in Devices, Restart(d)
          PROVE  client'[q] = client[q] /\ (pc'[q] = pc[q] \/ pc'[q] \in Finished)
      BY <3>3 DEF Restart, Finished, TypeOK
    <3>4. ASSUME TimePasses \/ UNCHANGED vars
          PROVE  client'[q] = client[q] /\ pc'[q] = pc[q]
      BY <3>4 DEF TimePasses, vars
    <3>. QED
      BY <2>1, <3>1, <3>2, <3>3, <3>4, KindsAssumption
         DEF Next, Done, UserRequest, TakeOver, Reconcile
  <2>. QED
    BY <2>3, <2>4 DEF BInv
<1>. QED
  BY <1>1, <1>2, <1>3

\* When the requests that are over have left a failure without operations, no
\* task of any device takes the state file or discovers anything until a user
\* resets it, however many come, overlap, fail or restart
\* (_getRecoveryOperations).
THEOREM FailureBlocksAll == MCSpec => []FailureBlocks
<1>1. MCInit => BInv
  BY DEF MCInit, BInv
<1>2. TypeOK /\ BInv /\ [MCNext]_<<vars, exclusive, blocked>> => BInv'
  BY NextBInv
<1>3. BInv => FailureBlocks
  BY DEF BInv, FailureBlocks
<1>. QED
  BY <1>1, <1>2, <1>3, HistorySpec, TypeCorrect, PTL DEF MCSpec

-----------------------------------------------------------------------------
(* The failover task implements AddressOwnership.                          *)

\* Somebody is to bring address a to device d.
Claim(r, a, d) ==
  \E op \in work[r].attaching \cup work[r].stranded : op.item = a /\ op.to = d

\* What the abstract specification asks of a step, in terms of the work of
\* the requests.
LEMMA StepOfOwnership ==
  ASSUME TypeOK, TypeOK',
         \A a \in Addresses :
           \/ owner'[a] = owner[a]
           \/ owner'[a] = Nowhere /\ \E q \in Requests, d \in Devices : Claim(q, a, d)
           \/ owner[a] = Nowhere /\ owner'[a] \in Devices
                /\ \E q \in Requests : Claim(q, a, owner'[a]),
         \A q \in Requests, a \in Addresses, d \in Devices :
           Claim(q, a, d) => Claim(q, a, d)' \/ owner'[a] = d
  PROVE  Ownership!Next
<1>1. owner' \in [Addresses -> Devices \cup {Nowhere}]
  BY DEF TypeOK
<1>2. Claims' \subseteq Ownership!Claim
  BY DEF Claims, Ownership!Claim
<1>3. ASSUME NEW q \in Requests, NEW a \in Addresses, NEW d \in Devices, Claim(q, a, d)
      PROVE  [task |-> q, address |-> a, device |-> d] \in Claims
  BY <1>3 DEF Claims, Claim
<1>4. \A a \in Addresses :
        Ownership!Stays(a) \/ Ownership!Leaves(a) \/ Ownership!Arrives(a)
  <2>. TAKE a \in Addresses
  <2>1. CASE owner'[a] = owner[a]
    BY <2>1 DEF Ownership!Stays
  <2>2. ASSUME owner'[a] = Nowhere, NEW q \in Requests, NEW d \in Devices, Claim(q, a, d)
        PROVE  Ownership!Leaves(a)
    <3>1. [task |-> q, address |-> a, device |-> d] \in Claims
      BY <1>3, <2>2
    <3>. QED
      BY <2>2, <3>1 DEF Ownership!Leaves, Ownership!Claimed
  <2>3. ASSUME owner[a] = Nowhere, owner'[a] \in Devices,
               NEW q \in Requests, Claim(q, a, owner'[a])
        PROVE  Ownership!Arrives(a)
    <3>1. [task |-> q, address |-> a, device |-> owner'[a]] \in Claims
      BY <1>3, <2>3
    <3>. QED
      BY <2>3, <3>1 DEF Ownership!Arrives
  <2>. QED
    BY <2>1, <2>2, <2>3
<1>5. \A c \in Claims \ Claims' : owner'[c.address] = c.device
  <2>. TAKE c \in Claims \ Claims'
  <2>1. /\ c.task \in Requests /\ c.address \in Addresses /\ c.device \in Devices
        /\ Claim(c.task, c.address, c.device)
    BY DEF Claims, Claim
  <2>2. ~ Claim(c.task, c.address, c.device)'
    BY <2>1 DEF Claims, Claim
  <2>. QED
    BY <2>1, <2>2
<1>. QED
  BY <1>1, <1>2, <1>4, <1>5 DEF Ownership!Next

\* Initially no address is on its way.
LEMMA InitOwnership == Init => Ownership!Init
<1>. SUFFICES ASSUME Init PROVE Ownership!Init
  OBVIOUS
<1>1. owner \in [Addresses -> Devices]
  BY DEF Init
<1>2. Claims = {}
  <2>1. \A r \in Requests : work[r].attaching = {} /\ work[r].stranded = {}
    BY DEF Init, NoWork
  <2>. QED
    BY <2>1 DEF Claims
<1>. QED
  BY <1>1, <1>2 DEF Ownership!Init

\* Every step of the failover task is a step of AddressOwnership.
LEMMA NextOwnership ==
  ASSUME IInv, TypeOK', [Next]_vars
  PROVE  Ownership!Next
<1>. USE DEF IInv, TypeOK
<1>1. ASSUME UNCHANGED owner,
             \A q \in Requests :
               work[q].attaching \cup work[q].stranded
                 \subseteq work'[q].attaching \cup work'[q].stranded
      PROVE  Ownership!Next
  <2>1. \A q \in Requests, a \in Addresses, d \in Devices :
          Claim(q, a, d) => Claim(q, a, d)'
    BY <1>1 DEF Claim
  <2>. QED
    BY <1>1, <2>1, StepOfOwnership
<1>2. ASSUME UNCHANGED owner, UNCHANGED work PROVE Ownership!Next
  BY <1>1, <1>2
<1>3. ASSUME NEW r \in Requests, Log(r) PROVE Ownership!Next
  <2>1. work[r].attaching \cup work[r].stranded = {}
    BY <1>3 DEF WorkOrdered, Log, BeforeUpdate
  <2>2. UNCHANGED owner /\ \A q \in Requests \ {r} : work'[q] = work[q]
    BY <1>3 DEF Log, cloud
  <2>3. \A q \in Requests :
          work[q].attaching \cup work[q].stranded
            \subseteq work'[q].attaching \cup work'[q].stranded
    BY <2>1, <2>2
  <2>. QED
    BY <1>1, <2>2, <2>3
<1>4. ASSUME NEW r \in Requests, NEW op \in work[r].detaching, DetachAddress(r, op)
      PROVE  Ownership!Next
  <2>1. work[r] \in Work /\ op \in work[r].attaching /\ op \in Op
    BY <1>4 DEF WorkOrdered, Work
  <2>2. \A q \in Requests : /\ work'[q].attaching = work[q].attaching
                            /\ work'[q].stranded = work[q].stranded
    <3>1. CASE work' = [work EXCEPT ![r] = Detached(work[r], op)]
      <4>1. /\ Detached(work[r], op).attaching = work[r].attaching
            /\ Detached(work[r], op).stranded = work[r].stranded
        BY <2>1, DetachedTyping
      <4>. QED
        BY <3>1, <4>1
    <3>2. CASE work' = [work EXCEPT ![r].detaching = @ \ {op}, ![r].broken = TRUE]
      BY <2>1, <3>2 DEF Work
    <3>. QED
      BY <1>4, <3>1, <3>2 DEF DetachAddress
  <2>3. \A q \in Requests, a \in Addresses, d \in Devices :
          Claim(q, a, d) => Claim(q, a, d)'
    BY <2>2 DEF Claim
  <2>4. CASE UNCHANGED owner
    BY <2>3, <2>4, StepOfOwnership
  <2>5. CASE owner' = [owner EXCEPT ![op.item] = Nowhere]
    <3>1. \A a \in Addresses : owner'[a] # owner[a] => owner'[a] = Nowhere /\ a = op.item
      BY <2>5
    <3>2. op.to \in Devices /\ Claim(r, op.item, op.to)
      BY <2>1 DEF Claim, Op
    <3>3. \A a \in Addresses :
            \/ owner'[a] = owner[a]
            \/ owner'[a] = Nowhere /\ \E q \in Requests, d \in Devices : Claim(q, a, d)
      BY <3>1, <3>2
    <3>. QED
      BY <2>3, <3>3, StepOfOwnership
  <2>. QED
    BY <1>4, <2>4, <2>5 DEF DetachAddress
<1>5. ASSUME NEW r \in Requests, NEW op \in work[r].attaching, AttachAddress(r, op)
      PROVE  Ownership!Next
  <2>1. work[r] \in Work /\ op \in Op
    BY <1>5 DEF Work
  <2>2. CASE /\ owner[op.item] \in {Nowhere, op.to}
             /\ owner' = [owner EXCEPT ![op.item] = op.to]
             /\ work' = [work EXCEPT ![r].attaching = @ \ {op}]
    <3>1. op.to \in Devices /\ Claim(r, op.item, op.to)
      BY <1>5, <2>1 DEF Claim, Op
    <3>2. \A a \in Addresses :
            \/ owner'[a] = owner[a]
            \/ owner[a] = Nowhere /\ a = op.item /\ owner'[a] = op.to
      BY <2>2
    <3>3. \A a \in Addresses :
            \/ owner'[a] = owner[a]
            \/ owner[a] = Nowhere /\ owner'[a] \in Devices
                 /\ \E q \in Requests : Claim(q, a, owner'[a])
      BY <3>1, <3>2
    <3>4. /\ work'[r].attaching = work[r].attaching \ {op}
          /\ work'[r].stranded = work[r].stranded
          /\ \A q \in Requests \ {r} : work'[q] = work[q]
      BY <2>1, <2>2 DEF Work
    <3>5. \A q \in Requests, a \in Addresses, d \in Devices :
            Claim(q, a, d) => Claim(q, a, d)' \/ (a = op.item /\ d = op.to)
      BY <3>4 DEF Claim
    <3>6. op.item \in Addresses => owner'[op.item] = op.to
      BY <2>2
    <3>. QED
      BY <3>3, <3>5, <3>6, StepOfOwnership
  <2>3. CASE /\ UNCHANGED owner
             /\ work' = [work EXCEPT ![r].attaching = @ \ {op}, ![r].broken = TRUE,
                                     ![r].stranded = @ \cup {op}]
    <3>1. /\ work'[r].attaching = work[r].attaching \ {op}
          /\ work'[r].stranded = work[r].stranded \cup {op}
          /\ \A q \in Requests \ {r} : work'[q] = work[q]
      BY <2>1, <2>3 DEF Work
    <3>. QED
      BY <1>1, <2>3, <3>1
  <2>. QED
    BY <1>5, <2>2, <2>3 DEF AttachAddress
<1>6. ASSUME NEW r \in Requests, NEW op \in work[r].rerouting, UpdateRoute(r, op)
      PROVE  Ownership!Next
  <2>1. UNCHANGED owner /\ \A q \in Requests :
          /\ work'[q].attaching = work[q].attaching
          /\ work'[q].stranded = work[q].stranded
    BY <1>6 DEF UpdateRoute, Work
  <2>. QED
    BY <1>1, <2>1
<1>7. ASSUME NEW d \in Devices, Restart(d) PROVE Ownership!Next
  <2>1. UNCHANGED owner /\ \A q \in Requests :
          /\ work'[q].attaching = work[q].attaching
          /\ work'[q].stranded = work[q].stranded
    BY <1>7 DEF Restart, cloud, Work
  <2>. QED
    BY <1>1, <2>1
<1>8. ASSUME TimePasses \/ UNCHANGED vars PROVE Ownership!Next
  BY <1>2, <1>8 DEF TimePasses, vars, cloud
<1>9. ASSUME NEW r \in Requests, Continue(r), ~Log(r) PROVE Ownership!Next
  <2>1. UNCHANGED owner
    BY <1>9 DEF Continue, ReadStateFile, WriteNeverRun, Answer, Reset, Snapshot,
                PollFree, PollRecover, PollAgain, GiveUp, Lock, Recover, Discover,
                Pass, Fail, cloud
  <2>. QED
    BY <1>2, <1>9, <2>1, WorkKept
<1>10. ASSUME NEW r \in Requests, NEW d \in Devices,
              \/ \E kind \in Kinds : UserRequest(r, d, kind)
              \/ TakeOver(r, d) \/ Reconcile(r, d)
       PROVE  Ownership!Next
  BY <1>2, <1>10 DEF UserRequest, TakeOver, Reconcile, Arrive, cloud
<1>11. ASSUME NEW r \in Requests, CloudCall(r) PROVE Ownership!Next
  BY <1>4, <1>5, <1>6, <1>11 DEF CloudCall
<1>. QED
  BY <1>3, <1>7, <1>8, <1>9, <1>10, <1>11 DEF Next, Done

\* However many tasks overlap, fail or are cut off, every behaviour of the
\* failover task is one that AddressOwnership allows (_reassociateAddresses).
THEOREM Implementation == Spec => ImplementsOwnership
<1>1. Init => Ownership!Init
  BY InitOwnership
<1>2. IInv /\ IInv' /\ [Next]_vars => [Ownership!Next]_<<owner, Claims>>
  BY NextOwnership DEF IInv
<1>. QED
  BY <1>1, <1>2, Invariance, PTL DEF Spec, ImplementsOwnership, Ownership!Spec

-----------------------------------------------------------------------------
(* One request at a time, and nothing fails.                               *)

\* No two requests overlap, no call fails and no device restarts.  The HA role
\* moves as it likes between two requests, and users may send any request.
Undisturbed ==
  /\ MaxOpen <= 1 /\ IsFiniteSet(Requests)
  /\ MaxFaults = 0 /\ MaxCrashes = 0
  /\ AddressesEnabled

OneOpen == \A q, r \in Requests : pc[q] \in Open /\ pc[r] \in Open => q = r

\* No task fails, or has anything in hand when it does not update the cloud.
Smooth(r) ==
  /\ pc[r] \in {"idle", "closed", "answer", "reset", "read", "neverRun", "snapshot",
                "wait", "lock", "discover", "log", "update"}
  /\ pc[r] = "wait" => client[r].retries > 0
  /\ pc[r] \in {"discover", "log", "update"} => stateFile.taskState = "RUNNING"
  /\ work[r].stranded = {} /\ ~ work[r].broken
  /\ pc[r] # "update" =>
       work[r].detaching = {} /\ work[r].attaching = {} /\ work[r].rerouting = {}

\* What a task has found out is still so.
Current(r) ==
  /\ pc[r] \in {"wait", "lock", "discover"} /\ client[r].active => client[r].host \in active
  /\ pc[r] \in {"log", "update"} /\ client[r].hasActive => client[r].host \in active
  /\ pc[r] = "log" =>
       /\ client[r].addresses.ops =
            IF client[r].hasActive THEN AddressOperations(client[r].host) ELSE {}
       /\ client[r].routes.ops =
            IF client[r].hasActive /\ RoutesEnabled
            THEN RouteOperations(client[r].host) ELSE {}

\* Everything is on device d.
At(d) ==
  /\ \A a \in Addresses : owner[a] = d
  /\ RoutesEnabled => \A n \in Routes : nextHop[n] = d

\* What a task that updates the cloud has still to do, it can do, and the rest
\* is done.
Performing(r) ==
  LET w == work[r]  c == client[r] IN
  pc[r] = "update" =>
    /\ w.attaching # {} \/ w.rerouting # {} => c.hasActive
    /\ \A op \in w.attaching :
         /\ op.item \in Addresses /\ op.to = c.host /\ op.from # c.host
         /\ owner[op.item] = IF op \in w.detaching THEN op.from ELSE Nowhere
         /\ \A x \in w.attaching : x.item = op.item => x = op
    /\ \A op \in w.rerouting : op.item \in Routes /\ op.to = c.host
    /\ \A op \in c.addresses.ops :
         /\ op.item \in Addresses /\ op.to = c.host
         /\ op \in w.attaching \/ owner[op.item] = op.to
    /\ \A op \in c.routes.ops :
         /\ op.item \in Routes /\ op.to = c.host
         /\ op \in w.rerouting \/ nextHop[op.item] = op.to
    /\ c.hasActive =>
         /\ \A a \in Addresses : owner[a] = c.host \/ \E op \in w.attaching : op.item = a
         /\ RoutesEnabled => \A n \in Routes :
              nextHop[n] = c.host \/ \E op \in w.rerouting : op.item = n

\* A task is on its way to bring everything to device d.
Coming(r, d) ==
  /\ client[r].host = d
  /\ \/ pc[r] \in {"read", "neverRun"} /\ client[r].kind = "trigger"
     \/ pc[r] = "snapshot"
     \/ pc[r] \in {"wait", "lock", "discover"} /\ client[r].active
     \/ pc[r] \in {"log", "update"} /\ client[r].hasActive

\* The device that is alone active has everything, or is about to get it.
Following == \A d \in Devices : active = {d} => At(d) \/ \E r \in Requests : Coming(r, d)

SInv ==
  /\ OneOpen /\ Following /\ SuccessIsReal /\ stateFile.taskState # "FAILED"
  /\ \A r \in Requests : Smooth(r) /\ Current(r) /\ Performing(r)

\* With the invariants that hold whatever overlaps and fails.
Inv == IInv /\ AInv /\ SInv

\* No call fails, and no device restarts.
LEMMA NoFaults ==
  ASSUME Undisturbed, TypeOK
  PROVE  ~ Fault /\ \A d \in Devices : ~ Restart(d)
BY DEF Undisturbed, TypeOK, Fault, Restart

\* While one request is open the others are not.
Alone(r) == \A q \in Requests \ {r} : pc[q] \notin Open

\* It is so for the request that is open.
LEMMA AloneWhenOpen ==
  ASSUME Inv, NEW r \in Requests, pc[r] \in Open
  PROVE  Alone(r)
BY DEF Inv, SInv, OneOpen, Alone

\* A request that arrives finds none open.
LEMMA NoneOpen ==
  ASSUME Undisturbed, NEW r \in Requests, NEW d, NEW kind, Arrive(r, d, kind)
  PROVE  \A q \in Requests : pc[q] \notin Open
<1>. DEFINE S == {q \in Requests : pc[q] \in Open}
<1>1. IsFiniteSet(S)
  BY FS_Subset DEF Undisturbed
<1>2. Cardinality(S) \in Nat
  BY <1>1, FS_CardinalityType
<1>3. Cardinality(S) < MaxOpen
  BY DEF Arrive
<1>4. Cardinality(S) = 0
  BY <1>2, <1>3, BoundAssumption DEF Undisturbed
<1>5. S = {}
  BY <1>1, <1>4, FS_EmptySet
<1>. QED
  BY <1>5

\* A task that is open and does not hold the state file finds it free.
LEMMA FileFree ==
  ASSUME Inv, NEW r \in Requests, pc[r] \in Open \ Holding
  PROVE  stateFile.taskState \notin {"RUNNING", "FAILED"}
<1>1. ASSUME stateFile.taskState = "RUNNING" PROVE FALSE
  <2>1. PICK q \in Requests : pc[q] \in Holding \cup {"crashed", "unrecorded"}
    BY <1>1 DEF Inv, IInv, LockHasHolder
  <2>2. pc[q] \in Holding
    BY <2>1 DEF Inv, SInv, Smooth
  <2>3. q # r /\ pc[q] \in Open
    BY <2>2 DEF Open
  <2>. QED
    BY <2>3 DEF Inv, SInv, OneOpen
<1>. QED
  BY <1>1 DEF Inv, SInv

\* The step of one request, while no other is open: what remains to be shown.
LEMMA StepAlone ==
  ASSUME Inv, NEW r \in Requests, Alone(r),
         \A q \in Requests \ {r} :
           pc'[q] = pc[q] /\ client'[q] = client[q] /\ work'[q] = work[q],
         Following', SuccessIsReal', stateFile'.taskState # "FAILED",
         Smooth(r)', Current(r)', Performing(r)'
  PROVE  SInv'
<1>1. \A q \in Requests \ {r} : pc'[q] \notin Open /\ Smooth(q)
  BY DEF Alone, Inv, SInv
<1>2. OneOpen'
  BY <1>1 DEF OneOpen
<1>3. ASSUME NEW q \in Requests \ {r} PROVE Smooth(q)' /\ Current(q)' /\ Performing(q)'
  <2>1. pc'[q] \notin {"wait", "lock", "discover", "log", "update"}
    BY <1>1, <1>3 DEF Open, Holding
  <2>2. Current(q)' /\ Performing(q)'
    BY <2>1 DEF Current, Performing
  <2>3. Smooth(q)'
    BY <1>1, <1>3, <2>1 DEF Smooth
  <2>. QED
    BY <2>2, <2>3
<1>. QED
  BY <1>2, <1>3 DEF SInv

\* The devices that have everything, or are about to get it, are the same when
\* the cloud and the roles are, and the request goes on.
LEMMA FollowingKept ==
  ASSUME Inv, NEW r \in Requests, Alone(r), UNCHANGED <<active, owner, nextHop>>,
         \A d \in Devices : active = {d} /\ Coming(r, d) => Coming(r, d)' \/ At(d)
  PROVE  Following'
<1>1. ASSUME NEW d \in Devices, active' = {d} PROVE At(d)' \/ \E q \in Requests : Coming(q, d)'
  <2>1. \A q \in Requests \ {r} : ~ Coming(q, d)
    BY DEF Alone, Coming, Open, Holding
  <2>2. At(d) \/ Coming(r, d)
    BY <1>1, <2>1 DEF Inv, SInv, Following
  <2>3. At(d) => At(d)'
    BY DEF At
  <2>. QED
    BY <1>1, <2>2, <2>3
<1>. QED
  BY <1>1 DEF Following

\* A request arrives: by a change of roles it is a trigger on the device that
\* becomes active, and otherwise nothing changes for the others.
LEMMA ArriveKept ==
  ASSUME Undisturbed, Inv, NEW r \in Requests, NEW d \in Devices,
         NEW kind \in {"trigger", "status", "reset"}, Arrive(r, d, kind),
         \/ UNCHANGED active
         \/ kind = "trigger" /\ \A e \in Devices : active' = {e} => e = d
  PROVE  SInv'
<1>1. \A q \in Requests : pc[q] \notin Open
  BY NoneOpen
<1>2. Alone(r)
  BY <1>1 DEF Alone
<1>3. /\ pc[r] = "idle" /\ pc' = [pc EXCEPT ![r] = IF kind = "reset" THEN "reset" ELSE "read"]
      /\ client' = [client EXCEPT ![r] = NewClient(d, kind)]
      /\ UNCHANGED <<stateFile, owner, nextHop, work>>
  BY NoFaults DEF Inv, IInv, Arrive, Goto, cloud
<1>4. /\ pc'[r] = IF kind = "reset" THEN "reset" ELSE "read"
      /\ client'[r].host = d /\ client'[r].kind = kind
  BY <1>3 DEF Inv, IInv, TypeOK, NewClient
<1>5. Smooth(r)' /\ Current(r)' /\ Performing(r)'
  BY <1>3, <1>4 DEF Smooth, Current, Performing, Inv, SInv
<1>6. SuccessIsReal' /\ stateFile'.taskState # "FAILED"
  BY <1>3 DEF Inv, SInv, SuccessIsReal, Performed
<1>7. Following'
  <2>1. CASE UNCHANGED active
    <3>1. \A e \in Devices : ~ Coming(r, e)
      BY <1>3 DEF Coming
    <3>. QED
      BY <1>2, <1>3, <2>1, <3>1, FollowingKept
  <2>2. CASE kind = "trigger" /\ \A e \in Devices : active' = {e} => e = d
    <3>1. Coming(r, d)'
      BY <1>4, <2>2 DEF Coming
    <3>. QED
      BY <2>2, <3>1 DEF Following
  <2>. QED
    BY <2>1, <2>2
<1>. QED
  BY <1>2, <1>3, <1>5, <1>6, <1>7, StepAlone DEF Inv, IInv, TypeOK

\* The state file may be replaced by a record that is neither a failure nor a
\* success.
LEMMA RecordKept ==
  ASSUME Inv,
         \/ UNCHANGED <<stateFile, owner, nextHop>>
         \/ stateFile'.taskState \in {"NEVER_RUN", "RUNNING"}
         \/ /\ stateFile'.taskState = "SUCCEEDED"
            /\ stateFile'.failoverOperations = NoOperations
  PROVE  SuccessIsReal' /\ stateFile'.taskState # "FAILED"
<1>1. CASE UNCHANGED <<stateFile, owner, nextHop>>
  BY <1>1 DEF Inv, SInv, SuccessIsReal, Performed
<1>2. CASE stateFile'.taskState \in {"NEVER_RUN", "RUNNING"}
  BY <1>2 DEF SuccessIsReal
<1>3. CASE stateFile'.taskState = "SUCCEEDED" /\ stateFile'.failoverOperations = NoOperations
  BY <1>3 DEF SuccessIsReal, Performed, NoOperations, Null
<1>. QED
  BY <1>1, <1>2, <1>3

\* A request that is closed, or goes to an early position, with nothing in hand.
LEMMA ClosedKept ==
  ASSUME Inv, NEW r \in Requests, pc[r] # "update", UNCHANGED work,
         pc'[r] \in {"closed", "answer", "neverRun", "snapshot"}
  PROVE  Smooth(r)' /\ Current(r)' /\ Performing(r)'
BY DEF Inv, SInv, Smooth, Current, Performing

\* The step of an open request.
LEMMA OpenStep ==
  ASSUME Inv, NEW r \in Requests, pc[r] \in Open, Continue(r) \/ CloudCall(r),
         Following', SuccessIsReal', stateFile'.taskState # "FAILED",
         Smooth(r)', Current(r)', Performing(r)'
  PROVE  SInv'
<1>1. Alone(r)
  BY AloneWhenOpen
<1>2. \A q \in Requests \ {r} :
        pc'[q] = pc[q] /\ client'[q] = client[q] /\ work'[q] = work[q]
  BY OthersKept DEF Inv, IInv
<1>. QED
  BY <1>1, <1>2, StepAlone

\* The request is answered, or starts.
LEMMA EarlyKept ==
  ASSUME Undisturbed, Inv, NEW r \in Requests,
         ReadStateFile(r) \/ WriteNeverRun(r) \/ Answer(r) \/ Reset(r)
  PROVE  SInv'
<1>. USE DEF Inv, IInv, TypeOK
<1>1. /\ pc[r] \in {"read", "neverRun", "answer", "reset"} /\ Continue(r)
      /\ UNCHANGED <<active, owner, nextHop, work>>
  BY DEF ReadStateFile, WriteNeverRun, Answer, Reset, Continue, cloud
<1>2. pc[r] \in Open \ Holding
  BY <1>1 DEF Open, Holding
<1>3. ~ AlreadyExecuting(r) /\ ~ Fault /\ ExecuteFrom = "snapshot"
  BY <1>2, FileFree, NoFaults DEF AlreadyExecuting, ExecuteFrom, Undisturbed
<1>4. \/ pc'[r] = "closed" /\ ~ (pc[r] \in {"read", "neverRun"} /\ client[r].kind = "trigger")
      \/ /\ pc'[r] \in {"neverRun", "snapshot"} /\ client' = client
         /\ pc[r] \in {"read", "neverRun"}
         /\ pc'[r] = "neverRun" \/ client[r].kind = "trigger"
  <2>1. CASE ReadStateFile(r)
    BY <1>3, <2>1 DEF ReadStateFile, Goto, Close
  <2>2. CASE WriteNeverRun(r)
    BY <1>3, <2>2 DEF WriteNeverRun, Goto, Close, UploadFails
  <2>3. CASE Answer(r) \/ Reset(r)
    BY <2>3 DEF Answer, Reset, Close, Goto
  <2>. QED
    BY <2>1, <2>2, <2>3
<1>5. Smooth(r)' /\ Current(r)' /\ Performing(r)'
  BY <1>1, <1>4, ClosedKept
<1>6. SuccessIsReal' /\ stateFile'.taskState # "FAILED"
  <2>1. CASE UNCHANGED stateFile
    BY <1>1, <2>1, RecordKept
  <2>2. CASE stateFile' = StateObject(client[r], "NEVER_RUN", NoOperations)
    BY <2>2, RecordKept DEF StateObject
  <2>3. CASE stateFile' = StateObject(client[r], "SUCCEEDED", NoOperations)
    BY <2>3, RecordKept DEF StateObject
  <2>. QED
    BY <1>3, <2>1, <2>2, <2>3
       DEF ReadStateFile, WriteNeverRun, Answer, Reset, Upload, UploadFails
<1>7. \A d \in Devices : Coming(r, d) => Coming(r, d)'
  BY <1>1, <1>4 DEF Coming
<1>8. Following'
  BY <1>1, <1>2, <1>7, AloneWhenOpen, FollowingKept
<1>. QED
  BY <1>1, <1>2, <1>5, <1>6, <1>8, OpenStep

\* The task is found to be that of an active device, or not, and finds the
\* state file free.
LEMMA WaitKept ==
  ASSUME Undisturbed, Inv, NEW r \in Requests,
         Snapshot(r) \/ PollFree(r) \/ PollRecover(r) \/ PollAgain(r) \/ GiveUp(r)
  PROVE  SInv'
<1>. USE DEF Inv, IInv, TypeOK
<1>1. /\ pc[r] \in {"snapshot", "wait"} /\ Continue(r)
      /\ UNCHANGED <<stateFile, active, owner, nextHop, work>>
  BY DEF Snapshot, PollFree, PollRecover, PollAgain, GiveUp, Continue, cloud
<1>2. pc[r] \in Open \ Holding /\ ~ Fault
  BY <1>1, NoFaults DEF Open, Holding
<1>3. stateFile.taskState \notin {"RUNNING", "FAILED"}
  BY <1>2, FileFree
<1>4. Smooth(r) /\ Current(r)
  BY DEF SInv
<1>5. CASE Snapshot(r)
  <2>1. /\ pc[r] = "snapshot" /\ pc'[r] = "wait"
        /\ client' = [client EXCEPT ![r].hostname = client[r].host,
                                    ![r].active = (client[r].host \in active),
                                    ![r].retries = MaxRetries]
    BY <1>2, <1>5 DEF Snapshot, Goto
  <2>2. /\ client'[r].host = client[r].host
        /\ client'[r].active = (client[r].host \in active)
        /\ client'[r].retries = MaxRetries
    <3>. DEFINE act == (client[r].host \in active)
                c == [client[r] EXCEPT !.hostname = client[r].host]
                k == [c EXCEPT !.active = act]
    <3>1. c \in Client /\ c.host = client[r].host
      BY DEF Client
    <3>2. act \in BOOLEAN
      OBVIOUS
    <3>3. client'[r] = [k EXCEPT !.retries = MaxRetries]
      BY <2>1
    <3>. HIDE DEF c, act
    <3>4. k \in Client /\ k.host = c.host
      BY <3>1, <3>2 DEF Client
    <3>5. k.active = act
      BY <3>1, Zenon DEF Client
    <3>. HIDE DEF k
    <3>6. /\ [k EXCEPT !.retries = MaxRetries].host = k.host
          /\ [k EXCEPT !.retries = MaxRetries].retries = MaxRetries
      BY <3>4 DEF Client
    <3>7. [k EXCEPT !.retries = MaxRetries].active = k.active
      BY <3>4, Zenon DEF Client
    <3>8. client'[r].host = client[r].host /\ client'[r].retries = MaxRetries
      BY <3>1, <3>3, <3>4, <3>6
    <3>9. client'[r].active = act
      BY <3>3, <3>5, <3>7, Zenon
    <3>. QED
      BY <3>8, <3>9 DEF act
  <2>3. Smooth(r)'
    BY <1>1, <1>4, <2>1, <2>2, BoundAssumption DEF Smooth
  <2>4. Current(r)' /\ Performing(r)'
    BY <1>1, <2>1, <2>2 DEF Current, Performing
  <2>5. \A d \in Devices : active = {d} /\ Coming(r, d) => Coming(r, d)'
    BY <2>1, <2>2 DEF Coming
  <2>6. Following'
    BY <1>1, <1>2, <2>5, AloneWhenOpen, FollowingKept
  <2>. QED
    BY <1>1, <1>2, <2>3, <2>4, <2>6, RecordKept, OpenStep
<1>6. CASE PollFree(r)
  <2>1. pc[r] = "wait" /\ pc'[r] = "lock" /\ client' = client
    BY <1>6 DEF PollFree, Goto
  <2>2. Smooth(r)' /\ Current(r)' /\ Performing(r)'
    BY <1>1, <1>4, <2>1 DEF Smooth, Current, Performing
  <2>3. \A d \in Devices : Coming(r, d) => Coming(r, d)'
    BY <2>1 DEF Coming
  <2>4. Following'
    BY <1>1, <1>2, <2>3, AloneWhenOpen, FollowingKept
  <2>. QED
    BY <1>1, <1>2, <2>2, <2>4, RecordKept, OpenStep
<1>7. ~ (PollRecover(r) \/ PollAgain(r) \/ GiveUp(r))
  BY <1>2, <1>3, <1>4 DEF PollRecover, PollAgain, GiveUp, Smooth
<1>. QED
  BY <1>5, <1>6, <1>7

\* The task takes the state file.
LEMMA LockKept ==
  ASSUME Undisturbed, Inv, NEW r \in Requests, Lock(r) \/ Recover(r) \/ Fail(r)
  PROVE  SInv'
<1>. USE DEF Inv, IInv, TypeOK
<1>1. Smooth(r) /\ Current(r) /\ ~ Fault
  BY NoFaults DEF SInv
<1>2. /\ pc[r] = "lock" /\ pc'[r] = "discover" /\ client' = client
      /\ stateFile' = StateObject(client[r], "RUNNING", NoOperations)
      /\ UNCHANGED <<active, owner, nextHop, work>>
  BY <1>1 DEF Lock, Recover, Fail, Smooth, Upload, UploadFails, Goto, cloud
<1>3. Continue(r) /\ pc[r] \in Open
  BY <1>2 DEF Continue, Smooth, Open, Recover, Fail
<1>4. stateFile'.taskState = "RUNNING"
  BY <1>2 DEF StateObject
<1>5. Smooth(r)' /\ Current(r)' /\ Performing(r)'
  BY <1>1, <1>2, <1>4 DEF Smooth, Current, Performing
<1>6. \A d \in Devices : Coming(r, d) => Coming(r, d)'
  BY <1>2 DEF Coming
<1>7. Following'
  BY <1>2, <1>3, <1>6, AloneWhenOpen, FollowingKept
<1>. QED
  BY <1>3, <1>4, <1>5, <1>7, RecordKept, OpenStep

\* The task discovers what is elsewhere.
LEMMA DiscoverKept ==
  ASSUME Undisturbed, Inv, NEW r \in Requests, Discover(r)
  PROVE  SInv'
<1>. USE DEF Inv, IInv, TypeOK
<1>1. Smooth(r) /\ Current(r) /\ ~ Fault /\ Continue(r)
  BY NoFaults DEF SInv, Continue
<1>2. /\ pc[r] = "discover" /\ pc'[r] = "log" /\ pc[r] \in Open
      /\ UNCHANGED <<stateFile, active, owner, nextHop, work>>
  BY <1>1 DEF Discover, Goto, cloud, Open, Holding
<1>3. ~ client[r].hasActive
  BY <1>2 DEF AInv, Late, Finished
<1>4. /\ client'[r].host = client[r].host
      /\ \/ ~ client'[r].hasActive /\ ~ client[r].active
         \/ client'[r].hasActive /\ client[r].active
      /\ client'[r].addresses.ops =
           IF client'[r].hasActive THEN AddressOperations(client[r].host) ELSE {}
      /\ client'[r].routes.ops =
           IF client'[r].hasActive /\ RoutesEnabled
           THEN RouteOperations(client[r].host) ELSE {}
  <2>1. CASE /\ ~ client[r].active
             /\ client' = [client EXCEPT ![r].addresses = Empty, ![r].routes = Empty]
    <3>1. /\ client'[r].host = client[r].host
          /\ client'[r].addresses = Empty /\ client'[r].routes = Empty
      BY <2>1 DEF Client
    <3>2. ~ client'[r].hasActive
      BY <1>3, <2>1 DEF Client
    <3>. QED
      BY <2>1, <3>1, <3>2 DEF Empty
  <2>2. CASE /\ client[r].active
             /\ client' = [client EXCEPT ![r].hasActive = TRUE,
                                         ![r].addresses = FirstUpdate(client[r].host),
                                         ![r].routes = SecondUpdate(client[r].host)]
    <3>1. /\ client'[r].host = client[r].host
          /\ client'[r].addresses = FirstUpdate(client[r].host)
          /\ client'[r].routes = SecondUpdate(client[r].host)
      BY <2>2 DEF Client
    <3>2. client'[r].hasActive
      BY <2>2 DEF Client
    <3>3. FirstUpdate(client[r].host).ops = AddressOperations(client[r].host)
      BY DEF Undisturbed, FirstUpdate, Found
    <3>4. SecondUpdate(client[r].host).ops =
            IF RoutesEnabled THEN RouteOperations(client[r].host) ELSE {}
      BY DEF Undisturbed, SecondUpdate, Found, Empty
    <3>. QED
      BY <2>2, <3>1, <3>2, <3>3, <3>4
  <2>. QED
    BY <1>1, <2>1, <2>2 DEF Discover
<1>5. AddressOperations(client[r].host)' = AddressOperations(client[r].host)
      /\ RouteOperations(client[r].host)' = RouteOperations(client[r].host)
  BY <1>2, <1>4 DEF AddressOperations, RouteOperations
<1>6. Smooth(r)' /\ Performing(r)'
  BY <1>1, <1>2 DEF Smooth, Performing
<1>7. Current(r)'
  BY <1>1, <1>2, <1>4, <1>5 DEF Current
<1>8. \A d \in Devices : Coming(r, d) => Coming(r, d)'
  BY <1>2, <1>4 DEF Coming
<1>9. Following'
  BY <1>2, <1>8, AloneWhenOpen, FollowingKept
<1>. QED
  BY <1>1, <1>2, <1>6, <1>7, <1>9, RecordKept, OpenStep

\* What a task has in hand when it has written its second record.
LEMMA UpdatesTyping ==
  ASSUME NEW c \in Client
  PROVE  /\ Updates(c).stranded = {} /\ ~ Updates(c).broken
         /\ Updates(c).detaching = Updates(c).attaching
         /\ Updates(c).attaching =
              IF c.hasActive /\ AddressesEnabled THEN c.addresses.ops ELSE {}
         /\ Updates(c).rerouting =
              IF c.hasActive /\ RoutesEnabled THEN c.routes.ops ELSE {}
BY DEF Updates, NoWork

\* While no task updates the cloud every address is on a device.
LEMMA AllAssigned ==
  ASSUME Inv, NEW r \in Requests, pc[r] = "log"
  PROVE  \A a \in Addresses : owner[a] # Nowhere
<1>1. \A q \in Requests : pc[q] # "update"
  BY DEF Inv, SInv, OneOpen, Open, Holding
<1>2. \A q \in Requests : work[q].attaching = {} /\ work[q].stranded = {}
  BY <1>1 DEF Inv, SInv, Smooth
<1>. QED
  BY <1>2 DEF Inv, IInv, UnassignedIsCarried, Carries

\* The task writes down what it has discovered, and issues the calls for it.
LEMMA LogKept ==
  ASSUME Undisturbed, Inv, NEW r \in Requests, Log(r)
  PROVE  SInv'
<1>. USE DEF Inv, IInv, TypeOK
<1>. DEFINE h == client[r].host
<1>1. Smooth(r) /\ Current(r) /\ ~ Fault /\ Continue(r)
  BY NoFaults DEF SInv, Continue
<1>2. /\ pc[r] = "log" /\ pc'[r] = "update" /\ pc[r] \in Open
      /\ UNCHANGED <<active, owner, nextHop, client>>
      /\ stateFile' = StateObject(client[r], "RUNNING", Discovered(client[r]))
      /\ work'[r] = Updates(client[r])
  BY <1>1 DEF Log, Goto, AfterLog, cloud, Open, Holding, Upload, UploadFails
<1>3. stateFile'.taskState = "RUNNING"
  BY <1>2 DEF StateObject
<1>4. /\ client[r].hasActive => h \in active
      /\ client[r].addresses.ops = IF client[r].hasActive THEN AddressOperations(h) ELSE {}
      /\ client[r].routes.ops =
           IF client[r].hasActive /\ RoutesEnabled THEN RouteOperations(h) ELSE {}
  BY <1>1, <1>2 DEF Current
<1>5. /\ work'[r].stranded = {} /\ ~ work'[r].broken
      /\ work'[r].detaching = work'[r].attaching
      /\ work'[r].attaching = client[r].addresses.ops
      /\ work'[r].rerouting = client[r].routes.ops
  BY <1>2, <1>4, UpdatesTyping DEF Undisturbed
<1>6. /\ \A op \in AddressOperations(h) :
           /\ op.item \in Addresses /\ op.to = h /\ op.from # h /\ owner[op.item] = op.from
           /\ \A x \in AddressOperations(h) : x.item = op.item => x = op
      /\ \A a \in Addresses : owner[a] = h \/ \E op \in AddressOperations(h) : op.item = a
  <2>1. ASSUME NEW op \in AddressOperations(h)
        PROVE  /\ op.item \in Addresses /\ op.to = h /\ op.from # h
               /\ owner[op.item] = op.from
               /\ op = [item |-> op.item, from |-> owner[op.item], to |-> h]
    BY <2>1 DEF AddressOperations
  <2>2. \A op, x \in AddressOperations(h) : x.item = op.item => x = op
    BY <2>1
  <2>3. ASSUME NEW a \in Addresses, owner[a] # h
        PROVE  \E op \in AddressOperations(h) : op.item = a
    <3>1. owner[a] \notin {h, Nowhere}
      BY <1>2, <2>3, AllAssigned
    <3>2. [item |-> a, from |-> owner[a], to |-> h] \in AddressOperations(h)
      BY <3>1 DEF AddressOperations
    <3>. QED
      BY <3>2
  <2>. QED
    BY <2>1, <2>2, <2>3
<1>7. /\ \A op \in RouteOperations(h) : op.item \in Routes /\ op.to = h
      /\ \A n \in Routes : nextHop[n] = h \/ \E op \in RouteOperations(h) : op.item = n
  <2>1. \A op \in RouteOperations(h) : op.item \in Routes /\ op.to = h
    BY DEF RouteOperations
  <2>2. ASSUME NEW n \in Routes, nextHop[n] # h
        PROVE  \E op \in RouteOperations(h) : op.item = n
    <3>1. [item |-> n, from |-> nextHop[n], to |-> h] \in RouteOperations(h)
      BY <2>2 DEF RouteOperations
    <3>. QED
      BY <3>1
  <2>. QED
    BY <2>1, <2>2
<1>8. Smooth(r)'
  BY <1>2, <1>3, <1>5 DEF Smooth
<1>9. Current(r)'
  BY <1>2, <1>4 DEF Current
<1>10. Performing(r)'
  BY <1>2, <1>4, <1>5, <1>6, <1>7 DEF Performing
<1>11. \A d \in Devices : Coming(r, d) => Coming(r, d)'
  BY <1>2 DEF Coming
<1>12. Following'
  BY <1>2, <1>11, AloneWhenOpen, FollowingKept
<1>. QED
  BY <1>1, <1>2, <1>3, <1>8, <1>9, <1>10, <1>12, RecordKept, OpenStep

\* The record of a success says what has been done.
LEMMA PassKept ==
  ASSUME Undisturbed, Inv, NEW r \in Requests, Pass(r)
  PROVE  SInv'
<1>. USE DEF Inv, IInv, TypeOK
<1>1. Smooth(r) /\ Current(r) /\ Performing(r) /\ ~ Fault /\ Continue(r)
  BY NoFaults DEF SInv, Continue
<1>2. /\ pc[r] = "update" /\ pc'[r] = "answer" /\ pc[r] \in Open
      /\ work[r].detaching = {} /\ work[r].attaching = {} /\ work[r].rerouting = {}
      /\ UNCHANGED <<active, owner, nextHop, client, work>>
      /\ stateFile' = StateObject(client[r], "SUCCEEDED", Discovered(client[r]))
  BY <1>1 DEF Pass, Updating, Goto, cloud, Open, Holding, Upload, UploadFails
<1>3. /\ stateFile'.taskState = "SUCCEEDED"
      /\ stateFile'.failoverOperations.addresses = client[r].addresses
      /\ stateFile'.failoverOperations.routes = client[r].routes
  BY <1>2 DEF StateObject, Discovered
<1>4. SuccessIsReal'
  <2>1. \A op \in client[r].addresses.ops : op.item \in Addresses /\ owner[op.item] = op.to
    BY <1>1, <1>2 DEF Performing
  <2>2. \A op \in client[r].routes.ops : op.item \in Routes /\ nextHop[op.item] = op.to
    BY <1>1, <1>2 DEF Performing
  <2>. QED
    BY <1>2, <1>3, <2>1, <2>2, ItemsAssumption DEF SuccessIsReal, Performed
<1>5. Smooth(r)' /\ Current(r)' /\ Performing(r)'
  BY <1>1, <1>2 DEF Smooth, Current, Performing
<1>6. \A d \in Devices : Coming(r, d) => At(d)
  BY <1>1, <1>2 DEF Coming, Performing, At
<1>7. Following'
  BY <1>2, <1>6, AloneWhenOpen, FollowingKept
<1>. QED
  BY <1>1, <1>2, <1>3, <1>4, <1>5, <1>7, OpenStep

\* A call to the cloud is one of a task whose device is active.
LEMMA CallerActive ==
  ASSUME Inv, NEW r \in Requests,
         work[r].detaching # {} \/ work[r].attaching # {} \/ work[r].rerouting # {}
  PROVE  /\ pc[r] = "update" /\ pc[r] \in Open /\ client[r].hasActive
         /\ client[r].host \in active /\ client[r].host \in Devices
         /\ stateFile.taskState = "RUNNING" /\ Performing(r) /\ Smooth(r)
<1>1. Smooth(r) /\ Current(r) /\ Performing(r)
  BY DEF Inv, SInv
<1>2. pc[r] = "update"
  BY <1>1 DEF Smooth
<1>3. work[r].attaching # {} \/ work[r].rerouting # {}
  BY DEF Inv, IInv, WorkOrdered
<1>4. client[r].hasActive
  BY <1>1, <1>2, <1>3 DEF Performing
<1>. QED
  BY <1>1, <1>2, <1>4 DEF Smooth, Current, Inv, IInv, HostKnown, Open, Holding

\* While it updates the cloud its device is about to get everything.
LEMMA CallKept ==
  ASSUME Undisturbed, Inv, NEW r \in Requests, CloudCall(r),
         pc[r] = "update", client[r].hasActive, client[r].host \in active,
         stateFile.taskState = "RUNNING",
         UNCHANGED <<stateFile, active, client, pc>>, Smooth(r)', Performing(r)'
  PROVE  SInv'
<1>1. Current(r)'
  BY DEF Current
<1>2. Coming(r, client[r].host)'
  BY DEF Coming
<1>3. Following'
  BY <1>2 DEF Following
<1>. QED
  BY <1>1, <1>3, RecordKept, OpenStep DEF Open, Holding

\* An address is where it was discovered, and is taken from there.
LEMMA DetachKept ==
  ASSUME Undisturbed, Inv, NEW r \in Requests, NEW op \in work[r].detaching,
         DetachAddress(r, op)
  PROVE  SInv'
<1>. USE DEF Inv, IInv, TypeOK
<1>1. /\ pc[r] = "update" /\ client[r].hasActive /\ client[r].host \in active
      /\ stateFile.taskState = "RUNNING" /\ Performing(r) /\ Smooth(r)
  BY CallerActive
<1>2. op \in work[r].attaching
  BY DEF WorkOrdered
<1>3. /\ op.item \in Addresses /\ op.to = client[r].host /\ op.from # op.to
      /\ owner[op.item] = op.from
      /\ \A x \in work[r].attaching : x.item = op.item => x = op
  BY <1>1, <1>2 DEF Performing
<1>4. /\ owner' = [owner EXCEPT ![op.item] = Nowhere]
      /\ work' = [work EXCEPT ![r] = Detached(work[r], op)]
      /\ UNCHANGED <<stateFile, active, nextHop, client, pc>>
  BY <1>3, NoFaults DEF DetachAddress
<1>5. /\ work'[r].detaching = work[r].detaching \ {op}
      /\ work'[r].attaching = work[r].attaching /\ work'[r].stranded = work[r].stranded
      /\ work'[r].rerouting = work[r].rerouting /\ work'[r].broken = work[r].broken
  <2>1. work[r] \in Work /\ work'[r] = Detached(work[r], op)
    BY <1>4
  <2>2. /\ Detached(work[r], op).rerouting = work[r].rerouting
        /\ Detached(work[r], op).broken = work[r].broken
    <3>. DEFINE v == [work[r] EXCEPT !.detaching = @ \ {op}]
                stage == IF work[r].detaching = {op} /\ ~work[r].broken
                         THEN "attach" ELSE work[r].stage
    <3>1. v \in Work /\ v.rerouting = work[r].rerouting
      BY <2>1 DEF Work
    <3>2. v.broken = work[r].broken
      BY <2>1, Zenon DEF Work
    <3>3. Detached(work[r], op) = [v EXCEPT !.stage = stage]
      BY DEF Detached
    <3>. HIDE DEF v, stage
    <3>4. [v EXCEPT !.stage = stage].rerouting = v.rerouting
      BY <3>1 DEF Work
    <3>5. [v EXCEPT !.stage = stage].broken = v.broken
      BY <3>1, Zenon DEF Work
    <3>. QED
      BY <3>1, <3>2, <3>3, <3>4, <3>5, Zenon
  <2>3. /\ Detached(work[r], op).detaching = work[r].detaching \ {op}
        /\ Detached(work[r], op).attaching = work[r].attaching
        /\ Detached(work[r], op).stranded = work[r].stranded
    BY <2>1, DetachedTyping
  <2>. QED
    BY <2>1, <2>2, <2>3, Zenon
<1>6. Smooth(r)'
  BY <1>1, <1>4, <1>5 DEF Smooth
<1>7. owner'[op.item] = Nowhere /\ \A a \in Addresses \ {op.item} : owner'[a] = owner[a]
  BY <1>3, <1>4
<1>8. Performing(r)'
  <2>1. ASSUME NEW x \in work[r].attaching
        PROVE  /\ x.item \in Addresses /\ x.to = client[r].host /\ x.from # client[r].host
               /\ owner'[x.item] = IF x \in work'[r].detaching THEN x.from ELSE Nowhere
               /\ \A y \in work[r].attaching : y.item = x.item => y = x
    <3>1. /\ x.item \in Addresses /\ x.to = client[r].host /\ x.from # client[r].host
          /\ owner[x.item] = IF x \in work[r].detaching THEN x.from ELSE Nowhere
          /\ \A y \in work[r].attaching : y.item = x.item => y = x
      BY <1>1, <2>1 DEF Performing
    <3>2. x = op \/ (x # op /\ x.item # op.item)
      BY <1>3, <2>1
    <3>. QED
      BY <1>5, <1>7, <3>1, <3>2
  <2>2. ASSUME NEW x \in client[r].addresses.ops
        PROVE  /\ x.item \in Addresses /\ x.to = client[r].host
               /\ x \in work[r].attaching \/ owner'[x.item] = x.to
    BY <1>1, <1>3, <1>7, <2>2 DEF Performing
  <2>3. \A a \in Addresses :
          owner'[a] = client[r].host \/ \E x \in work[r].attaching : x.item = a
    BY <1>1, <1>2, <1>7 DEF Performing
  <2>. QED
    BY <1>1, <1>4, <1>5, <2>1, <2>2, <2>3 DEF Performing
<1>9. CloudCall(r)
  BY DEF CloudCall
<1>. QED
  BY <1>1, <1>4, <1>6, <1>8, <1>9, CallKept

\* Nobody has an address that is to be attached: it arrives.
LEMMA AttachKept ==
  ASSUME Undisturbed, Inv, NEW r \in Requests, NEW op \in work[r].attaching,
         AttachAddress(r, op)
  PROVE  SInv'
<1>. USE DEF Inv, IInv, TypeOK
<1>1. /\ pc[r] = "update" /\ client[r].hasActive /\ client[r].host \in active
      /\ client[r].host \in Devices
      /\ stateFile.taskState = "RUNNING" /\ Performing(r) /\ Smooth(r)
  BY CallerActive
<1>2. work[r].detaching = {}
  BY DEF WorkOrdered, AttachAddress
<1>3. /\ op.item \in Addresses /\ op.to = client[r].host /\ owner[op.item] = Nowhere
      /\ \A x \in work[r].attaching : x.item = op.item => x = op
  BY <1>1, <1>2 DEF Performing
<1>4. /\ owner' = [owner EXCEPT ![op.item] = op.to]
      /\ work' = [work EXCEPT ![r].attaching = @ \ {op}]
      /\ UNCHANGED <<stateFile, active, nextHop, client, pc>>
  BY <1>3, NoFaults DEF AttachAddress
<1>5. /\ work'[r].detaching = work[r].detaching
      /\ work'[r].attaching = work[r].attaching \ {op}
      /\ work'[r].stranded = work[r].stranded
      /\ work'[r].rerouting = work[r].rerouting /\ work'[r].broken = work[r].broken
  BY <1>4 DEF Work
<1>6. Smooth(r)'
  BY <1>1, <1>4, <1>5 DEF Smooth
<1>7. owner'[op.item] = op.to /\ \A a \in Addresses \ {op.item} : owner'[a] = owner[a]
  BY <1>3, <1>4
<1>8. Performing(r)'
  <2>1. ASSUME NEW x \in work'[r].attaching
        PROVE  /\ x.item \in Addresses /\ x.to = client[r].host /\ x.from # client[r].host
               /\ owner'[x.item] = IF x \in work'[r].detaching THEN x.from ELSE Nowhere
               /\ \A y \in work'[r].attaching : y.item = x.item => y = x
    <3>1. x \in work[r].attaching /\ x # op
      BY <1>5, <2>1
    <3>2. x.item # op.item
      BY <1>3, <3>1
    <3>3. /\ x.item \in Addresses /\ x.to = client[r].host /\ x.from # client[r].host
          /\ owner[x.item] = IF x \in work[r].detaching THEN x.from ELSE Nowhere
          /\ \A y \in work[r].attaching : y.item = x.item => y = x
      BY <1>1, <3>1 DEF Performing
    <3>. QED
      BY <1>5, <1>7, <3>2, <3>3
  <2>2. ASSUME NEW x \in client[r].addresses.ops
        PROVE  /\ x.item \in Addresses /\ x.to = client[r].host
               /\ x \in work'[r].attaching \/ owner'[x.item] = x.to
    <3>1. /\ x.item \in Addresses /\ x.to = client[r].host
          /\ x \in work[r].attaching \/ owner[x.item] = x.to
      BY <1>1, <2>2 DEF Performing
    <3>. QED
      BY <1>3, <1>5, <1>7, <3>1
  <2>3. \A a \in Addresses :
          owner'[a] = client[r].host \/ \E x \in work'[r].attaching : x.item = a
    <3>1. \A a \in Addresses :
            owner[a] = client[r].host \/ \E x \in work[r].attaching : x.item = a
      BY <1>1 DEF Performing
    <3>. QED
      BY <1>3, <1>5, <1>7, <3>1
  <2>. QED
    BY <1>1, <1>4, <1>5, <2>1, <2>2, <2>3 DEF Performing
<1>9. CloudCall(r)
  BY DEF CloudCall
<1>. QED
  BY <1>1, <1>4, <1>6, <1>8, <1>9, CallKept

\* A route is pointed to the task's device.
LEMMA RerouteKept ==
  ASSUME Undisturbed, Inv, NEW r \in Requests, NEW op \in work[r].rerouting,
         UpdateRoute(r, op)
  PROVE  SInv'
<1>. USE DEF Inv, IInv, TypeOK
<1>1. /\ pc[r] = "update" /\ client[r].hasActive /\ client[r].host \in active
      /\ stateFile.taskState = "RUNNING" /\ Performing(r) /\ Smooth(r)
  BY CallerActive
<1>2. op.item \in Routes /\ op.to = client[r].host
  BY <1>1 DEF Performing
<1>3. /\ nextHop' = [nextHop EXCEPT ![op.item] = op.to]
      /\ work' = [work EXCEPT ![r].rerouting = @ \ {op}]
      /\ UNCHANGED <<stateFile, active, owner, client, pc>>
  BY NoFaults DEF UpdateRoute
<1>4. /\ work'[r].detaching = work[r].detaching
      /\ work'[r].attaching = work[r].attaching
      /\ work'[r].stranded = work[r].stranded
      /\ work'[r].rerouting = work[r].rerouting \ {op}
      /\ work'[r].broken = work[r].broken
  BY <1>3 DEF Work
<1>5. Smooth(r)'
  BY <1>1, <1>3, <1>4 DEF Smooth
<1>6. /\ nextHop'[op.item] = client[r].host
      /\ \A n \in Routes \ {op.item} : nextHop'[n] = nextHop[n]
  BY <1>2, <1>3
<1>7. Performing(r)'
  <2>1. ASSUME NEW x \in client[r].routes.ops
        PROVE  /\ x.item \in Routes /\ x.to = client[r].host
               /\ x \in work'[r].rerouting \/ nextHop'[x.item] = x.to
    <3>1. /\ x.item \in Routes /\ x.to = client[r].host
          /\ x \in work[r].rerouting \/ nextHop[x.item] = x.to
      BY <1>1, <2>1 DEF Performing
    <3>. QED
      BY <1>4, <1>6, <3>1
  <2>2. RoutesEnabled => \A n \in Routes :
          nextHop'[n] = client[r].host \/ \E x \in work'[r].rerouting : x.item = n
    <3>1. RoutesEnabled => \A n \in Routes :
            nextHop[n] = client[r].host \/ \E x \in work[r].rerouting : x.item = n
      BY <1>1 DEF Performing
    <3>. QED
      BY <1>4, <1>6, <3>1
  <2>. QED
    BY <1>1, <1>3, <1>4, <2>1, <2>2 DEF Performing
<1>8. CloudCall(r)
  BY DEF CloudCall
<1>. QED
  BY <1>1, <1>3, <1>5, <1>7, <1>8, CallKept

\* In the deployment a declaration describes the active device has everything.
LEMMA InitSInv == Undisturbed /\ Init => SInv
<1>. SUFFICES ASSUME Undisturbed, Init PROVE SInv
  OBVIOUS
<1>1. /\ \A r \in Requests : /\ pc[r] = "idle" /\ work[r].stranded = {} /\ ~ work[r].broken
                             /\ work[r].detaching = {} /\ work[r].attaching = {}
                             /\ work[r].rerouting = {}
      /\ stateFile.taskState = "ABSENT"
  BY DEF Init, NoWork
<1>2. \A r \in Requests : Smooth(r) /\ Current(r) /\ Performing(r)
  BY <1>1 DEF Smooth, Current, Performing
<1>3. Following
  BY DEF Init, Following, At
<1>. QED
  BY <1>1, <1>2, <1>3 DEF SInv, OneOpen, SuccessIsReal, Open, Holding

\* The passage of time and the end of everything change nothing that matters.
LEMMA IdleKept ==
  ASSUME Inv, TimePasses \/ UNCHANGED vars
  PROVE  SInv'
<1>1. /\ UNCHANGED <<active, owner, nextHop, pc, client, work>>
      /\ stateFile'.taskState = stateFile.taskState
      /\ stateFile'.failoverOperations = stateFile.failoverOperations
  BY DEF TimePasses, vars, cloud, Inv, IInv, TypeOK, StateFile
<1>2. OneOpen' /\ Following' /\ SuccessIsReal' /\ stateFile'.taskState # "FAILED"
  BY <1>1 DEF Inv, SInv, OneOpen, Following, At, Coming, SuccessIsReal, Performed
<1>3. ASSUME NEW r \in Requests PROVE Smooth(r)' /\ Current(r)' /\ Performing(r)'
  <2>1. Smooth(r) /\ Current(r) /\ Performing(r)
    BY DEF Inv, SInv
  <2>2. /\ \A d : AddressOperations(d)' = AddressOperations(d)
        /\ \A d : RouteOperations(d)' = RouteOperations(d)
    BY <1>1 DEF AddressOperations, RouteOperations
  <2>. QED
    BY <1>1, <2>1, <2>2 DEF Smooth, Current, Performing
<1>. QED
  BY <1>2, <1>3 DEF SInv

\* Every step preserves it.
LEMMA NextSInv == Undisturbed /\ Inv /\ [Next]_vars => SInv'
<1>. SUFFICES ASSUME Undisturbed, Inv, [Next]_vars PROVE SInv'
  OBVIOUS
<1>1. ASSUME NEW r \in Requests, Continue(r) PROVE SInv'
  BY <1>1, EarlyKept, WaitKept, LockKept, DiscoverKept, LogKept, PassKept DEF Continue
<1>2. ASSUME NEW r \in Requests, CloudCall(r) PROVE SInv'
  BY <1>2, DetachKept, AttachKept, RerouteKept DEF CloudCall
<1>3. ASSUME NEW r \in Requests, NEW d \in Devices,
             (\E kind \in Kinds : UserRequest(r, d, kind)) \/ TakeOver(r, d) \/ Reconcile(r, d)
      PROVE  SInv'
  <2>1. ASSUME NEW kind \in Kinds, UserRequest(r, d, kind) PROVE SInv'
    BY <2>1, ArriveKept, KindsAssumption DEF UserRequest
  <2>2. CASE TakeOver(r, d) \/ Reconcile(r, d)
    <3>1. Arrive(r, d, "trigger") /\ \A e \in Devices : active' = {e} => e = d
      BY <2>2 DEF TakeOver, Reconcile
    <3>. QED
      BY <3>1, ArriveKept
  <2>. QED
    BY <1>3, <2>1, <2>2
<1>4. ASSUME NEW d \in Devices, Restart(d) PROVE FALSE
  BY <1>4, NoFaults DEF Inv, IInv
<1>. QED
  BY <1>1, <1>2, <1>3, <1>4, IdleKept DEF Next, Done

\* What holds while no two requests overlap and nothing fails.
THEOREM SerialInvariance ==
  ASSUME Undisturbed
  PROVE  Spec => []SInv
<1>1. Init => IInv /\ AInv /\ SInv
  BY InitIInv, InitAInv, InitSInv
<1>2. SInv /\ IInv /\ AInv /\ [Next]_vars => AInv' /\ SInv'
  BY NextAInv, NextSInv DEF Inv, IInv
<1>. QED
  BY <1>1, <1>2, Invariance, PTL DEF Spec

\* However the HA role moves between requests, and whatever requests users
\* send, the device that is alone active ends up with every address
\* (execute, updateAddresses).
THEOREM AddressesDelivered ==
  ASSUME Undisturbed
  PROVE  Spec => []AddressesFollowActive
<1>1. SInv => AddressesFollowActive
  BY DEF SInv, Following, At, Coming, AddressesFollowActive, Quiet, Open, Holding
<1>. QED
  BY <1>1, SerialInvariance, PTL

\* And with every route, when the declaration enables them, too (updateRoutes).
THEOREM RoutesDelivered ==
  ASSUME Undisturbed, RoutesEnabled
  PROVE  Spec => []RoutesFollowActive
<1>1. SInv => RoutesFollowActive
  BY DEF SInv, Following, At, Coming, RoutesFollowActive, Quiet, Open, Holding
<1>. QED
  BY <1>1, SerialInvariance, PTL

\* A success that is recorded is one: until another task takes the state file
\* everything stays where the record says (_createAndUpdateStateObject).
THEOREM SuccessesReal ==
  ASSUME Undisturbed
  PROVE  Spec => []SuccessIsReal
<1>1. SInv => SuccessIsReal
  BY DEF SInv
<1>. QED
  BY <1>1, SerialInvariance, PTL
=============================================================================
