------------------------ MODULE RemoteSyncIdleProofs ------------------------
(***************************************************************************)
(* Once all is quiet, each browser has what the server has, and each tab   *)
(* what its browser has: SyncedWhenIdle, for any number of tabs, browsers  *)
(* and sockets and any budget.                                             *)
(*                                                                         *)
(* SyncInv says of every state what becomes true when nothing is left to   *)
(* do.  RemoteInv: in remoteQueue only the first job is under way.         *)
(* LocalInv: a client knows what the server or its browser has, or an      *)
(* update of its own is queued, and localQueue passes on parents before    *)
(* children.  OrderInv: so does the syncId of a database.  HeardInv: what  *)
(* a database has, or is about to get, each of its tabs knows or will      *)
(* hear of, or has missed.  LeaderInv: a tab that leads is about to        *)
(* connect, or its socket is being closed, or it is connected, and then    *)
(* what its browser has and the server has not is to be uploaded, or on    *)
(* its way in messages that the server will accept, or in localQueue.      *)
(*                                                                         *)
(* Each part holds unless a client threw or a tab died within a job.  What *)
(* the databases and the server hold is known from CursorStepInv.          *)
(***************************************************************************)
EXTENDS RemoteSyncProofs

-----------------------------------------------------------------------------
(* Everybody has everything.                                               *)

(* The last event of a socket that has ended makes the store connect again *)
(* and so does a connect job.                                              *)
Ends(job) == job.op = "error" /\ job.reconnect

Waits(q) == \E job \in Elements(q) : job.op = "connect" \/ Ends(job)

Uploads(q) == \E job \in Elements(q) : job.op = "upload"

(* Only the job at the head of a queue is under way, and a socket's error  *)
(* that does not make the store connect again comes before one that does.  *)
RemoteJobsOK(q) ==
    /\ \A n \in DOMAIN q : q[n].op = "persist" => n = 1
    /\ \A n \in DOMAIN q : q[n].op = "error" /\ ~q[n].reconnect =>
          \E m \in DOMAIN q : n < m /\ Ends(q[m])

RemoteTabOK(tab) ==
    RemoteJobsOK(tab.remoteQueue) /\ (tab.open /\ ~tab.closed => tab.dbOpen)

RemoteInv == \A t \in Tab : RemoteTabOK(tabs[t])

-----------------------------------------------------------------------------
(* The queue of the remote.                                                *)

(* The jobs under way in the second queue are so in the first.             *)
NoNewPersists(q, p) == \A job \in Elements(p) : job.op = "persist" => job \in Elements(q)

(* The second queue has all jobs of the first but its events.              *)
JobsStay(q, p) ==
    \A job \in Elements(q) : job.op \in {"connect", "upload", "error"} => job \in Elements(p)

QueueStep(q, p) ==
    /\ IsQueue(p)
    /\ RemoteJobsOK(q) => RemoteJobsOK(p)
    /\ NoNewPersists(q, p)

LEMMA StepAppend ==
    ASSUME NEW q, IsQueue(q), NEW job, job.op # "persist", job.op = "error" => job.reconnect
    PROVE  QueueStep(q, Append(q, job)) /\ JobsStay(q, Append(q, job))
           /\ job \in Elements(Append(q, job))
<1> DEFINE p == Append(q, job)
<1>1. /\ IsQueue(p) /\ Len(p) = Len(q) + 1 /\ \A n \in 1 .. Len(q) : p[n] = q[n]
      /\ p[Len(q) + 1] = job /\ Elements(p) = Elements(q) \cup {job}
      BY QueueAppend
<1> HIDE DEF p
<1>2. /\ Len(q) \in Nat /\ DOMAIN q = 1 .. Len(q) /\ DOMAIN p = 1 .. Len(p)
      BY <1>1, QueueDomain
<1>3. ASSUME RemoteJobsOK(q)
      PROVE  RemoteJobsOK(p)
  <2>1. ASSUME NEW n \in DOMAIN p, p[n].op = "persist"
        PROVE  n = 1
        BY <1>1, <1>2, <1>3, <2>1 DEF RemoteJobsOK
  <2>2. ASSUME NEW n \in DOMAIN p, p[n].op = "error", ~p[n].reconnect
        PROVE  \E m \in DOMAIN p : n < m /\ Ends(p[m])
    <3>1. n \in DOMAIN q /\ q[n] = p[n]
          BY <1>1, <1>2, <2>2
    <3>2. PICK m \in DOMAIN q : n < m /\ Ends(q[m])
          BY <1>3, <2>2, <3>1 DEF RemoteJobsOK
    <3> QED
        BY <1>1, <1>2, <3>2
  <2> QED
      BY <2>1, <2>2 DEF RemoteJobsOK
<1> QED
    BY <1>1, <1>3 DEF QueueStep, NoNewPersists, JobsStay, p

LEMMA StepTail ==
    ASSUME NEW q, IsQueue(q), q # <<>>
    PROVE  /\ QueueStep(q, Tail(q))
           /\ Head(q).op \notin {"connect", "upload", "error"} => JobsStay(q, Tail(q))
           /\ Elements(q) = Elements(Tail(q)) \cup {Head(q)}
<1> DEFINE p == Tail(q)
<1>1. /\ IsQueue(p) /\ Len(p) = Len(q) - 1 /\ \A n \in 1 .. Len(q) - 1 : p[n] = q[n + 1]
      /\ Elements(q) = Elements(p) \cup {Head(q)}
      BY QueueTail
<1> HIDE DEF p
<1>2. /\ Len(q) \in Nat /\ DOMAIN q = 1 .. Len(q) /\ DOMAIN p = 1 .. Len(p)
      BY <1>1, QueueDomain
<1>3. ASSUME RemoteJobsOK(q)
      PROVE  RemoteJobsOK(p)
  <2>1. ASSUME NEW n \in DOMAIN p
        PROVE  n \in Nat /\ n # 0 /\ n + 1 \in DOMAIN q /\ p[n] = q[n + 1]
        BY <1>1, <1>2
  <2>2. ASSUME NEW n \in DOMAIN p, p[n].op = "error", ~p[n].reconnect
        PROVE  \E m \in DOMAIN p : n < m /\ Ends(p[m])
    <3>1. PICK m \in DOMAIN q : n + 1 < m /\ Ends(q[m])
          BY <1>3, <2>1, <2>2 DEF RemoteJobsOK
    <3>2. m - 1 \in DOMAIN p /\ n < m - 1
          BY <1>1, <1>2, <2>1, <3>1
    <3>3. p[m - 1] = q[m]
          BY <1>2, <2>1, <3>2
    <3> QED
        BY <3>1, <3>2, <3>3
  <2> QED
      BY <1>3, <2>1, <2>2 DEF RemoteJobsOK
<1> QED
    BY <1>1, <1>3 DEF QueueStep, NoNewPersists, JobsStay, p

(* The head goes on as another job.                                        *)
LEMMA StepHead ==
    ASSUME NEW q, IsQueue(q), q # <<>>, NEW job, job.op # "error",
           NEW p, p = [q EXCEPT ![1] = job]
    PROVE  /\ IsQueue(p)
           /\ RemoteJobsOK(q) => RemoteJobsOK(p)
           /\ job.op # "persist" => NoNewPersists(q, p)
           /\ Head(q).op \notin {"connect", "upload", "error"} => JobsStay(q, p)
           /\ job \in Elements(p) /\ p # <<>> /\ Head(p) = job
<1> DEFINE T == Elements(q) \cup {job}
<1>1. /\ Len(q) \in Nat /\ DOMAIN q = 1 .. Len(q) /\ Len(q) # 0 /\ Head(q) = q[1]
      /\ q \in Seq(Elements(q))
      BY QueueDomain, QueueTail
<1>2. q \in Seq(T)
      BY <1>1
<1>4. /\ p \in Seq(T) /\ DOMAIN p = 1 .. Len(q) /\ p[1] = job
      /\ \A n \in 1 .. Len(q) : n # 1 => p[n] = q[n]
      BY <1>1, <1>2
<1> HIDE DEF T
<1>3. IsQueue(p) /\ Len(p) = Len(q)
      BY <1>1, <1>4 DEF IsQueue
<1>5. p # <<>> /\ Head(p) = job
      BY <1>1, <1>3, <1>4, QueueTail, QueueDomain
<1>6. ASSUME RemoteJobsOK(q)
      PROVE  RemoteJobsOK(p)
  <2>1. ASSUME NEW n \in DOMAIN p, p[n].op = "error", ~p[n].reconnect
        PROVE  \E m \in DOMAIN p : n < m /\ Ends(p[m])
    <3>1. n # 1 /\ p[n] = q[n]
          BY <1>4, <2>1
    <3>2. PICK m \in DOMAIN q : n < m /\ Ends(q[m])
          BY <1>1, <1>4, <1>6, <2>1, <3>1 DEF RemoteJobsOK
    <3>3. m # 1
          BY <1>1, <1>4, <3>1, <3>2
    <3> QED
        BY <1>1, <1>4, <3>2, <3>3
  <2> QED
      BY <1>1, <1>4, <1>6, <2>1 DEF RemoteJobsOK
<1>7. \A x \in Elements(p) : x = job \/ x \in Elements(q)
      BY <1>1, <1>4 DEF Elements
<1>8. Head(q).op \notin {"connect", "upload", "error"} => JobsStay(q, p)
      BY <1>1, <1>4 DEF Elements, JobsStay
<1>9. job \in Elements(p)
      BY <1>1, <1>4 DEF Elements
<1> QED
    BY <1>3, <1>5, <1>6, <1>7, <1>8, <1>9 DEF NoNewPersists

LEMMA StepConcat ==
    ASSUME NEW q, IsQueue(q), NEW p, IsQueue(p), \A job \in Elements(p) : job.op # "persist",
           RemoteJobsOK(p)
    PROVE  QueueStep(q, q \o p) /\ JobsStay(q, q \o p) /\ JobsStay(p, q \o p)
<1> DEFINE o == q \o p
<1>1. /\ IsQueue(o) /\ Len(o) = Len(q) + Len(p)
      /\ \A n \in 1 .. Len(q) : o[n] = q[n]
      /\ \A n \in 1 .. Len(p) : o[Len(q) + n] = p[n]
      /\ Elements(o) = Elements(q) \cup Elements(p)
      BY QueueConcat
<1> HIDE DEF o
<1>2. /\ Len(q) \in Nat /\ DOMAIN q = 1 .. Len(q) /\ DOMAIN o = 1 .. Len(o)
      /\ Len(p) \in Nat /\ DOMAIN p = 1 .. Len(p)
      BY <1>1, QueueDomain
<1>3. ASSUME RemoteJobsOK(q)
      PROVE  RemoteJobsOK(o)
  <2>1. ASSUME NEW n \in DOMAIN o, n \notin DOMAIN q
        PROVE  n - Len(q) \in DOMAIN p /\ o[n] = p[n - Len(q)]
    <3>1. n - Len(q) \in 1 .. Len(p) /\ Len(q) + (n - Len(q)) = n
          BY <1>1, <1>2, <2>1
    <3> QED
        BY <1>1, <1>2, <3>1
  <2>2. ASSUME NEW n \in DOMAIN o, o[n].op = "persist"
        PROVE  n = 1
    <3>1. n \in DOMAIN q
          BY <2>1, <2>2 DEF Elements
    <3> QED
        BY <1>1, <1>2, <1>3, <2>2, <3>1 DEF RemoteJobsOK
  <2>3. ASSUME NEW n \in DOMAIN o, o[n].op = "error", ~o[n].reconnect
        PROVE  \E m \in DOMAIN o : n < m /\ Ends(o[m])
    <3>1. CASE n \in DOMAIN q
      <4>1. PICK m \in DOMAIN q : n < m /\ Ends(q[m])
            BY <1>1, <1>2, <1>3, <2>3, <3>1 DEF RemoteJobsOK
      <4> QED
          BY <1>1, <1>2, <4>1
    <3>2. CASE n \notin DOMAIN q
      <4>1. PICK m \in DOMAIN p : n - Len(q) < m /\ Ends(p[m])
            BY <2>1, <2>3, <3>2 DEF RemoteJobsOK
      <4>2. Len(q) + m \in DOMAIN o /\ n < Len(q) + m /\ o[Len(q) + m] = p[m]
            BY <1>1, <1>2, <4>1
      <4> QED
          BY <4>1, <4>2
    <3> QED
        BY <3>1, <3>2
  <2> QED
      BY <2>2, <2>3 DEF RemoteJobsOK
<1> QED
    BY <1>1, <1>3 DEF QueueStep, NoNewPersists, JobsStay, o

(* Whatever events are lost, the other jobs stay, in their order.          *)
LEMMA StepArrived ==
    ASSUME NEW q, IsQueue(q), NEW k, NEW lost
    PROVE  QueueStep(q, Arrived(q, k, lost)) /\ JobsStay(q, Arrived(q, k, lost))
<1> DEFINE From(m) == q[m].op \in {"commits", "ack"} /\ q[m].from = k
           kept == {m \in DOMAIN q : From(m) => Cardinality({x \in 1 .. m : From(x)}) <= lost}
           p == Among(q, kept)
           card == Cardinality(kept)
<1>1. Arrived(q, k, lost) = p
      BY DEF Arrived
<1>2. \A m \in DOMAIN q : q[m].op \notin {"commits", "ack"} => m \in kept
      OBVIOUS
<1>3. kept \subseteq DOMAIN q
      OBVIOUS
<1> HIDE DEF kept
<1>4. /\ IsQueue(p) /\ card \in Nat /\ Len(p) = card
      /\ \A i \in 1 .. card : Nth(kept, i) \in kept /\ p[i] = q[Nth(kept, i)]
      /\ \A m \in kept : \E i \in 1 .. card : Nth(kept, i) = m
      /\ \A i, j \in 1 .. card : i < j => Nth(kept, i) < Nth(kept, j)
      /\ Elements(p) = {q[m] : m \in kept}
      BY <1>3, AmongQueue
<1> HIDE DEF p, card
<1>5. /\ Len(q) \in Nat /\ DOMAIN q = 1 .. Len(q) /\ DOMAIN p = 1 .. card
      BY <1>4, QueueDomain
<1>6. ASSUME RemoteJobsOK(q)
      PROVE  RemoteJobsOK(p)
  <2>1. ASSUME NEW n \in DOMAIN p, p[n].op = "persist"
        PROVE  n = 1
    <3>1. Nth(kept, n) = 1
          BY <1>3, <1>4, <1>5, <1>6, <2>1 DEF RemoteJobsOK
    <3>2. n # 1 => Nth(kept, 1) < 1 /\ Nth(kept, 1) \in 1 .. Len(q)
          BY <1>3, <1>4, <1>5, <3>1
    <3> QED
        BY <1>5, <3>2
  <2>2. ASSUME NEW n \in DOMAIN p, p[n].op = "error", ~p[n].reconnect
        PROVE  \E m \in DOMAIN p : n < m /\ Ends(p[m])
    <3>1. Nth(kept, n) \in DOMAIN q /\ q[Nth(kept, n)] = p[n]
          BY <1>3, <1>4, <1>5
    <3>2. PICK m \in DOMAIN q : Nth(kept, n) < m /\ Ends(q[m])
          BY <1>6, <2>2, <3>1 DEF RemoteJobsOK
    <3>3. m \in kept
          BY <1>2, <3>2 DEF Ends
    <3>4. PICK i \in 1 .. card : Nth(kept, i) = m
          BY <1>4, <3>3
    <3>5. p[i] = q[m]
          BY <1>4, <3>4
    <3>6. n < i
      <4>1. ~(i < n) /\ i # n
            BY <1>4, <1>5, <3>1, <3>2, <3>4
      <4> QED
          BY <1>4, <1>5, <4>1
    <3> QED
        BY <1>5, <3>2, <3>5, <3>6
  <2> QED
      BY <2>1, <2>2 DEF RemoteJobsOK
<1>7. NoNewPersists(q, p) /\ JobsStay(q, p)
      BY <1>2, <1>3, <1>4 DEF NoNewPersists, JobsStay, Elements
<1> QED
    BY <1>1, <1>4, <1>6, <1>7 DEF QueueStep

LEMMA StepOn ==
    ASSUME NEW q, NEW p, NEW o, QueueStep(q, p), QueueStep(p, o)
    PROVE  QueueStep(q, o)
BY DEF QueueStep, NoNewPersists

LEMMA StayOn ==
    ASSUME NEW q, NEW p, NEW o, JobsStay(q, p), JobsStay(p, o)
    PROVE  JobsStay(q, o)
BY DEF JobsStay

LEMMA StaysWaiting ==
    ASSUME NEW q, NEW p, JobsStay(q, p)
    PROVE  (Waits(q) => Waits(p)) /\ (Uploads(q) => Uploads(p))
BY DEF JobsStay, Waits, Uploads, Ends

-----------------------------------------------------------------------------
(* What the steps of a store make of it.                                   *)

Only(t) == \A x \in Tab : x # t => tabs'[x] = tabs[x]

(* The client and the other tabs do not come into it.                      *)
SameLocal(a, b) ==
    /\ b.open = a.open /\ b.known = a.known /\ b.missed = a.missed
    /\ b.localQueue = a.localQueue /\ (b.dbOpen => a.dbOpen)

Becomes(a, b, leader, remote, timer, queue) ==
    /\ SameLocal(a, b)
    /\ b.closed = a.closed /\ b.dbOpen = a.dbOpen
    /\ b.leader = leader /\ b.remote = remote /\ b.timer = timer /\ b.remoteQueue = queue

(* Nor does the remote.                                                    *)
SameRemote(a, b) ==
    /\ b.open = a.open /\ b.closed = a.closed /\ b.dbOpen = a.dbOpen
    /\ b.leader = a.leader /\ b.remote = a.remote /\ b.timer = a.timer
    /\ b.remoteQueue = a.remoteQueue

Learns(a, b, known, missed, queue) ==
    /\ SameRemote(a, b)
    /\ b.known = known /\ b.missed = missed /\ b.localQueue = queue

LEMMA OneReplaced ==
    ASSUME CursorStepInv, NEW t \in Tab, NEW tab, tabs' = [tabs EXCEPT ![t] = tab]
    PROVE  Only(t) /\ tabs'[t] = tab
BY DEF CursorStepInv, ConnectionInv, Only

LEMMA EditIs ==
    ASSUME CursorStepInv, NEW t \in Tab, Edit(t)
    PROVE  LET r == EditRef(Childless(tabs[t].known), t)
           IN  /\ Only(t) /\ Live(t)
               /\ Learns(tabs[t], tabs'[t], tabs[t].known \cup {r}, tabs[t].missed,
                         Append(tabs[t].localQueue, [op |-> "update", commits |-> <<Fresh(r)>>]))
<1> DEFINE r == EditRef(Childless(tabs[t].known), t)
           known == tabs[t].known \cup {r}
           queue == Append(tabs[t].localQueue, [op |-> "update", commits |-> <<Fresh(r)>>])
           tab == [[tabs[t] EXCEPT !.known = known] EXCEPT !.localQueue = queue]
<1>1. tabs' = [tabs EXCEPT ![t].known = known, ![t].localQueue = queue] /\ Live(t)
      BY DEF Edit
<1>2. TabShape(tabs[t])
      BY Facts DEF TabInv
<1> HIDE DEF r, known, queue
<1>3. tabs' = [tabs EXCEPT ![t] = tab]
      BY <1>1, <1>2 DEF CursorStepInv, ConnectionInv, TabShape
<1>4. Learns(tabs[t], tab, known, tabs[t].missed, queue)
      BY <1>2 DEF Learns, SameRemote, TabShape
<1> HIDE DEF tab
<1>5. Learns(tabs[t], tabs'[t], known, tabs[t].missed, queue) /\ Only(t) /\ Live(t)
      BY <1>1, <1>3, <1>4, OneReplaced
<1> QED
    BY <1>5 DEF r, known, queue

LEMMA PromoteIs ==
    ASSUME CursorStepInv, NEW t \in Tab, Promote(t)
    PROVE  /\ Only(t)
           /\ Becomes(tabs[t], tabs'[t], TRUE, tabs[t].remote, tabs[t].timer,
                      Append(tabs[t].remoteQueue, Job("connect")))
<1> DEFINE queue == Append(tabs[t].remoteQueue, Job("connect"))
           tab == ConnectRemote([tabs[t] EXCEPT !.leader = TRUE])
<1>1. TabShape(tabs[t])
      BY Facts DEF TabInv
<1>2. tab = [[tabs[t] EXCEPT !.leader = TRUE] EXCEPT !.remoteQueue = queue]
      BY <1>1 DEF ConnectRemote, TabShape
<1>3. tabs' = [tabs EXCEPT ![t] = tab]
      BY DEF Promote
<1> HIDE DEF queue, tab
<1>4. Becomes(tabs[t], tab, TRUE, tabs[t].remote, tabs[t].timer, queue)
      BY <1>1, <1>2 DEF Becomes, SameLocal, TabShape
<1> QED
    BY <1>3, <1>4, OneReplaced DEF queue

LEMMA DemoteIs ==
    ASSUME CursorStepInv, NEW t \in Tab, Demote(t)
    PROVE  /\ Only(t)
           /\ Becomes(tabs[t], tabs'[t], FALSE, tabs[t].remote, FALSE,
                      Append(tabs[t].remoteQueue, Close(FALSE)))
<1> DEFINE queue == Append(tabs[t].remoteQueue, Close(FALSE))
           tab == CloseRemote([tabs[t] EXCEPT !.leader = FALSE], FALSE)
<1>1. TabShape(tabs[t])
      BY Facts DEF TabInv
<1>2. tab = [[tabs[t] EXCEPT !.leader = FALSE] EXCEPT !.remoteQueue = queue, !.timer = FALSE]
      BY <1>1 DEF CloseRemote, TabShape
<1>3. tabs' = [tabs EXCEPT ![t] = tab]
      BY DEF Demote
<1> HIDE DEF queue, tab
<1>4. Becomes(tabs[t], tab, FALSE, tabs[t].remote, FALSE, queue)
      BY <1>1, <1>2 DEF Becomes, SameLocal, TabShape
<1> QED
    BY <1>3, <1>4, OneReplaced DEF queue

LEMMA ReconnectIs ==
    ASSUME CursorStepInv, NEW t \in Tab, Reconnect(t)
    PROVE  /\ Only(t)
           /\ Becomes(tabs[t], tabs'[t], tabs[t].leader, tabs[t].remote, FALSE,
                      Append(tabs[t].remoteQueue, Job("connect")))
<1> DEFINE queue == Append(tabs[t].remoteQueue, Job("connect"))
           tab == ConnectRemote([tabs[t] EXCEPT !.timer = FALSE])
<1>1. TabShape(tabs[t])
      BY Facts DEF TabInv
<1>2. tab = [[tabs[t] EXCEPT !.timer = FALSE] EXCEPT !.remoteQueue = queue]
      BY <1>1 DEF ConnectRemote, TabShape
<1>3. tabs' = [tabs EXCEPT ![t] = tab]
      BY DEF Reconnect
<1> HIDE DEF queue, tab
<1>4. Becomes(tabs[t], tab, tabs[t].leader, tabs[t].remote, FALSE, queue)
      BY <1>1, <1>2 DEF Becomes, SameLocal, TabShape
<1> QED
    BY <1>3, <1>4, OneReplaced DEF queue

(* A store that is shut down, or was, and has done its jobs.               *)
Ended(a, b, queue) ==
    /\ SameLocal(a, b) /\ b.closed /\ b.dbOpen = a.dbOpen
    /\ b.remoteQueue = queue \/ b.remoteQueue = Append(queue, Close(TRUE))

LEMMA ShutDownIs ==
    ASSUME NEW tab, TabShape(tab)
    PROVE  Ended(tab, ShutDown(tab), tab.remoteQueue)
<1>1. CASE tab.closed
      BY <1>1 DEF ShutDown, Ended, SameLocal
<1>2. CASE ~tab.closed
  <2> DEFINE queue == Append(tab.remoteQueue, Close(TRUE))
  <2>1. ShutDown(tab) = [tab EXCEPT !.closed = TRUE, !.timer = FALSE, !.remoteQueue = queue]
        BY <1>2 DEF ShutDown
  <2> HIDE DEF queue
  <2>2. SameLocal(tab, ShutDown(tab)) /\ ShutDown(tab).closed
        /\ ShutDown(tab).dbOpen = tab.dbOpen /\ ShutDown(tab).remoteQueue = queue
        BY <2>1 DEF SameLocal, TabShape
  <2> QED
      BY <2>2 DEF Ended, queue
<1> QED
    BY <1>1, <1>2

LEMMA ShutdownIs ==
    ASSUME CursorStepInv, NEW t \in Tab, Shutdown(t)
    PROVE  Only(t) /\ Ended(tabs[t], tabs'[t], tabs[t].remoteQueue)
<1>1. TabShape(tabs[t])
      BY Facts DEF TabInv
<1>2. tabs' = [tabs EXCEPT ![t] = ShutDown(tabs[t])]
      BY DEF Shutdown
<1> QED
    BY <1>1, <1>2, ShutDownIs, OneReplaced

(* The first job of a queue is done, or goes on as another.                *)
Busy(t, op) == tabs[t].remoteQueue # <<>> /\ Head(tabs[t].remoteQueue).op = op

LEMMA ConnectIs ==
    ASSUME CursorStepInv, NEW t \in Tab, Connect(t)
    PROVE  /\ Only(t) /\ Busy(t, "connect")
           /\ \E k \in Socket :
                 /\ Unused(k)
                 /\ sockets' = [sockets EXCEPT ![k] = NewSocket(t, db[storeOf[t]].lastSyncCursor)]
                 /\ Becomes(tabs[t], tabs'[t], tabs[t].leader, k, FALSE,
                            [tabs[t].remoteQueue EXCEPT ![1] = Job("upload")])
<1> DEFINE k == CHOOSE x \in Socket : Unused(x)
           queue == [tabs[t].remoteQueue EXCEPT ![1] = Job("upload")]
           tab == ThenRemote([tabs[t] EXCEPT !.timer = FALSE, !.remote = k], Job("upload"))
<1>1. TabShape(tabs[t])
      BY Facts DEF TabInv
<1>2. tab = [[tabs[t] EXCEPT !.timer = FALSE, !.remote = k] EXCEPT !.remoteQueue = queue]
      BY <1>1 DEF ThenRemote, TabShape
<1>3. k \in Socket /\ Unused(k)
      BY DEF Connect, Opens
<1>4. /\ tabs' = [tabs EXCEPT ![t] = tab] /\ Busy(t, "connect")
      /\ sockets' = [sockets EXCEPT ![k] = NewSocket(t, db[storeOf[t]].lastSyncCursor)]
      BY DEF Connect, Opens, NextRemote, Busy
<1> HIDE DEF queue, tab, k
<1>5. Becomes(tabs[t], tab, tabs[t].leader, k, FALSE, queue)
      BY <1>1, <1>2 DEF Becomes, SameLocal, TabShape
<1> QED
    BY <1>3, <1>4, <1>5, OneReplaced DEF queue

LEMMA ConnectClosedIs ==
    ASSUME CursorStepInv, NEW t \in Tab, ConnectClosed(t)
    PROVE  /\ Only(t) /\ Busy(t, "connect") /\ tabs[t].closed
           /\ \E timer : \E queue \in {Tail(tabs[t].remoteQueue),
                                       Append(Tail(tabs[t].remoteQueue), Close(FALSE))} :
                 Becomes(tabs[t], tabs'[t], tabs[t].leader, tabs[t].remote, timer, queue)
<1> DEFINE done == Tail(tabs[t].remoteQueue)
           closing == Append(done, Close(FALSE))
           a == DoneRemote([tabs[t] EXCEPT !.timer = FALSE])
           b == CloseRemote(DoneRemote(tabs[t]), TRUE)
<1>1. TabShape(tabs[t])
      BY Facts DEF TabInv
<1>2. a = [[tabs[t] EXCEPT !.timer = FALSE] EXCEPT !.remoteQueue = done]
      BY <1>1 DEF DoneRemote, TabShape
<1>3. b = [[tabs[t] EXCEPT !.remoteQueue = done] EXCEPT !.remoteQueue = closing, !.timer = TRUE]
      BY <1>1 DEF DoneRemote, CloseRemote, TabShape
<1>4. /\ tabs' = [tabs EXCEPT ![t] = a] \/ tabs' = [tabs EXCEPT ![t] = b]
      /\ Busy(t, "connect") /\ tabs[t].closed
      BY DEF ConnectClosed, NextRemote, Busy
<1> HIDE DEF done, closing, a, b
<1>5. Becomes(tabs[t], a, tabs[t].leader, tabs[t].remote, FALSE, done)
      BY <1>1, <1>2 DEF Becomes, SameLocal, TabShape
<1>6. Becomes(tabs[t], b, tabs[t].leader, tabs[t].remote, TRUE, closing)
      BY <1>1, <1>3 DEF Becomes, SameLocal, TabShape
<1>7. /\ Only(t)
      /\ \/ Becomes(tabs[t], tabs'[t], tabs[t].leader, tabs[t].remote, FALSE, done)
         \/ Becomes(tabs[t], tabs'[t], tabs[t].leader, tabs[t].remote, TRUE, closing)
      BY <1>4, <1>5, <1>6, OneReplaced
<1> QED
    BY <1>4, <1>7 DEF done, closing

LEMMA DoneRemoteIs ==
    ASSUME NEW tab, TabShape(tab)
    PROVE  Becomes(tab, DoneRemote(tab), tab.leader, tab.remote, tab.timer, Tail(tab.remoteQueue))
<1> DEFINE queue == Tail(tab.remoteQueue)
<1>1. DoneRemote(tab) = [tab EXCEPT !.remoteQueue = queue]
      BY DEF DoneRemote
<1> HIDE DEF queue
<1>2. Becomes(tab, [tab EXCEPT !.remoteQueue = queue], tab.leader, tab.remote, tab.timer, queue)
      BY DEF Becomes, SameLocal, TabShape
<1> QED
    BY <1>1, <1>2 DEF queue

(* Jobs that end with themselves.                                          *)
LEMMA JobIs ==
    ASSUME CursorStepInv, NEW t \in Tab, Upload(t) \/ Persist(t) \/ Ack(t)
    PROVE  /\ Only(t)
           /\ Upload(t) => Busy(t, "upload")
           /\ Persist(t) => Busy(t, "persist") /\ tabs[t].open
           /\ Ack(t) => Busy(t, "ack")
           /\ Becomes(tabs[t], tabs'[t], tabs[t].leader, tabs[t].remote, tabs[t].timer,
                      Tail(tabs[t].remoteQueue))
<1>1. TabShape(tabs[t])
      BY Facts DEF TabInv
<1>2. /\ tabs' = [tabs EXCEPT ![t] = DoneRemote(tabs[t])]
      /\ Upload(t) => Busy(t, "upload")
      /\ Persist(t) => Busy(t, "persist") /\ tabs[t].open
      /\ Ack(t) => Busy(t, "ack")
      BY DEF Upload, Persist, Ack, NextRemote, Busy
<1>3. tabs'[t] = DoneRemote(tabs[t]) /\ Only(t)
      BY <1>2, OneReplaced
<1> QED
    BY <1>1, <1>2, <1>3, DoneRemoteIs

LEMMA CloseJobIs ==
    ASSUME CursorStepInv, NEW t \in Tab, CloseJob(t)
    PROVE  /\ Only(t) /\ Busy(t, "close")
           /\ \E n : Becomes(tabs[t], tabs'[t], tabs[t].leader, NoSocket, tabs[t].timer,
                             Arrived(Tail(tabs[t].remoteQueue), tabs[t].remote, n))
           /\ \A x \in Socket : sockets'[x] =
                  IF x = tabs[t].remote /\ sockets[x].state # "closed"
                  THEN [sockets[x] EXCEPT !.state = "closing"] ELSE sockets[x]
<1> DEFINE k == tabs[t].remote
           p == Tail(tabs[t].remoteQueue)
           done == [DoneRemote(tabs[t]) EXCEPT !.remote = NoSocket]
<1>1. TabShape(tabs[t])
      BY Facts DEF TabInv
<1>2. done = [[tabs[t] EXCEPT !.remoteQueue = p] EXCEPT !.remote = NoSocket]
      BY <1>1 DEF DoneRemote
<1>3. done.remoteQueue = p
      BY <1>1, <1>2 DEF TabShape
<1>4. PICK n : tabs' = [tabs EXCEPT ![t] = [done EXCEPT !.remoteQueue = Arrived(p, k, n)]]
      BY <1>3 DEF CloseJob
<1>5. \A x \in Socket : sockets'[x] =
          IF x = k /\ sockets[x].state # "closed"
          THEN [sockets[x] EXCEPT !.state = "closing"] ELSE sockets[x]
      BY DEF CloseJob
<1> DEFINE o == Arrived(p, k, n)
           tab == [done EXCEPT !.remoteQueue = o]
<1> HIDE DEF p, o
<1>6. Becomes(tabs[t], tab, tabs[t].leader, NoSocket, tabs[t].timer, o)
      BY <1>1, <1>2 DEF Becomes, SameLocal, TabShape
<1>7. tabs' = [tabs EXCEPT ![t] = tab]
      BY <1>4 DEF o
<1> HIDE DEF tab, done
<1>8. Only(t) /\ Becomes(tabs[t], tabs'[t], tabs[t].leader, NoSocket, tabs[t].timer, o)
      BY <1>6, <1>7, OneReplaced
<1>9. Busy(t, "close")
      BY DEF CloseJob, NextRemote, Busy
<1> QED
    BY <1>5, <1>8, <1>9 DEF o, p

LEMMA CloseDatabaseIs ==
    ASSUME CursorStepInv, NEW t \in Tab, CloseDatabase(t)
    PROVE  /\ Only(t) /\ SameLocal(tabs[t], tabs'[t]) /\ tabs'[t].closed
           /\ tabs'[t].remoteQueue = tabs[t].remoteQueue
<1> DEFINE tab == [tabs[t] EXCEPT !.dbOpen = FALSE, !.leader = FALSE]
<1>1. TabShape(tabs[t])
      BY Facts DEF TabInv
<1>2. tabs' = [tabs EXCEPT ![t] = tab] /\ tabs[t].closed
      BY DEF CloseDatabase
<1>3. SameLocal(tabs[t], tab) /\ tab.closed /\ tab.remoteQueue = tabs[t].remoteQueue
      BY <1>1, <1>2 DEF SameLocal, TabShape
<1> HIDE DEF tab
<1> QED
    BY <1>2, <1>3, OneReplaced

LEMMA OnErrorIs ==
    ASSUME CursorStepInv, NEW t \in Tab, OnError(t)
    PROVE  /\ Only(t) /\ Busy(t, "error")
           /\ Becomes(tabs[t], tabs'[t], tabs[t].leader, tabs[t].remote,
                      Head(tabs[t].remoteQueue).reconnect,
                      Append(Tail(tabs[t].remoteQueue), Close(FALSE)))
<1> DEFINE reconnect == Head(tabs[t].remoteQueue).reconnect
           done == Tail(tabs[t].remoteQueue)
           queue == Append(done, Close(FALSE))
           tab == CloseRemote(DoneRemote(tabs[t]), reconnect)
<1>1. TabShape(tabs[t])
      BY Facts DEF TabInv
<1>2. tab = [[tabs[t] EXCEPT !.remoteQueue = done] EXCEPT !.remoteQueue = queue, !.timer = reconnect]
      BY <1>1 DEF DoneRemote, CloseRemote, TabShape
<1>3. tabs' = [tabs EXCEPT ![t] = tab] /\ Busy(t, "error")
      BY DEF OnError, NextRemote, Busy
<1> HIDE DEF done, queue, tab, reconnect
<1>4. Becomes(tabs[t], tab, tabs[t].leader, tabs[t].remote, reconnect, queue)
      BY <1>1, <1>2 DEF Becomes, SameLocal, TabShape
<1>5. Only(t) /\ Becomes(tabs[t], tabs'[t], tabs[t].leader, tabs[t].remote, reconnect, queue)
      BY <1>3, <1>4, OneReplaced
<1> QED
    BY <1>3, <1>5 DEF queue, done, reconnect

(* A client has thrown.                                                    *)
LEMMA ThrowIs ==
    ASSUME CursorStepInv, NEW t \in Tab,
           RemoteCommitsThrow(t) \/ LoadThrows(t) \/ LocalEventThrows(t)
    PROVE  /\ Only(t) /\ gap' /\ tabs'[t].closed
           /\ \E queue :
                 /\ \/ queue = tabs[t].remoteQueue
                    \/ tabs[t].remoteQueue # <<>> /\ queue = Tail(tabs[t].remoteQueue)
                 /\ tabs'[t].remoteQueue = queue \/ tabs'[t].remoteQueue = Append(queue, Close(TRUE))
<1> DEFINE local == DoneLocal(tabs[t])
           remote == DoneRemote(tabs[t])
<1>1. TabInv(tabs[t]) /\ TabShape(tabs[t])
      BY Facts DEF TabInv
<1>2. \/ RemoteCommitsThrow(t) /\ tabs' = [tabs EXCEPT ![t] = ShutDown(remote)]
         /\ tabs[t].remoteQueue # <<>> /\ gap'
      \/ (LoadThrows(t) \/ LocalEventThrows(t)) /\ tabs' = [tabs EXCEPT ![t] = ShutDown(local)]
         /\ gap'
      BY DEF RemoteCommitsThrow, LoadThrows, LocalEventThrows, NextRemote
<1>3. TabShape(local) /\ local.remoteQueue = tabs[t].remoteQueue
      BY <1>1, TabFields DEF DoneLocal, SameTab, TabInv
<1>4. remote.remoteQueue = Tail(tabs[t].remoteQueue) /\ TabShape(remote)
      BY <1>1 DEF DoneRemote, TabShape
<1> HIDE DEF local, remote
<1>5. Ended(local, ShutDown(local), local.remoteQueue)
      /\ Ended(remote, ShutDown(remote), remote.remoteQueue)
      BY <1>3, <1>4, ShutDownIs
<1>6. CASE tabs' = [tabs EXCEPT ![t] = ShutDown(remote)] /\ tabs[t].remoteQueue # <<>>
  <2>1. Only(t) /\ tabs'[t] = ShutDown(remote)
        BY <1>6, OneReplaced
  <2>2. /\ tabs'[t].closed
        /\ \/ tabs'[t].remoteQueue = Tail(tabs[t].remoteQueue)
           \/ tabs'[t].remoteQueue = Append(Tail(tabs[t].remoteQueue), Close(TRUE))
        BY <1>4, <1>5, <2>1 DEF Ended
  <2> QED
      BY <1>2, <1>6, <2>1, <2>2
<1>7. CASE tabs' = [tabs EXCEPT ![t] = ShutDown(local)]
  <2>1. Only(t) /\ tabs'[t] = ShutDown(local)
        BY <1>7, OneReplaced
  <2>2. /\ tabs'[t].closed
        /\ \/ tabs'[t].remoteQueue = tabs[t].remoteQueue
           \/ tabs'[t].remoteQueue = Append(tabs[t].remoteQueue, Close(TRUE))
        BY <1>3, <1>5, <2>1 DEF Ended
  <2> QED
      BY <1>2, <2>1, <2>2
<1> QED
    BY <1>2, <1>6, <1>7

EventJob(batch, origin) == [op |-> "event", commits |-> batch, remoteOrigin |-> origin]

(* The other tabs are told.                                                *)
Told(t, batch, origin) ==
    \A x \in Tab : x # t =>
        IF x \in Siblings(t)
        THEN Learns(tabs[x], tabs'[x], tabs[x].known, tabs[x].missed,
                    Append(tabs[x].localQueue, EventJob(batch, origin)))
        ELSE tabs'[x] = tabs[x]

LEMMA AnnounceIs ==
    ASSUME CursorStepInv, NEW t \in Tab, NEW tab, NEW batch, NEW origin,
           tabs' = Announce([tabs EXCEPT ![t] = tab], t, batch, origin)
    PROVE  Told(t, batch, origin) /\ tabs'[t] = tab
<1> DEFINE ts == [tabs EXCEPT ![t] = tab]
<1>1. \A x \in Tab : ts[x] = IF x = t THEN tab ELSE tabs[x]
      BY DEF CursorStepInv, ConnectionInv
<1> HIDE DEF ts
<1>2. \A x \in Tab : tabs'[x] =
          IF x \in Siblings(t)
          THEN [ts[x] EXCEPT !.localQueue = Append(ts[x].localQueue, EventJob(batch, origin))]
          ELSE ts[x]
      BY DEF Announce, EventJob, ts
<1>3. t \notin Siblings(t)
      BY DEF Siblings
<1>4. ASSUME NEW x \in Siblings(t), x \in Tab, x # t
      PROVE  Learns(tabs[x], tabs'[x], tabs[x].known, tabs[x].missed,
                    Append(tabs[x].localQueue, EventJob(batch, origin)))
  <2> DEFINE queue == Append(tabs[x].localQueue, EventJob(batch, origin))
  <2>1. TabShape(tabs[x])
        BY <1>4, Facts DEF TabInv
  <2>2. tabs'[x] = [tabs[x] EXCEPT !.localQueue = queue]
        BY <1>1, <1>2, <1>4
  <2> HIDE DEF queue
  <2>3. Learns(tabs[x], tabs'[x], tabs[x].known, tabs[x].missed, queue)
        BY <2>1, <2>2 DEF Learns, SameRemote, TabShape
  <2> QED
      BY <2>3 DEF queue
<1>5. Told(t, batch, origin)
      BY <1>1, <1>2, <1>4 DEF Told
<1> QED
    BY <1>1, <1>2, <1>3, <1>5

LEMMA RemoteCommitsIs ==
    ASSUME CursorStepInv, NEW t \in Tab, RemoteCommits(t)
    PROVE  LET event == Head(tabs[t].remoteQueue)
               a == tabs[t]
               b == tabs'[t]
           IN  /\ Busy(t, "commits") /\ Told(t, event.commits, TRUE)
               /\ b.open = a.open /\ b.closed = a.closed /\ b.dbOpen = a.dbOpen
               /\ b.leader = a.leader /\ b.remote = a.remote /\ b.timer = a.timer
               /\ b.missed = a.missed /\ b.localQueue = a.localQueue
               /\ b.known = a.known \cup Refs(event.commits)
               /\ b.remoteQueue = [a.remoteQueue EXCEPT ![1] =
                      [op |-> "persist", commits |-> event.commits, cursor |-> event.cursor]]
<1> DEFINE event == Head(tabs[t].remoteQueue)
           known == tabs[t].known \cup Refs(event.commits)
           rest == [op |-> "persist", commits |-> event.commits, cursor |-> event.cursor]
           queue == [tabs[t].remoteQueue EXCEPT ![1] = rest]
           tab == ThenRemote([tabs[t] EXCEPT !.known = known], rest)
           a == tabs[t]
<1>1. TabShape(tabs[t])
      BY Facts DEF TabInv
<1>2. tabs' = Announce([tabs EXCEPT ![t] = tab], t, event.commits, TRUE) /\ Busy(t, "commits")
      BY DEF RemoteCommits, NextRemote, Busy
<1>3. tab = [[tabs[t] EXCEPT !.known = known] EXCEPT !.remoteQueue = queue]
      BY <1>1 DEF ThenRemote, TabShape
<1> HIDE DEF tab
<1>4. Told(t, event.commits, TRUE) /\ tabs'[t] = tab
      BY <1>2, AnnounceIs
<1> HIDE DEF event, known, queue
<1>5. /\ tab.open = a.open /\ tab.closed = a.closed /\ tab.dbOpen = a.dbOpen
      /\ tab.leader = a.leader /\ tab.remote = a.remote /\ tab.timer = a.timer
      /\ tab.missed = a.missed /\ tab.localQueue = a.localQueue /\ tab.known = known
      /\ tab.remoteQueue = queue
      BY <1>1, <1>3 DEF TabShape
<1> QED
    BY <1>2, <1>4, <1>5 DEF event, known, queue

LEMMA LoadLearns ==
    ASSUME CursorStepInv, NEW t \in Tab, Load(t)
    PROVE  /\ Only(t) /\ tabs[t].localQueue # <<>> /\ Head(tabs[t].localQueue).op = "load"
           /\ Learns(tabs[t], tabs'[t], tabs[t].known \cup Home(t), tabs[t].missed \cup Unheard(t),
                     Tail(tabs[t].localQueue))
<1> DEFINE known == tabs[t].known \cup Stored(db[storeOf[t]])
           missed == tabs[t].missed \cup Unheard(t)
           queue == Tail(tabs[t].localQueue)
           tab == Loaded(tabs[t], known, missed)
<1>1. TabShape(tabs[t])
      BY Facts DEF TabInv
<1>2. tabs' = [tabs EXCEPT ![t] = tab] /\ tabs[t].localQueue # <<>>
      /\ Head(tabs[t].localQueue).op = "load"
      BY LoadedIs DEF Load, NextLocal
<1> HIDE DEF known, missed
<1>3. tab = [[[tabs[t] EXCEPT !.known = known] EXCEPT !.missed = missed] EXCEPT !.localQueue = queue]
      BY <1>1 DEF Loaded, DoneLocal, TabShape
<1> HIDE DEF tab, queue
<1>4. Learns(tabs[t], tab, known, missed, queue)
      BY <1>1, <1>3 DEF Learns, SameRemote, TabShape
<1> QED
    BY <1>2, <1>4, OneReplaced DEF queue, known, missed, Home

LEMMA LocalEventIs ==
    ASSUME CursorStepInv, NEW t \in Tab, LocalEvent(t)
    PROVE  LET event == Head(tabs[t].localQueue)
           IN  /\ Only(t) /\ tabs[t].localQueue # <<>> /\ event.op = "event"
               /\ Learns(tabs[t], tabs'[t], tabs[t].known \cup Refs(event.commits), tabs[t].missed,
                         Tail(tabs[t].localQueue))
<1> DEFINE event == Head(tabs[t].localQueue)
           known == tabs[t].known \cup Refs(event.commits)
           queue == Tail(tabs[t].localQueue)
           tab == DoneLocal([tabs[t] EXCEPT !.known = known])
<1>1. TabShape(tabs[t])
      BY Facts DEF TabInv
<1>2. tabs' = [tabs EXCEPT ![t] = tab] /\ tabs[t].localQueue # <<>> /\ event.op = "event"
      BY DEF LocalEvent, NextLocal
<1> HIDE DEF known
<1>3. tab = [[tabs[t] EXCEPT !.known = known] EXCEPT !.localQueue = queue]
      BY <1>1 DEF DoneLocal, TabShape
<1> HIDE DEF tab, queue
<1>4. Learns(tabs[t], tab, known, tabs[t].missed, queue)
      BY <1>1, <1>3 DEF Learns, SameRemote, TabShape
<1> QED
    BY <1>2, <1>4, OneReplaced DEF queue, known

LEMMA DoneLocalIs ==
    ASSUME NEW tab, TabShape(tab)
    PROVE  Learns(tab, DoneLocal(tab), tab.known, tab.missed, Tail(tab.localQueue))
<1> DEFINE queue == Tail(tab.localQueue)
<1>1. DoneLocal(tab) = [tab EXCEPT !.localQueue = queue]
      BY DEF DoneLocal
<1> HIDE DEF queue
<1>2. Learns(tab, [tab EXCEPT !.localQueue = queue], tab.known, tab.missed, queue)
      BY DEF Learns, SameRemote, TabShape
<1> QED
    BY <1>1, <1>2 DEF queue

LEMMA UpdateIs ==
    ASSUME CursorStepInv, NEW t \in Tab, Update(t)
    PROVE  LET job == Head(tabs[t].localQueue)
           IN  /\ tabs[t].localQueue # <<>> /\ job.op = "update"
               /\ Learns(tabs[t], tabs'[t], tabs[t].known, tabs[t].missed,
                         Tail(tabs[t].localQueue))
               /\ IF tabs[t].dbOpen
                  THEN /\ Told(t, job.commits, FALSE)
                       /\ db' = [db EXCEPT ![storeOf[t]] =
                                    AddCommits(db[storeOf[t]], job.commits, FALSE)]
                       /\ sockets' = Send(sockets, tabs[t].remote, job.commits)
                  ELSE Only(t) /\ UNCHANGED <<db, sockets>>
<1> DEFINE job == Head(tabs[t].localQueue)
           tab == DoneLocal(tabs[t])
<1>1. TabShape(tabs[t])
      BY Facts DEF TabInv
<1>2. tabs[t].localQueue # <<>> /\ job.op = "update"
      BY DEF Update, NextLocal
<1>3. Learns(tabs[t], tab, tabs[t].known, tabs[t].missed, Tail(tabs[t].localQueue))
      BY <1>1, DoneLocalIs
<1>4. CASE tabs[t].dbOpen
  <2>1. /\ tabs' = Announce([tabs EXCEPT ![t] = tab], t, job.commits, FALSE)
        /\ db' = [db EXCEPT ![storeOf[t]] = AddCommits(db[storeOf[t]], job.commits, FALSE)]
        /\ sockets' = Send(sockets, tabs[t].remote, job.commits)
        BY <1>4 DEF Update
  <2> HIDE DEF tab, job
  <2>2. Told(t, job.commits, FALSE) /\ tabs'[t] = tab
        BY <2>1, AnnounceIs
  <2> QED
      BY <1>2, <1>3, <1>4, <2>1, <2>2 DEF job
<1>5. CASE ~tabs[t].dbOpen
  <2>1. tabs' = [tabs EXCEPT ![t] = tab] /\ UNCHANGED <<db, sockets>>
        BY <1>5 DEF Update
  <2> HIDE DEF tab
  <2>2. Only(t) /\ tabs'[t] = tab
        BY <2>1, OneReplaced
  <2> QED
      BY <1>2, <1>3, <1>5, <2>1, <2>2
<1> QED
    BY <1>4, <1>5

LEMMA OpenIs ==
    ASSUME CursorStepInv, NEW t \in Tab, Open(t)
    PROVE  Only(t) /\ tabs'[t] = NewTab /\ ~tabs[t].open
<1>1. tabs' = [tabs EXCEPT ![t] = NewTab] /\ ~tabs[t].open
      BY DEF Open
<1> QED
    BY <1>1, OneReplaced

LEMMA CrashIs ==
    ASSUME CursorStepInv, NEW t \in Tab, Crash(t)
    PROVE  /\ Only(t) /\ tabs'[t] = NoTab
           /\ \A x \in Socket : sockets'[x] =
                  IF sockets[x].tab = t THEN ClosedSocket ELSE sockets[x]
           /\ ~gap' => db' = db
<1>1. tabs' = [tabs EXCEPT ![t] = NoTab]
      BY DEF Crash
<1>2. ~gap' => db' = db
      BY DEF Crash
<1>3. \A x \in Socket : sockets'[x] = IF sockets[x].tab = t THEN ClosedSocket ELSE sockets[x]
      BY DEF Crash
<1> QED
    BY <1>1, <1>2, <1>3, OneReplaced

NewTabFields(tab) ==
    /\ tab.closed = FALSE /\ tab.dbOpen /\ tab.leader = FALSE /\ tab.remote = NoSocket
    /\ tab.timer = FALSE /\ tab.known = {} /\ tab.missed = {} /\ tab.remoteQueue = <<>>

LEMMA NewTabIs ==
    /\ NewTabFields(NewTab) /\ NewTab.open /\ NewTab.localQueue = <<Job("load")>>
    /\ NewTabFields(NoTab) /\ NoTab.open = FALSE /\ NoTab.localQueue = <<>>
BY DEF NewTab, NoTab, NewTabFields

LEMMA QueueIs ==
    ASSUME NEW tab, TabShape(tab), NEW queue
    PROVE  Becomes(tab, [tab EXCEPT !.remoteQueue = queue], tab.leader, tab.remote, tab.timer, queue)
BY DEF Becomes, SameLocal, TabShape

LEMMA BreakIs ==
    ASSUME CursorStepInv, NEW k \in Socket, Break(k), NEW t, t = sockets[k].tab
    PROVE  /\ Only(t) /\ IsActive(sockets[k])
           /\ \A x \in Socket : sockets'[x] = IF x = k THEN ClosedSocket ELSE sockets[x]
           /\ t \in Tab => \E events \in EndEvents(k) : \E n :
                 Becomes(tabs[t], tabs'[t], tabs[t].leader, tabs[t].remote, tabs[t].timer,
                         Arrived(tabs[t].remoteQueue, k, n) \o events)
<1> DEFINE q == tabs[t].remoteQueue
<1>1. PICK events \in EndEvents(k), n \in 0 .. Len(q) :
          tabs' = [tabs EXCEPT ![t].remoteQueue = Arrived(q, k, n) \o events]
      BY DEF Break
<1> DEFINE p == Arrived(q, k, n) \o events
           tab == [tabs[t] EXCEPT !.remoteQueue = p]
<1>2. /\ \A x \in Tab : tabs'[x] = IF x = t THEN tab ELSE tabs[x]
      /\ \A x \in Socket : sockets'[x] = IF x = k THEN ClosedSocket ELSE sockets[x]
      /\ IsActive(sockets[k])
      BY <1>1 DEF CursorStepInv, ConnectionInv, Break, IsActive
<1> HIDE DEF p
<1>3. t \in Tab => Becomes(tabs[t], tab, tabs[t].leader, tabs[t].remote, tabs[t].timer, p)
      BY Facts, QueueIs DEF TabInv
<1> HIDE DEF tab
<1> QED
    BY <1>2, <1>3 DEF p, Only

LEMMA SocketClosesIs ==
    ASSUME CursorStepInv, NEW k \in Socket, SocketCloses(k), NEW t, t = sockets[k].tab
    PROVE  /\ Only(t) /\ sockets[k].state = "closing"
           /\ \A x \in Socket : sockets'[x] = IF x = k THEN ClosedSocket ELSE sockets[x]
           /\ t \in Tab => Becomes(tabs[t], tabs'[t], tabs[t].leader, tabs[t].remote, tabs[t].timer,
                                   Append(tabs[t].remoteQueue, ErrorEvent(k, TRUE)))
<1> DEFINE p == Append(tabs[t].remoteQueue, ErrorEvent(k, TRUE))
           tab == [tabs[t] EXCEPT !.remoteQueue = p]
<1>1. tabs' = [tabs EXCEPT ![t].remoteQueue = p]
      BY DEF SocketCloses
<1>2. /\ \A x \in Tab : tabs'[x] = IF x = t THEN tab ELSE tabs[x]
      /\ \A x \in Socket : sockets'[x] = IF x = k THEN ClosedSocket ELSE sockets[x]
      /\ sockets[k].state = "closing"
      BY <1>1 DEF CursorStepInv, ConnectionInv, SocketCloses
<1> HIDE DEF p
<1>3. t \in Tab => Becomes(tabs[t], tab, tabs[t].leader, tabs[t].remote, tabs[t].timer, p)
      BY Facts, QueueIs DEF TabInv
<1> HIDE DEF tab
<1> QED
    BY <1>2, <1>3 DEF p, Only

(* Events that the server sends.                                           *)
IsNews(p) == IsQueue(p) /\ \A job \in Elements(p) : job.op \in {"commits", "ack"}

LEMMA ServerInitIs ==
    ASSUME CursorStepInv, NEW k \in Socket, ServerInit(k)
    PROVE  /\ \A x \in Socket : sockets'[x] =
                  IF x = k THEN [sockets[x] EXCEPT !.state = "open"] ELSE sockets[x]
           /\ sockets[k].state = "connecting"
           /\ \A x \in Tab : \E p : IsNews(p) /\ Gets(tabs[x], tabs'[x], p)
<1> DEFINE t == sockets[k].tab
           refs == GetCommitsEvent(rows, sockets[k].cursor)
           event == [op |-> "commits", from |-> k, cursor |-> LastRow,
                     commits |-> [n \in DOMAIN refs |-> Fresh(refs[n])]]
           queue == Append(tabs[t].remoteQueue, event)
<1>1. /\ tabs' = IF refs = <<>> THEN tabs ELSE [tabs EXCEPT ![t].remoteQueue = queue]
      /\ sockets' = [sockets EXCEPT ![k].state = "open"] /\ sockets[k].state = "connecting"
      BY DEF ServerInit
<1>2. event.op = "commits"
      OBVIOUS
<1> HIDE DEF refs, event
<1>3. ASSUME NEW x \in Tab
      PROVE  \E p : IsNews(p) /\ Gets(tabs[x], tabs'[x], p)
  <2>1. TabShape(tabs[x]) /\ IsQueue(tabs[x].remoteQueue)
        BY Facts DEF TabInv
  <2>2. CASE refs # <<>> /\ x = t
    <3>1. tabs'[x] = [tabs[x] EXCEPT !.remoteQueue = queue]
          BY <1>1, <2>2 DEF CursorStepInv, ConnectionInv
    <3>2. IsQueue(<<event>>) /\ Elements(<<event>>) = {event}
          BY SingleQueue
    <3>3. queue = tabs[x].remoteQueue \o <<event>>
      <4>1. tabs[x].remoteQueue \in Seq(Elements(tabs[x].remoteQueue))
            BY <2>1, QueueDomain
      <4> QED
          BY <2>2, <4>1
    <3> QED
        BY <1>2, <2>1, <3>1, <3>2, <3>3, GetsQueue DEF IsNews
  <2>3. CASE ~(refs # <<>> /\ x = t)
    <3>1. tabs'[x] = tabs[x]
          BY <1>1, <2>3 DEF CursorStepInv, ConnectionInv
    <3>2. IsQueue(<<>>) /\ Elements(<<>>) = {} /\ Len(<<>>) = 0
          BY EmptyQueue
    <3>3. tabs[x].remoteQueue \o <<>> = tabs[x].remoteQueue
          BY <2>1, <3>2, ConcatEmpty
    <3>4. Gets(tabs[x], tabs'[x], <<>>)
          BY <3>1, <3>2, <3>3 DEF Gets
    <3> QED
        BY <3>2, <3>4 DEF IsNews
  <2> QED
      BY <2>2, <2>3
<1>4. \A x \in Socket : sockets'[x] =
          IF x = k THEN [sockets[x] EXCEPT !.state = "open"] ELSE sockets[x]
      BY <1>1 DEF CursorStepInv, ConnectionInv
<1> QED
    BY <1>1, <1>3, <1>4

LEMMA ServerCommitsIs ==
    ASSUME CursorStepInv, NEW k \in Socket, ServerCommits(k)
    PROVE  /\ \A x \in Socket : sockets'[x] =
                  IF x = k THEN [sockets[x] EXCEPT !.up = Tail(@)] ELSE sockets[x]
           /\ sockets[k].state \in {"open", "closing"} /\ sockets[k].up # <<>>
           /\ \A x \in Tab : \E p : IsNews(p) /\ Gets(tabs[x], tabs'[x], p)
<1> DEFINE
      batch == Head(sockets[k].up).commits
      id == LastRow + 1
      added == LiveDocAddCommits(rows, memory, [n \in DOMAIN batch |-> batch[n].ref], id)
      acks == added.acks
      last == IF added.rows = rows THEN LastRow ELSE id
      news == Among(batch, {n \in DOMAIN batch : batch[n].ref \in acks})
<1>1. ASSUME NEW x \in Tab
      PROVE  \E p : IsNews(p) /\ Gets(tabs[x], tabs'[x], p)
  <2> DEFINE others == {o \in Socket : /\ sockets[o].tab = x /\ sockets[o].state = "open"
                                       /\ storeOf[x] # storeOf[sockets[k].tab]}
             ts == Receives(tabs, k, <<Acknowledgement(k, acks, last)>>)[x]
             list == [n \in 1 .. Cardinality(others) |->
                         Broadcast(SetToSeq(others)[n], last, news)]
  <2>1. tabs'[x] = [ts EXCEPT !.remoteQueue = ts.remoteQueue \o list]
        BY DEF ServerCommits, Acknowledgement, Broadcast
  <2> HIDE DEF acks, last, news
  <2>2. PICK p : /\ Gets(tabs[x], tabs'[x], p)
                 /\ GetsOK(p, k, x, sockets[k].tab, acks, last, news)
        BY <2>1, TabsGet DEF CursorStepInv
  <2>3. ASSUME NEW job \in Elements(p)
        PROVE  job.op \in {"commits", "ack"}
    <3>1. \/ job = Acknowledgement(k, acks, last)
          \/ \E o : job = Broadcast(o, last, news)
          BY <2>2, <2>3 DEF GetsOK, AnswerOK, BroadcastOK, Elements
    <3> QED
        BY <3>1 DEF Acknowledgement, Broadcast
  <2> QED
      BY <2>2, <2>3 DEF IsNews, Gets
<1>2. /\ sockets[k].state \in {"open", "closing"} /\ sockets[k].up # <<>>
      /\ sockets' = [sockets EXCEPT ![k].up = Tail(@)]
      BY DEF ServerCommits
<1>3. \A x \in Socket : sockets'[x] =
          IF x = k THEN [sockets[x] EXCEPT !.up = Tail(@)] ELSE sockets[x]
      BY <1>2 DEF CursorStepInv, ConnectionInv
<1> QED
    BY <1>1, <1>2, <1>3

-----------------------------------------------------------------------------
(* The jobs of the remote stay in order.                                   *)

(* A store works at its remote: the client does not come into it.          *)
Aside(a, b) ==
    /\ SameLocal(a, b)
    /\ RemoteTabOK(a) => RemoteTabOK(b)
    /\ NoNewPersists(a.remoteQueue, b.remoteQueue)

LEMMA AsideQueue ==
    ASSUME NEW a, NEW b, SameLocal(a, b), b.closed \/ (b.closed = a.closed /\ b.dbOpen = a.dbOpen),
           QueueStep(a.remoteQueue, b.remoteQueue)
    PROVE  Aside(a, b)
BY DEF Aside, SameLocal, QueueStep, RemoteTabOK

LEMMA AsideNot ==
    ASSUME NEW a
    PROVE  Aside(a, a)
BY DEF Aside, SameLocal, NoNewPersists

LEMMA StepNot ==
    ASSUME NEW q, IsQueue(q)
    PROVE  QueueStep(q, q)
BY DEF QueueStep, NoNewPersists

LEMMA JobOps ==
    /\ Job("connect").op = "connect" /\ Job("upload").op = "upload"
    /\ \A final : Close(final).op = "close"
    /\ \A k, reconnect : ErrorEvent(k, reconnect).op = "error"
                         /\ ErrorEvent(k, reconnect).reconnect = reconnect
BY DEF Job, Close, ErrorEvent

LEMMA AsideSteps ==
    ASSUME CursorStepInv, NEW t \in Tab,
           \/ Promote(t) \/ Demote(t) \/ Reconnect(t) \/ Shutdown(t)
           \/ Connect(t) \/ ConnectClosed(t) \/ Upload(t) \/ Persist(t) \/ Ack(t)
           \/ CloseJob(t) \/ CloseDatabase(t) \/ OnError(t)
    PROVE  Only(t) /\ Aside(tabs[t], tabs'[t])
<1> DEFINE q == tabs[t].remoteQueue
           a == tabs[t]
           b == tabs'[t]
<1>1. IsQueue(q) /\ QueueStep(q, q)
      BY Facts, StepNot DEF TabInv
<1>2. ASSUME q # <<>>
      PROVE  QueueStep(q, Tail(q)) /\ IsQueue(Tail(q))
      BY <1>1, <1>2, StepTail DEF QueueStep
<1>3. ASSUME NEW p, QueueStep(q, p), NEW job, job.op \notin {"persist", "error"}
      PROVE  QueueStep(q, Append(p, job))
      BY <1>3, StepAppend, StepOn DEF QueueStep
<1> HIDE DEF q
<1>4. CASE Promote(t) \/ Demote(t) \/ Reconnect(t)
  <2>1. \E job : job.op \notin {"persist", "error"} /\ b.remoteQueue = Append(q, job)
        BY <1>4, PromoteIs, DemoteIs, ReconnectIs, JobOps DEF Becomes, q
  <2>2. Only(t) /\ SameLocal(a, b) /\ b.closed = a.closed /\ b.dbOpen = a.dbOpen
        BY <1>4, PromoteIs, DemoteIs, ReconnectIs DEF Becomes
  <2> QED
      BY <1>1, <1>3, <2>1, <2>2, AsideQueue DEF q
<1>5. CASE Shutdown(t)
  <2>1. Only(t) /\ Ended(a, b, q)
        BY <1>5, ShutdownIs DEF q
  <2>2. QueueStep(q, Append(q, Close(TRUE)))
        BY <1>1, <1>3, JobOps
  <2> QED
      BY <1>1, <2>1, <2>2, AsideQueue DEF Ended, q
<1>6. CASE Connect(t)
  <2>1. /\ Only(t) /\ q # <<>> /\ SameLocal(a, b) /\ b.closed = a.closed /\ b.dbOpen = a.dbOpen
        /\ b.remoteQueue = [q EXCEPT ![1] = Job("upload")]
        BY <1>6, ConnectIs DEF Becomes, Busy, q
  <2>2. QueueStep(q, b.remoteQueue)
        BY <1>1, <2>1, StepHead, JobOps DEF QueueStep
  <2> QED
      BY <2>1, <2>2, AsideQueue DEF q
<1>7. CASE ConnectClosed(t)
  <2>1. /\ Only(t) /\ q # <<>> /\ SameLocal(a, b) /\ b.closed = a.closed /\ b.dbOpen = a.dbOpen
        /\ b.remoteQueue = Tail(q) \/ b.remoteQueue = Append(Tail(q), Close(FALSE))
        BY <1>7, ConnectClosedIs DEF Becomes, Busy, q
  <2>2. QueueStep(q, Append(Tail(q), Close(FALSE)))
        BY <1>2, <1>3, <2>1, JobOps
  <2> QED
      BY <1>2, <2>1, <2>2, AsideQueue DEF q
<1>8. CASE Upload(t) \/ Persist(t) \/ Ack(t)
  <2>1. /\ Only(t) /\ q # <<>> /\ SameLocal(a, b) /\ b.closed = a.closed /\ b.dbOpen = a.dbOpen
        /\ b.remoteQueue = Tail(q)
        BY <1>8, JobIs DEF Becomes, Busy, q
  <2> QED
      BY <1>2, <2>1, AsideQueue DEF q
<1>9. CASE CloseJob(t)
  <2>1. Only(t) /\ q # <<>>
        BY <1>9, CloseJobIs DEF Busy, q
  <2>2. PICK n : Becomes(a, b, a.leader, NoSocket, a.timer, Arrived(Tail(q), a.remote, n))
        BY <1>9, CloseJobIs DEF q
  <2>3. QueueStep(q, Arrived(Tail(q), a.remote, n))
        BY <1>2, <2>1, StepArrived, StepOn
  <2> QED
      BY <2>1, <2>2, <2>3, AsideQueue DEF Becomes, q
<1>10. CASE CloseDatabase(t)
  <2>1. Only(t) /\ SameLocal(a, b) /\ b.closed /\ b.remoteQueue = q
        BY <1>10, CloseDatabaseIs DEF q
  <2>2. QueueStep(a.remoteQueue, b.remoteQueue)
        BY <1>1, <2>1 DEF q
  <2>3. Aside(a, b)
        BY <2>1, <2>2 DEF Aside, SameLocal, QueueStep, RemoteTabOK
  <2> QED
      BY <2>1, <2>3
<1>11. CASE OnError(t)
  <2>1. /\ Only(t) /\ q # <<>> /\ SameLocal(a, b) /\ b.closed = a.closed /\ b.dbOpen = a.dbOpen
        /\ b.remoteQueue = Append(Tail(q), Close(FALSE))
        BY <1>11, OnErrorIs DEF Becomes, Busy, q
  <2>2. QueueStep(q, Append(Tail(q), Close(FALSE)))
        BY <1>2, <1>3, <2>1, JobOps
  <2> QED
      BY <2>1, <2>2, AsideQueue DEF q
<1> QED
    BY <1>4, <1>5, <1>6, <1>7, <1>8, <1>9, <1>10, <1>11

(* The events of a socket that has ended.                                  *)
LEMMA EndEventsOK ==
    ASSUME NEW k, NEW events \in EndEvents(k)
    PROVE  /\ IsQueue(events) /\ RemoteJobsOK(events) /\ Waits(events)
           /\ \A job \in Elements(events) : job.op = "error"
<1> DEFINE last == ErrorEvent(k, TRUE)
           first == ErrorEvent(k, FALSE)
           T == {first, last}
<1>1. events = <<last>> \/ events = <<first, last>>
      BY DEF EndEvents
<1>2. Ends(last) /\ first.op = "error" /\ last.op = "error"
      BY JobOps DEF Ends
<1> HIDE DEF last, first
<1>3. /\ events \in Seq(T) /\ DOMAIN events = 1 .. Len(events) /\ Len(events) \in {1, 2}
      /\ \A n \in DOMAIN events : events[n] \in T
      /\ events[Len(events)] = last
  <2>1. CASE events = <<last>>
        BY <2>1
  <2>2. CASE events = <<first, last>>
        BY <2>2
  <2> QED
      BY <1>1, <2>1, <2>2
<1> HIDE DEF T
<1>4. IsQueue(events) /\ last \in Elements(events)
      BY <1>3 DEF IsQueue, Elements
<1>5. \A n \in DOMAIN events : events[n].op = "error"
      BY <1>2, <1>3 DEF T
<1>6. \A n \in DOMAIN events : ~events[n].reconnect => n < Len(events)
      BY <1>2, <1>3 DEF Ends
<1>7. Len(events) \in DOMAIN events
      BY <1>3
<1>8. RemoteJobsOK(events)
      BY <1>2, <1>3, <1>5, <1>6, <1>7 DEF RemoteJobsOK
<1> QED
    BY <1>2, <1>4, <1>5, <1>8 DEF Waits, Elements

LEMMA AsideNetwork ==
    ASSUME CursorStepInv, NEW k \in Socket, Network(k) \/ Break(k), NEW x \in Tab
    PROVE  Aside(tabs[x], tabs'[x])
<1> DEFINE a == tabs[x]
           b == tabs'[x]
           q == tabs[x].remoteQueue
<1>1. IsQueue(q)
      BY Facts DEF TabInv
<1> HIDE DEF q
<1>2. CASE SocketCloses(k) \/ Break(k)
  <2>1. CASE sockets[k].tab # x
    <3>1. Only(sockets[k].tab)
          BY <1>2, SocketClosesIs, BreakIs
    <3> QED
        BY <2>1, <3>1, AsideNot DEF Only
  <2>2. CASE sockets[k].tab = x /\ SocketCloses(k)
    <3>1. Becomes(a, b, a.leader, a.remote, a.timer, Append(q, ErrorEvent(k, TRUE)))
          BY <2>2, SocketClosesIs DEF q
    <3>2. QueueStep(q, Append(q, ErrorEvent(k, TRUE)))
          BY <1>1, StepAppend, JobOps
    <3> QED
        BY <3>1, <3>2, AsideQueue DEF Becomes, q
  <2>3. CASE sockets[k].tab = x /\ Break(k)
    <3>1. PICK events \in EndEvents(k) : \E n :
              Becomes(a, b, a.leader, a.remote, a.timer, Arrived(q, k, n) \o events)
          BY <2>3, BreakIs DEF q
    <3>2. PICK n : Becomes(a, b, a.leader, a.remote, a.timer, Arrived(q, k, n) \o events)
          BY <3>1
    <3>3. QueueStep(q, Arrived(q, k, n)) /\ IsQueue(Arrived(q, k, n))
          BY <1>1, StepArrived DEF QueueStep
    <3>4. /\ IsQueue(events) /\ RemoteJobsOK(events)
          /\ \A job \in Elements(events) : job.op # "persist"
          BY EndEventsOK
    <3>5. QueueStep(Arrived(q, k, n), Arrived(q, k, n) \o events)
          BY <3>3, <3>4, StepConcat
    <3>6. QueueStep(q, Arrived(q, k, n) \o events)
          BY <3>3, <3>5, StepOn
    <3> QED
        BY <3>2, <3>6, AsideQueue DEF Becomes, q
  <2> QED
      BY <1>2, <2>1, <2>2, <2>3
<1>3. CASE ServerInit(k) \/ ServerCommits(k)
  <2>1. PICK p : IsNews(p) /\ Gets(a, b, p)
        BY <1>3, ServerInitIs, ServerCommitsIs
  <2>2. /\ IsQueue(p) /\ b.remoteQueue = q \o p
        /\ \A job \in Elements(p) : job.op \in {"commits", "ack"}
        BY <2>1 DEF IsNews, Gets, q
  <2>3. RemoteJobsOK(p)
        BY <2>2 DEF RemoteJobsOK, Elements
  <2>4. QueueStep(q, b.remoteQueue)
        BY <1>1, <2>2, <2>3, StepConcat
  <2>5. SameLocal(a, b) /\ b.closed = a.closed /\ b.dbOpen = a.dbOpen
        BY <2>1 DEF Gets, SameLocal
  <2> QED
      BY <2>4, <2>5, AsideQueue DEF q
<1> QED
    BY <1>2, <1>3 DEF Network

(* All steps in which no client takes part.                                *)
AsideNext ==
    \/ \E t \in Tab :
          \/ Promote(t) \/ Demote(t) \/ Reconnect(t) \/ Shutdown(t)
          \/ Connect(t) \/ ConnectClosed(t) \/ Upload(t) \/ Persist(t) \/ Ack(t)
          \/ CloseJob(t) \/ CloseDatabase(t) \/ OnError(t)
    \/ \E s \in Store : Reset(s)
    \/ \E k \in Socket : Network(k) \/ Break(k)
    \/ UNCHANGED vars

LEMMA AllAside ==
    ASSUME CursorStepInv, AsideNext, NEW x \in Tab
    PROVE  Aside(tabs[x], tabs'[x])
<1>1. ASSUME NEW t \in Tab,
             \/ Promote(t) \/ Demote(t) \/ Reconnect(t) \/ Shutdown(t)
             \/ Connect(t) \/ ConnectClosed(t) \/ Upload(t) \/ Persist(t) \/ Ack(t)
             \/ CloseJob(t) \/ CloseDatabase(t) \/ OnError(t)
      PROVE  Aside(tabs[x], tabs'[x])
      BY <1>1, AsideSteps, AsideNot DEF Only
<1>2. ASSUME NEW s \in Store, Reset(s)
      PROVE  tabs' = tabs
      BY <1>2 DEF Reset
<1>3. UNCHANGED vars => tabs' = tabs
      BY DEF vars
<1> QED
    BY <1>1, <1>2, <1>3, AsideNetwork, AsideNot DEF AsideNext

LEMMA SameRemoteOK ==
    ASSUME NEW a, NEW b, SameRemote(a, b), RemoteTabOK(a)
    PROVE  RemoteTabOK(b)
BY DEF SameRemote, RemoteTabOK

LEMMA NewRemoteOK ==
    ASSUME NEW tab \in {NewTab, NoTab}
    PROVE  RemoteTabOK(tab)
<1>1. tab.remoteQueue = <<>> /\ tab.dbOpen
      BY NewTabIs DEF NewTabFields
<1>2. DOMAIN tab.remoteQueue = {}
      BY <1>1
<1> QED
    BY <1>1, <1>2 DEF RemoteTabOK, RemoteJobsOK

LEMMA NextRemoteInv ==
    ASSUME CursorStepInv, RemoteInv, [Next]_vars
    PROVE  RemoteInv'
<1> SUFFICES ASSUME NEW x \in Tab
             PROVE  RemoteTabOK(tabs'[x])
    BY DEF RemoteInv
<1>1. RemoteTabOK(tabs[x])
      BY DEF RemoteInv
<1>2. CASE AsideNext
      BY <1>1, <1>2, AllAside DEF Aside
<1>3. ASSUME NEW t \in Tab, Edit(t) \/ Load(t) \/ LocalEvent(t)
      PROVE  RemoteTabOK(tabs'[x])
      BY <1>1, <1>3, EditIs, LoadLearns, LocalEventIs, SameRemoteOK DEF Only, Learns
<1>4. ASSUME NEW t \in Tab, Update(t)
      PROVE  RemoteTabOK(tabs'[x])
      BY <1>1, <1>4, UpdateIs, SameRemoteOK DEF Only, Learns, Told
<1>5. ASSUME NEW t \in Tab, RemoteCommits(t)
      PROVE  RemoteTabOK(tabs'[x])
  <2>1. Told(t, Head(tabs[t].remoteQueue).commits, TRUE)
        BY <1>5, RemoteCommitsIs
  <2>2. CASE x # t
        BY <1>1, <2>1, <2>2, SameRemoteOK DEF Told, Learns
  <2>3. CASE x = t
    <3> DEFINE event == Head(tabs[t].remoteQueue)
               job == [op |-> "persist", commits |-> event.commits, cursor |-> event.cursor]
    <3>1. /\ tabs[t].remoteQueue # <<>> /\ tabs'[t].open = tabs[t].open
          /\ tabs'[t].closed = tabs[t].closed /\ tabs'[t].dbOpen = tabs[t].dbOpen
          /\ tabs'[t].remoteQueue = [tabs[t].remoteQueue EXCEPT ![1] = job]
          BY <1>5, RemoteCommitsIs DEF Busy
    <3>2. job.op # "error" /\ IsQueue(tabs[t].remoteQueue)
          BY Facts DEF TabInv
    <3> HIDE DEF job
    <3>3. RemoteJobsOK(tabs[t].remoteQueue) => RemoteJobsOK(tabs'[t].remoteQueue)
          BY <3>1, <3>2, StepHead
    <3> QED
        BY <1>1, <2>3, <3>1, <3>3 DEF RemoteTabOK
  <2> QED
      BY <2>2, <2>3
<1>6. ASSUME NEW t \in Tab, Open(t) \/ Crash(t)
      PROVE  RemoteTabOK(tabs'[x])
      BY <1>1, <1>6, OpenIs, CrashIs, NewRemoteOK DEF Only
<1>7. ASSUME NEW t \in Tab, RemoteCommitsThrow(t) \/ LoadThrows(t) \/ LocalEventThrows(t)
      PROVE  RemoteTabOK(tabs'[x])
  <2>1. Only(t) /\ tabs'[t].closed
        BY <1>7, ThrowIs
  <2>2. PICK queue :
            /\ \/ queue = tabs[t].remoteQueue
               \/ tabs[t].remoteQueue # <<>> /\ queue = Tail(tabs[t].remoteQueue)
            /\ tabs'[t].remoteQueue = queue \/ tabs'[t].remoteQueue = Append(queue, Close(TRUE))
        BY <1>7, ThrowIs
  <2>3. IsQueue(tabs[t].remoteQueue)
        BY Facts DEF TabInv
  <2>4. QueueStep(tabs[t].remoteQueue, queue)
        BY <2>2, <2>3, StepTail, StepNot
  <2>5. QueueStep(queue, Append(queue, Close(TRUE))) /\ QueueStep(queue, queue)
        BY <2>4, StepAppend, StepNot, JobOps DEF QueueStep
  <2>6. QueueStep(tabs[t].remoteQueue, tabs'[t].remoteQueue)
    <3>1. QueueStep(queue, tabs'[t].remoteQueue)
          BY <2>2, <2>5
    <3> QED
        BY <2>4, <3>1, StepOn
  <2> QED
      BY <1>1, <2>1, <2>6 DEF Only, QueueStep, RemoteTabOK
<1> QED
    BY <1>2, <1>3, <1>4, <1>5, <1>6, <1>7 DEF Next, Jobs, LocalJobs, AsideNext

-----------------------------------------------------------------------------
(* What the other tabs and the own client have to say.                     *)

(* A job of localQueue with commits that the leader sends to the remote.   *)
PassedOn(job) == job.op = "update" \/ (job.op = "event" /\ ~job.remoteOrigin)

(* The commit is in one of the first n such jobs.                          *)
IsPending(q, n, r) == \E i \in 1 .. n : PassedOn(q[i]) /\ r \in Refs(q[i].commits)

LocalJobOK(job, known, onServer, stored) ==
    /\ PassedOn(job) => \E r : job.commits = <<Fresh(r)>>
    /\ job.op = "update" => Refs(job.commits) \subseteq known
    /\ job.op = "event" => Refs(job.commits) \subseteq onServer \cup stored

(* What is passed on, and the server does not have, comes after its        *)
(* parents, or those are there.                                            *)
LocalOrder(q, onServer, has) ==
    \A n \in DOMAIN q : PassedOn(q[n]) =>
        \A r \in Refs(q[n].commits) \ onServer : \A p \in ParentsOf(r) :
            p \in onServer \cup has \/ IsPending(q, n - 1, p)

(* A client knows nothing else than the server, its browser and the user.  *)
IsOwn(q, r) == \E job \in Elements(q) : job.op = "update" /\ r \in Refs(job.commits)

LocalTabOK(tab, onServer, stored) ==
    /\ \A job \in Elements(tab.localQueue) : LocalJobOK(job, tab.known, onServer, stored)
    /\ tab.dbOpen =>
          /\ LocalOrder(tab.localQueue, onServer, stored)
          /\ \A r \in tab.known : r \in onServer \cup stored \/ IsOwn(tab.localQueue, r)

LocalInv == \A t \in Tab : LocalTabOK(tabs[t], ServerRefs, Home(t))

LEMMA OrderGrows ==
    ASSUME NEW q, NEW old, NEW new, NEW stored, NEW now,
           old \subseteq new, old \cup stored \subseteq new \cup now,
           LocalOrder(q, old, stored)
    PROVE  LocalOrder(q, new, now)
BY DEF LocalOrder

LEMMA LocalGrows ==
    ASSUME NEW a, NEW b, NEW old, NEW new, NEW stored, NEW now,
           old \subseteq new, stored \subseteq now, SameLocal(a, b), LocalTabOK(a, old, stored)
    PROVE  LocalTabOK(b, new, now)
<1>1. \A job \in Elements(b.localQueue) : LocalJobOK(job, b.known, new, now)
      BY DEF SameLocal, LocalTabOK, LocalJobOK
<1>2. ASSUME b.dbOpen
      PROVE  /\ LocalOrder(b.localQueue, new, now)
             /\ \A r \in b.known : r \in new \cup now \/ IsOwn(b.localQueue, r)
      BY <1>2, OrderGrows DEF SameLocal, LocalTabOK
<1> QED
    BY <1>1, <1>2 DEF LocalTabOK

LEMMA OrderAppend ==
    ASSUME NEW q, IsQueue(q), NEW onServer, NEW has, LocalOrder(q, onServer, has), NEW job,
           PassedOn(job) => \A r \in Refs(job.commits) \ onServer : \A p \in ParentsOf(r) :
               p \in onServer \cup has \/ IsPending(q, Len(q), p)
    PROVE  LocalOrder(Append(q, job), onServer, has)
<1> DEFINE p == Append(q, job)
<1>1. /\ IsQueue(p) /\ Len(p) = Len(q) + 1 /\ \A n \in 1 .. Len(q) : p[n] = q[n]
      /\ p[Len(q) + 1] = job
      BY QueueAppend
<1> HIDE DEF p
<1>2. /\ Len(q) \in Nat /\ DOMAIN q = 1 .. Len(q) /\ DOMAIN p = 1 .. Len(p)
      BY <1>1, QueueDomain
<1>3. ASSUME NEW n \in 0 .. Len(q), NEW r, IsPending(q, n, r)
      PROVE  IsPending(p, n, r)
      BY <1>1, <1>2, <1>3 DEF IsPending
<1> SUFFICES ASSUME NEW n \in DOMAIN p, PassedOn(p[n]),
                    NEW r \in Refs(p[n].commits) \ onServer, NEW x \in ParentsOf(r)
             PROVE  x \in onServer \cup has \/ IsPending(p, n - 1, x)
    BY DEF LocalOrder, p
<1>4. CASE n \in DOMAIN q
  <2>1. x \in onServer \cup has \/ IsPending(q, n - 1, x)
        BY <1>1, <1>2, <1>4 DEF LocalOrder
  <2> QED
      BY <1>2, <1>3, <1>4, <2>1
<1>5. CASE n = Len(q) + 1
  <2>1. x \in onServer \cup has \/ IsPending(q, Len(q), x)
        BY <1>1, <1>5
  <2> QED
      BY <1>2, <1>3, <1>5, <2>1
<1> QED
    BY <1>1, <1>2, <1>4, <1>5

LEMMA OrderTail ==
    ASSUME NEW q, IsQueue(q), q # <<>>, NEW onServer, NEW has, NEW now, has \subseteq now,
           LocalOrder(q, onServer, has),
           PassedOn(Head(q)) => Refs(Head(q).commits) \subseteq onServer \cup now
    PROVE  LocalOrder(Tail(q), onServer, now)
<1> DEFINE p == Tail(q)
<1>1. /\ IsQueue(p) /\ Len(p) = Len(q) - 1 /\ \A n \in 1 .. Len(q) - 1 : p[n] = q[n + 1]
      /\ Head(q) = q[1]
      BY QueueTail
<1> HIDE DEF p
<1>2. /\ Len(q) \in Nat /\ DOMAIN q = 1 .. Len(q) /\ DOMAIN p = 1 .. Len(p)
      BY <1>1, QueueDomain
<1> SUFFICES ASSUME NEW n \in DOMAIN p, PassedOn(p[n]),
                    NEW r \in Refs(p[n].commits) \ onServer, NEW x \in ParentsOf(r)
             PROVE  x \in onServer \cup now \/ IsPending(p, n - 1, x)
    BY DEF LocalOrder, p
<1>3. n \in Nat /\ n # 0 /\ n + 1 \in DOMAIN q /\ p[n] = q[n + 1]
      BY <1>1, <1>2
<1>4. x \in onServer \cup has \/ IsPending(q, n, x)
  <2>1. x \in onServer \cup has \/ IsPending(q, (n + 1) - 1, x)
        BY <1>3 DEF LocalOrder
  <2>2. (n + 1) - 1 = n
        BY <1>3
  <2> QED
      BY <2>1, <2>2
<1>5. ASSUME IsPending(q, n, x)
      PROVE  x \in onServer \cup now \/ IsPending(p, n - 1, x)
  <2>1. PICK i \in 1 .. n : PassedOn(q[i]) /\ x \in Refs(q[i].commits)
        BY <1>5 DEF IsPending
  <2>2. CASE i = 1
        BY <1>1, <2>1, <2>2
  <2>3. CASE i # 1
    <3>1. i - 1 \in 1 .. n - 1 /\ i - 1 \in 1 .. Len(q) - 1 /\ (i - 1) + 1 = i
          BY <1>2, <1>3, <2>1, <2>3
    <3>2. p[i - 1] = q[i]
          BY <1>1, <3>1
    <3> QED
        BY <2>1, <3>1, <3>2 DEF IsPending
  <2> QED
      BY <2>2, <2>3
<1> QED
    BY <1>4, <1>5

LEMMA PendingOwn ==
    ASSUME NEW q, IsQueue(q), NEW r, IsOwn(q, r)
    PROVE  IsPending(q, Len(q), r)
BY QueueDomain DEF IsOwn, IsPending, PassedOn, Elements

(* A job comes into the local queue.                                       *)
LEMMA LocalAppendOK ==
    ASSUME NEW a, NEW b, NEW onServer, NEW stored, LocalTabOK(a, onServer, stored),
           IsQueue(a.localQueue), NEW job, b.dbOpen = a.dbOpen,
           b.localQueue = Append(a.localQueue, job), a.known \subseteq b.known,
           LocalJobOK(job, b.known, onServer, stored),
           b.dbOpen /\ PassedOn(job) =>
               \A r \in Refs(job.commits) \ onServer : \A p \in ParentsOf(r) :
                   p \in onServer \cup stored \/ IsOwn(a.localQueue, p),
           b.dbOpen => \A r \in b.known :
               r \in a.known \cup onServer \cup stored
                   \/ (job.op = "update" /\ r \in Refs(job.commits))
    PROVE  LocalTabOK(b, onServer, stored)
<1>1. Elements(b.localQueue) = Elements(a.localQueue) \cup {job}
      BY QueueAppend
<1>2. \A x \in Elements(b.localQueue) : LocalJobOK(x, b.known, onServer, stored)
      BY <1>1 DEF LocalTabOK, LocalJobOK
<1>3. ASSUME b.dbOpen
      PROVE  LocalOrder(b.localQueue, onServer, stored)
      BY <1>3, OrderAppend, PendingOwn DEF LocalTabOK
<1>4. ASSUME b.dbOpen, NEW r \in b.known
      PROVE  r \in onServer \cup stored \/ IsOwn(b.localQueue, r)
      BY <1>1, <1>4 DEF LocalTabOK, IsOwn
<1> QED
    BY <1>2, <1>3, <1>4 DEF LocalTabOK

(* The first job of the local queue is done.                               *)
LEMMA LocalTailOK ==
    ASSUME NEW a, NEW b, NEW onServer, NEW stored, NEW now, LocalTabOK(a, onServer, stored),
           stored \subseteq now, IsQueue(a.localQueue), a.localQueue # <<>>, b.dbOpen = a.dbOpen,
           b.localQueue = Tail(a.localQueue), a.known \subseteq b.known,
           b.dbOpen /\ PassedOn(Head(a.localQueue)) =>
               Refs(Head(a.localQueue).commits) \subseteq onServer \cup now,
           b.dbOpen => b.known \subseteq a.known \cup onServer \cup now
    PROVE  LocalTabOK(b, onServer, now)
<1>1. Elements(a.localQueue) = Elements(b.localQueue) \cup {Head(a.localQueue)}
      BY QueueTail
<1>2. \A x \in Elements(b.localQueue) : LocalJobOK(x, b.known, onServer, now)
      BY <1>1 DEF LocalTabOK, LocalJobOK
<1>3. ASSUME b.dbOpen
      PROVE  LocalOrder(b.localQueue, onServer, now)
      BY <1>3, OrderTail DEF LocalTabOK
<1>4. ASSUME b.dbOpen, NEW r \in b.known
      PROVE  r \in onServer \cup now \/ IsOwn(b.localQueue, r)
      BY <1>1, <1>4 DEF LocalTabOK, IsOwn, PassedOn
<1> QED
    BY <1>2, <1>3, <1>4 DEF LocalTabOK

LEMMA NewLocalOK ==
    ASSUME NEW tab \in {NewTab, NoTab}, NEW onServer, NEW stored
    PROVE  LocalTabOK(tab, onServer, stored)
<1>1. tab.known = {} /\ (tab.localQueue = <<>> \/ tab.localQueue = <<Job("load")>>)
      BY NewTabIs DEF NewTabFields
<1>2. \A job \in Elements(tab.localQueue) : job = Job("load")
      BY <1>1, EmptyQueue, SingleQueue
<1>3. \A job \in Elements(tab.localQueue) : job.op = "load" /\ ~PassedOn(job)
      BY <1>2 DEF Job, PassedOn
<1>4. \A n \in DOMAIN tab.localQueue : ~PassedOn(tab.localQueue[n])
      BY <1>3 DEF Elements
<1> QED
    BY <1>1, <1>3, <1>4 DEF LocalTabOK, LocalJobOK, LocalOrder

-----------------------------------------------------------------------------
(* What the steps make of the databases and of the server.                 *)

LEMMA Stays ==
    ASSUME [Next]_vars
    PROVE  storeOf' = storeOf /\ (gap => gap')
<1>1. storeOf' = storeOf
      BY DEF Next, Jobs, LocalJobs, Network, vars, counters, Edit, Promote, Demote, Reconnect, Shutdown,
             Crash, Open, Reset, Connect, Opens, ConnectClosed, Upload, CloseJob, CloseDatabase,
             RemoteCommits, RemoteCommitsThrow, Persist, Ack, OnError, Load, LoadThrows, Update,
             LocalEvent, LocalEventThrows, SocketCloses, ServerInit, ServerCommits, Break
<1>2. ASSUME gap
      PROVE  gap'
      BY <1>2 DEF Next, Jobs, LocalJobs, Network, vars, counters, Edit, Promote, Demote, Reconnect, Shutdown,
             Crash, Open, Reset, Connect, Opens, ConnectClosed, Upload, CloseJob, CloseDatabase,
             RemoteCommits, RemoteCommitsThrow, Persist, Ack, OnError, Load, LoadThrows, Update,
             LocalEvent, LocalEventThrows, SocketCloses, ServerInit, ServerCommits, Break
<1> QED
    BY <1>1, <1>2

LEMMA ServerStays ==
    ASSUME [Next]_vars, \A k \in Socket : ~ServerCommits(k)
    PROVE  rows' = rows
BY DEF Next, Jobs, LocalJobs, Network, vars, server, Edit, Promote, Demote, Reconnect, Shutdown,
       Crash, Open, Reset, Connect, Opens, ConnectClosed, Upload, CloseJob, CloseDatabase,
       RemoteCommits, RemoteCommitsThrow, Persist, Ack, OnError, Load, LoadThrows, Update,
       LocalEvent, LocalEventThrows, SocketCloses, ServerInit, Break

(* Steps that write to no database.                                        *)
LEMMA DbKept ==
    ASSUME [Next]_vars, ~gap', \A t \in Tab : ~Persist(t) /\ ~Ack(t) /\ ~Update(t),
           \A s \in Store : ~Reset(s)
    PROVE  db' = db
BY DEF Next, Jobs, LocalJobs, Network, vars, Edit, Promote, Demote, Reconnect, Shutdown,
       Crash, Open, Connect, Opens, ConnectClosed, Upload, CloseJob, CloseDatabase,
       RemoteCommits, RemoteCommitsThrow, OnError, Load, LoadThrows,
       LocalEvent, LocalEventThrows, SocketCloses, ServerInit, ServerCommits, Break

LEMMA PersistIs ==
    ASSUME CursorStepInv, NEW t \in Tab, Persist(t)
    PROVE  LET job == Head(tabs[t].remoteQueue)
               d == db[storeOf[t]]
               e == UpsertRemoteSyncInfo(AddCommits(d, job.commits, TRUE), job.cursor)
           IN  /\ BatchOK(job.commits) /\ Refs(job.commits) \subseteq ServerRefs
               /\ \A s \in Store :
                      db'[s] = IF s = storeOf[t] /\ tabs[t].dbOpen THEN e ELSE db[s]
               /\ Stored(e) = Stored(d) \cup Refs(job.commits)
               /\ e.commits = AddCommits(d, job.commits, TRUE).commits
               /\ sockets' = sockets /\ rows' = rows /\ storeOf' = storeOf /\ gap' = gap
<1> DEFINE job == Head(tabs[t].remoteQueue)
           d == db[storeOf[t]]
           added == AddCommits(d, job.commits, TRUE)
           e == UpsertRemoteSyncInfo(added, job.cursor)
<1>1. tabs[t].remoteQueue # <<>> /\ job.op = "persist"
      BY DEF Persist, NextRemote
<1>2. /\ BatchOK(job.commits) /\ Refs(job.commits) \subseteq RefsOf(rows)
      /\ job.cursor \in 0 .. LastId(rows)
      BY <1>1, Facts DEF RemoteJobData, IsEvent
<1>3. DbData(d, rows)
      BY Facts
<1>4. DbIs(added, rows, Stored(d) \cup Refs(job.commits), d.lastSyncCursor)
      BY <1>2, <1>3, AddCommitsData
<1>5. db = [s \in Store |-> db[s]] /\ tabs[t].dbOpen \in BOOLEAN
      BY Facts DEF CursorStepInv, DataInv, TabInv, TabShape
<1>6. db' = IF ~tabs[t].dbOpen THEN db ELSE [db EXCEPT ![storeOf[t]] = e]
      BY DEF Persist
<1> HIDE DEF added
<1>7. e.commits = added.commits
      BY <1>4 DEF UpsertRemoteSyncInfo, DbIs, DbData
<1>8. Stored(e) = Stored(d) \cup Refs(job.commits)
      BY <1>4, <1>7 DEF Stored, DbIs
<1>9. \A s \in Store : db'[s] = IF s = storeOf[t] /\ tabs[t].dbOpen THEN e ELSE db[s]
  <2> HIDE DEF e
  <2> QED
      BY <1>5, <1>6
<1>10. sockets' = sockets /\ rows' = rows /\ storeOf' = storeOf /\ gap' = gap
      BY DEF Persist, server, counters
<1> QED
    BY <1>2, <1>7, <1>8, <1>9, <1>10 DEF ServerRefs, added

LEMMA UpdateStores ==
    ASSUME CursorStepInv, NEW t \in Tab, Update(t)
    PROVE  LET job == Head(tabs[t].localQueue)
               d == db[storeOf[t]]
               e == AddCommits(d, job.commits, FALSE)
           IN  /\ BatchOK(job.commits)
               /\ \A s \in Store :
                      db'[s] = IF s = storeOf[t] /\ tabs[t].dbOpen THEN e ELSE db[s]
               /\ Stored(e) = Stored(d) \cup Refs(job.commits)
               /\ rows' = rows /\ storeOf' = storeOf /\ gap' = gap
<1> DEFINE job == Head(tabs[t].localQueue)
           d == db[storeOf[t]]
           e == AddCommits(d, job.commits, FALSE)
<1>1. tabs[t].localQueue # <<>> /\ job.op = "update"
      BY DEF Update, NextLocal
<1>2. BatchOK(job.commits)
      BY <1>1, Facts DEF LocalJobData
<1>3. DbData(d, rows)
      BY Facts
<1>4. DbIs(e, rows, Stored(d) \cup Refs(job.commits), d.lastSyncCursor)
      BY <1>2, <1>3, AddCommitsData
<1>5. db = [s \in Store |-> db[s]] /\ tabs[t].dbOpen \in BOOLEAN
      BY Facts DEF CursorStepInv, DataInv, TabInv, TabShape
<1>6. db' = IF tabs[t].dbOpen THEN [db EXCEPT ![storeOf[t]] = e] ELSE db
      BY DEF Update
<1>9. \A s \in Store : db'[s] = IF s = storeOf[t] /\ tabs[t].dbOpen THEN e ELSE db[s]
  <2> HIDE DEF e
  <2> QED
      BY <1>5, <1>6
<1>10. rows' = rows /\ storeOf' = storeOf /\ gap' = gap
      BY DEF Update, server, counters
<1> QED
    BY <1>2, <1>4, <1>9, <1>10 DEF DbIs

(* An ack and a reset mark commits as synced, or not.                      *)
LEMMA MarksOnly ==
    ASSUME CursorStepInv, (\E t \in Tab : Ack(t)) \/ (\E s \in Store : Reset(s)), NEW s \in Store
    PROVE  /\ Stored(db'[s]) = Stored(db[s])
           /\ \A r \in Stored(db[s]) : db'[s].commits[r].syncId = db[s].commits[r].syncId
           /\ rows' = rows /\ storeOf' = storeOf /\ gap' = gap
<1>1. db = [x \in Store |-> db[x]] /\ DbData(db[s], rows)
      BY DEF CursorStepInv, DataInv
<1> DEFINE d == db[s]
<1>2. d \in [commits : {d.commits}, heads : {d.heads}, lastSyncCursor : 0 .. LastId(rows)]
      /\ \A r \in Stored(d) : CommitData(d.commits[r])
      BY <1>1 DEF DbData
<1>3. ASSUME NEW t \in Tab, Ack(t)
      PROVE  /\ Stored(db'[s]) = Stored(db[s])
             /\ \A r \in Stored(db[s]) : db'[s].commits[r].syncId = db[s].commits[r].syncId
  <2>1. PICK acks, cursor : db' = db \/ db' = [db EXCEPT ![storeOf[t]] =
            UpsertRemoteSyncInfo(AcknowledgeRemoteCommits(db[storeOf[t]], acks), cursor)]
        BY <1>3 DEF Ack
  <2> DEFINE c == [r \in Stored(d) |-> UpdateCommit(d.commits[r], r \in acks)]
             e == [d EXCEPT !.commits = c]
             f == [e EXCEPT !.lastSyncCursor = cursor]
  <2>2. db'[s] = db[s] \/ db'[s] = f
    <3> DEFINE new == UpsertRemoteSyncInfo(AcknowledgeRemoteCommits(db[storeOf[t]], acks), cursor)
    <3>1. s = storeOf[t] => new = f
          BY DEF UpsertRemoteSyncInfo, AcknowledgeRemoteCommits
    <3> HIDE DEF new, f
    <3>2. db'[s] = db[s] \/ (s = storeOf[t] /\ db'[s] = new)
          BY <1>1, <2>1 DEF new
    <3> QED
        BY <3>1, <3>2
  <2>3. f.commits = c
        BY <1>2
  <2>4. \A r \in Stored(d) : c[r].syncId = d.commits[r].syncId
        BY <1>2 DEF UpdateCommit, CommitData
  <2>5. DOMAIN c = Stored(d)
        OBVIOUS
  <2> HIDE DEF c, f
  <2> QED
      BY <2>2, <2>3, <2>4, <2>5 DEF Stored
<1>4. ASSUME NEW x \in Store, Reset(x)
      PROVE  /\ Stored(db'[s]) = Stored(db[s])
             /\ \A r \in Stored(db[s]) : db'[s].commits[r].syncId = db[s].commits[r].syncId
  <2> DEFINE c == [r \in Stored(d) |-> [d.commits[r] EXCEPT !.synced = FALSE]]
             f == [d EXCEPT !.commits = c, !.lastSyncCursor = 0]
  <2>1. db' = [db EXCEPT ![x] = ResetDocRemoteSyncData(db[x])]
        BY <1>4 DEF Reset
  <2>2. db'[s] = db[s] \/ db'[s] = f
        BY <1>1, <2>1 DEF ResetDocRemoteSyncData
  <2>3. f.commits = c
        BY <1>2
  <2>4. \A r \in Stored(d) : c[r].syncId = d.commits[r].syncId
        BY <1>2 DEF CommitData
  <2>5. DOMAIN c = Stored(d)
        OBVIOUS
  <2> HIDE DEF c, f
  <2> QED
      BY <2>2, <2>3, <2>4, <2>5 DEF Stored
<1>5. rows' = rows /\ storeOf' = storeOf /\ gap' = gap
      BY DEF Ack, Reset, server, counters
<1> QED
    BY <1>3, <1>4, <1>5

LEMMA CommitsAdded ==
    ASSUME CursorStepInv, NEW k \in Socket, ServerCommits(k)
    PROVE  LET batch == Head(sockets[k].up).commits
               refs == [n \in DOMAIN batch |-> batch[n].ref]
           IN  /\ IsQueue(sockets[k].up) /\ IsQueue(batch)
               /\ IsQueue(refs) /\ Elements(refs) = Refs(batch)
               /\ IsQueue(rows) /\ memory.seenRefs = ServerRefs
               /\ \E id : LET added == LiveDocAddCommits(rows, memory, refs, id)
                          IN  rows' = added.rows /\ AddsOK(rows, memory, refs, id, added)
               /\ db' = db /\ storeOf' = storeOf /\ gap' = gap
<1> DEFINE up == sockets[k].up
           batch == Head(up).commits
           refs == [n \in DOMAIN batch |-> batch[n].ref]
           id == LastRow + 1
           added == LiveDocAddCommits(rows, memory, refs, id)
<1>1. IsQueue(rows) /\ memory.seenRefs = ServerRefs /\ UpData(up)
      BY DEF CursorStepInv, DataInv, TableData, ServerRefs
<1>2. rows' = added.rows /\ up # <<>>
      BY DEF ServerCommits
<1>3. IsQueue(up) /\ IsQueue(batch)
      BY <1>1, <1>2, QueueTail DEF UpData, BatchOK
<1>4. IsQueue(refs) /\ Elements(refs) = Refs(batch)
  <2> HIDE DEF batch
  <2>1. Len(batch) \in Nat /\ DOMAIN batch = 1 .. Len(batch)
        BY <1>3, QueueDomain
  <2>2. refs = [n \in 1 .. Len(batch) |-> refs[n]] /\ DOMAIN refs = DOMAIN batch
        BY <2>1
  <2>3. IsQueue(refs)
        BY <2>1, <2>2, ListedQueue
  <2> QED
      BY <2>3 DEF Elements, Refs
<1>5. db' = db /\ storeOf' = storeOf /\ gap' = gap
      BY DEF ServerCommits, counters
<1> HIDE DEF refs, id
<1>6. AddsOK(rows, memory, refs, id, added)
      BY <1>1, <1>4, AddsCommits
<1> QED
    BY <1>1, <1>2, <1>3, <1>4, <1>5, <1>6 DEF refs

(* What is added, and that it comes after its parents.                     *)
LEMMA ServerGrows ==
    ASSUME CursorStepInv, NEW k \in Socket, ServerCommits(k)
    PROVE  /\ ServerRefs \subseteq ServerRefs'
           /\ (\A r \in ServerRefs : ParentsOf(r) \subseteq ServerRefs) =>
                  \A r \in ServerRefs' : ParentsOf(r) \subseteq ServerRefs'
<1> DEFINE batch == Head(sockets[k].up).commits
           refs == [n \in DOMAIN batch |-> batch[n].ref]
<1>1. PICK id : LET added == LiveDocAddCommits(rows, memory, refs, id)
                IN  rows' = added.rows /\ AddsOK(rows, memory, refs, id, added)
      BY CommitsAdded
<1>2. IsQueue(rows) /\ memory.seenRefs = ServerRefs
      BY CommitsAdded
<1> DEFINE added == LiveDocAddCommits(rows, memory, refs, id)
<1>3. TableOK(rows, ServerRefs, rows', Elements(refs), added.acks, id)
      BY <1>1, <1>2 DEF AddsOK
<1> HIDE DEF added, refs
<1>4. /\ IsQueue(rows') /\ Len(rows) <= Len(rows')
      /\ \A m \in 1 .. Len(rows) : rows'[m] = rows[m]
      /\ \A m \in Later(rows', Len(rows)) : ParentsOf(rows'[m].ref) \subseteq
             ServerRefs \cup {rows'[j].ref : j \in {x \in Later(rows', Len(rows)) : x < m}}
      BY <1>3 DEF TableOK, RowOK
<1>5. /\ DOMAIN rows = 1 .. Len(rows) /\ Len(rows) \in Nat
      /\ DOMAIN rows' = 1 .. Len(rows') /\ Len(rows') \in Nat
      BY <1>2, <1>4, QueueDomain
<1>6. ServerRefs = {rows[n].ref : n \in DOMAIN rows}
      /\ ServerRefs' = {rows'[n].ref : n \in DOMAIN rows'}
      BY DEF ServerRefs, RefsOf
<1>7. ServerRefs \subseteq ServerRefs'
      BY <1>4, <1>5, <1>6
<1>8. Later(rows', Len(rows)) \subseteq DOMAIN rows'
      BY <1>5 DEF Later
<1>9. ASSUME \A r \in ServerRefs : ParentsOf(r) \subseteq ServerRefs, NEW r \in ServerRefs'
      PROVE  ParentsOf(r) \subseteq ServerRefs'
  <2>1. PICK n \in DOMAIN rows' : r = rows'[n].ref
        BY <1>6
  <2>2. CASE n \in 1 .. Len(rows)
        BY <1>4, <1>5, <1>6, <1>7, <1>9, <2>1, <2>2
  <2>3. CASE n \in Later(rows', Len(rows))
        BY <1>4, <1>6, <1>7, <1>8, <2>1, <2>3
  <2> QED
      BY <1>5, <2>2, <2>3 DEF Later
<1> QED
    BY <1>7, <1>9

(* As long as nothing is lost, nothing is.                                 *)
LEMMA HomePersist ==
    ASSUME CursorStepInv, NEW t \in Tab, Persist(t), NEW x \in Tab
    PROVE  Home(x)' = IF storeOf[x] = storeOf[t] /\ tabs[t].dbOpen
                      THEN Home(x) \cup Refs(Head(tabs[t].remoteQueue).commits) ELSE Home(x)
<1>1. storeOf[x] \in Store /\ Home(x)' = Stored(db'[storeOf[x]])
      BY PersistIs, Facts DEF Home
<1> QED
    BY <1>1, PersistIs DEF Home

LEMMA HomeUpdate ==
    ASSUME CursorStepInv, NEW t \in Tab, Update(t), NEW x \in Tab
    PROVE  Home(x)' = IF storeOf[x] = storeOf[t] /\ tabs[t].dbOpen
                      THEN Home(x) \cup Refs(Head(tabs[t].localQueue).commits) ELSE Home(x)
<1>1. storeOf[x] \in Store /\ Home(x)' = Stored(db'[storeOf[x]])
      BY UpdateStores, Facts DEF Home
<1> QED
    BY <1>1, UpdateStores DEF Home

LEMMA HomeKept ==
    ASSUME CursorStepInv, [Next]_vars, ~gap', \A t \in Tab : ~Persist(t) /\ ~Update(t),
           NEW x \in Tab
    PROVE  Home(x)' = Home(x)
<1>1. storeOf' = storeOf /\ storeOf[x] \in Store
      BY Stays, Facts
<1>2. Home(x)' = Stored(db'[storeOf[x]])
      BY <1>1 DEF Home
<1>3. CASE (\E t \in Tab : Ack(t)) \/ (\E s \in Store : Reset(s))
      BY <1>1, <1>2, <1>3, MarksOnly DEF Home
<1>4. CASE ~((\E t \in Tab : Ack(t)) \/ (\E s \in Store : Reset(s)))
      BY <1>1, <1>2, <1>4, DbKept DEF Home
<1> QED
    BY <1>3, <1>4

LEMMA AllGrows ==
    ASSUME CursorStepInv, [Next]_vars, ~gap', NEW x \in Tab
    PROVE  Home(x) \subseteq Home(x)' /\ ServerRefs \subseteq ServerRefs' /\ ~gap
<1>1. ServerRefs \subseteq ServerRefs'
      BY ServerStays, ServerGrows DEF ServerRefs
<1>2. Home(x) \subseteq Home(x)'
      BY HomePersist, HomeUpdate, HomeKept
<1> QED
    BY <1>1, <1>2, Stays

LEMMA SingleRefs ==
    ASSUME NEW r
    PROVE  Refs(<<Fresh(r)>>) = {r}
<1>1. DOMAIN <<Fresh(r)>> = {1} /\ <<Fresh(r)>>[1] = Fresh(r)
      OBVIOUS
<1>2. Fresh(r).ref = r
      BY DEF Fresh
<1> QED
    BY <1>1, <1>2 DEF Refs

(* computeRef: the parents of an edit are the heads it is made on.         *)
EditsOnHeads == \A S, t : ParentsOf(EditRef(S, t)) \subseteq S

LEMMA ToldLocalOK ==
    ASSUME NEW a, NEW b, NEW known, NEW batch, NEW origin, NEW onServer, NEW stored,
           LocalTabOK(a, onServer, stored), IsQueue(a.localQueue),
           Learns(a, b, a.known, a.missed, Append(a.localQueue, EventJob(batch, origin))),
           Refs(batch) \subseteq onServer \cup stored,
           origin \/ (/\ \E r : batch = <<Fresh(r)>>
                      /\ \A r \in Refs(batch) \ onServer : ParentsOf(r) \subseteq onServer \cup stored)
    PROVE  LocalTabOK(b, onServer, stored)
<1> DEFINE job == EventJob(batch, origin)
<1>1. job.op = "event" /\ job.commits = batch /\ job.remoteOrigin = origin
      BY DEF EventJob
<1> HIDE DEF job
<1>2. /\ b.localQueue = Append(a.localQueue, job) /\ b.known = a.known /\ b.dbOpen = a.dbOpen
      BY DEF Learns, SameRemote, job
<1>3. LocalJobOK(job, b.known, onServer, stored)
      BY <1>1 DEF LocalJobOK, PassedOn
<1>4. PassedOn(job) => \A r \in Refs(job.commits) \ onServer : \A p \in ParentsOf(r) :
                           p \in onServer \cup stored
      BY <1>1 DEF PassedOn
<1> QED
    BY <1>2, <1>3, <1>4, LocalAppendOK

LEMMA EditLocal ==
    ASSUME CursorStepInv, RemoteInv, EditsOnHeads, NEW t \in Tab, Edit(t), NEW onServer, NEW stored,
           LocalTabOK(tabs[t], onServer, stored)
    PROVE  LocalTabOK(tabs'[t], onServer, stored)
<1> DEFINE a == tabs[t]
           b == tabs'[t]
           r == EditRef(Childless(a.known), t)
           job == [op |-> "update", commits |-> <<Fresh(r)>>]
<1>1. /\ Learns(a, b, a.known \cup {r}, a.missed, Append(a.localQueue, job))
      /\ Live(t)
      BY EditIs
<1>2. IsQueue(a.localQueue) /\ a.dbOpen
      BY <1>1, Facts DEF LocalData, RemoteInv, RemoteTabOK, Live
<1>3. ParentsOf(r) \subseteq a.known
      BY DEF EditsOnHeads, Childless
<1>4. Refs(<<Fresh(r)>>) = {r}
      BY SingleRefs
<1>5. job.op = "update" /\ job.commits = <<Fresh(r)>>
      OBVIOUS
<1> HIDE DEF job, r
<1>6. LocalJobOK(job, b.known, onServer, stored)
      BY <1>1, <1>4, <1>5 DEF LocalJobOK, Learns
<1>7. \A p \in ParentsOf(r) : p \in onServer \cup stored \/ IsOwn(a.localQueue, p)
      BY <1>2, <1>3 DEF LocalTabOK
<1> QED
    BY <1>1, <1>2, <1>4, <1>5, <1>6, <1>7, LocalAppendOK DEF Learns, SameRemote

LEMMA UpdateLocal ==
    ASSUME CursorStepInv, LocalInv, NEW t \in Tab, Update(t), NEW x \in Tab
    PROVE  LocalTabOK(tabs'[x], ServerRefs, Home(x)')
<1> DEFINE job == Head(tabs[t].localQueue)
           refs == Refs(job.commits)
           a == tabs[t]
           b == tabs'[t]
<1>1. /\ a.localQueue # <<>> /\ job.op = "update"
      /\ Learns(a, b, a.known, a.missed, Tail(a.localQueue))
      BY UpdateIs
<1>2. /\ \A y \in Tab : IsQueue(tabs[y].localQueue) /\ LocalTabOK(tabs[y], ServerRefs, Home(y))
      BY Facts DEF LocalData, LocalInv
<1>3. \A y \in Tab : Home(y)' = IF storeOf[y] = storeOf[t] /\ a.dbOpen
                                THEN Home(y) \cup refs ELSE Home(y)
      BY HomeUpdate
<1>4. job \in Elements(a.localQueue) /\ PassedOn(job) /\ a.localQueue[1] = job
      /\ 1 \in DOMAIN a.localQueue
      BY <1>1, <1>2, QueueTail, QueueDomain DEF PassedOn
<1> HIDE DEF job, refs
<1>5. CASE x = t
  <2>1. /\ b.dbOpen = a.dbOpen /\ b.known = a.known /\ b.localQueue = Tail(a.localQueue)
        BY <1>1 DEF Learns, SameRemote
  <2>2. Home(t) \subseteq Home(t)' /\ (b.dbOpen => refs \subseteq Home(t)')
        BY <1>3, <2>1
  <2>3. LocalTabOK(b, ServerRefs, Home(t)')
        BY <1>1, <1>2, <2>1, <2>2, LocalTailOK DEF refs, job
  <2> QED
      BY <1>5, <2>3
<1>6. CASE x # t
  <2>1. LocalTabOK(tabs[x], ServerRefs, Home(x)')
    <3>1. SameLocal(tabs[x], tabs[x]) /\ Home(x) \subseteq Home(x)'
          BY <1>3 DEF SameLocal
    <3> QED
        BY <1>2, <3>1, LocalGrows
  <2>2. CASE tabs'[x] = tabs[x]
        BY <2>1, <2>2
  <2>3. CASE tabs'[x] # tabs[x]
    <3>1. a.dbOpen /\ x \in Siblings(t)
          /\ Learns(tabs[x], tabs'[x], tabs[x].known, tabs[x].missed,
                    Append(tabs[x].localQueue, EventJob(job.commits, FALSE)))
          BY <1>6, <2>3, UpdateIs DEF Told, Only, job
    <3>2. Home(x) = Home(t) /\ Home(x)' = Home(t) \cup refs
          BY <1>3, <3>1 DEF Siblings, Home
    <3>3. \E r : job.commits = <<Fresh(r)>>
          BY <1>2, <1>4 DEF LocalTabOK, LocalJobOK
    <3>4. \A r \in Refs(job.commits) \ ServerRefs : ParentsOf(r) \subseteq ServerRefs \cup Home(x)'
      <4>1. LocalOrder(a.localQueue, ServerRefs, Home(t))
            BY <1>2, <3>1 DEF LocalTabOK
      <4>2. \A p : ~IsPending(a.localQueue, 1 - 1, p)
            BY DEF IsPending
      <4> QED
          BY <1>4, <3>2, <4>1, <4>2 DEF LocalOrder
    <3>5. IsQueue(tabs[x].localQueue) /\ refs \subseteq ServerRefs \cup Home(x)'
          BY <1>2, <3>2
    <3> QED
        BY <2>1, <3>1, <3>3, <3>4, <3>5, ToldLocalOK DEF refs
  <2> QED
      BY <2>2, <2>3
<1> QED
    BY <1>5, <1>6

LEMMA RemoteCommitsLocal ==
    ASSUME CursorStepInv, NEW t \in Tab, RemoteCommits(t), NEW x \in Tab, NEW stored,
           LocalTabOK(tabs[x], ServerRefs, stored)
    PROVE  LocalTabOK(tabs'[x], ServerRefs, stored)
<1> DEFINE event == Head(tabs[t].remoteQueue)
           a == tabs[t]
           b == tabs'[t]
<1>1. /\ a.remoteQueue # <<>> /\ event.op = "commits" /\ Told(t, event.commits, TRUE)
      /\ b.dbOpen = a.dbOpen /\ b.localQueue = a.localQueue
      /\ b.known = a.known \cup Refs(event.commits)
      BY RemoteCommitsIs DEF Busy
<1>2. Refs(event.commits) \subseteq ServerRefs
      BY <1>1, Facts DEF RemoteJobData, ServerRefs
<1> HIDE DEF event
<1>3. CASE x = t
      BY <1>1, <1>2, <1>3 DEF LocalTabOK, LocalJobOK
<1>4. CASE x # t /\ x \in Siblings(t)
  <2>1. Learns(tabs[x], tabs'[x], tabs[x].known, tabs[x].missed,
               Append(tabs[x].localQueue, EventJob(event.commits, TRUE)))
        BY <1>1, <1>4 DEF Told
  <2>2. IsQueue(tabs[x].localQueue)
        BY Facts DEF LocalData
  <2> QED
      BY <1>2, <2>1, <2>2, ToldLocalOK
<1>5. CASE x # t /\ x \notin Siblings(t)
      BY <1>1, <1>5 DEF Told
<1> QED
    BY <1>3, <1>4, <1>5

LEMMA NextLocalInv ==
    ASSUME CursorStepInv, RemoteInv, LocalInv, EditsOnHeads, [Next]_vars, ~gap'
    PROVE  LocalInv'
<1> SUFFICES ASSUME NEW x \in Tab
             PROVE  LocalTabOK(tabs'[x], ServerRefs', Home(x)')
    BY DEF LocalInv
<1>1. /\ LocalTabOK(tabs[x], ServerRefs, Home(x)) /\ IsQueue(tabs[x].localQueue)
      /\ Home(x) \subseteq Home(x)' /\ ServerRefs \subseteq ServerRefs'
      BY AllGrows, Facts DEF LocalInv, LocalData
<1>2. LocalTabOK(tabs[x], ServerRefs', Home(x)')
  <2>1. SameLocal(tabs[x], tabs[x])
        BY DEF SameLocal
  <2> QED
      BY <1>1, <2>1, LocalGrows
<1>3. CASE AsideNext
      BY <1>1, <1>3, AllAside, LocalGrows DEF Aside
<1>4. CASE \E t \in Tab : Update(t)
  <2>1. ServerRefs' = ServerRefs
        BY <1>4, UpdateStores DEF ServerRefs
  <2> QED
      BY <1>4, <2>1, UpdateLocal
<1>5. ASSUME NEW t \in Tab, RemoteCommits(t)
      PROVE  LocalTabOK(tabs'[x], ServerRefs', Home(x)')
  <2>1. ServerRefs' = ServerRefs
        BY <1>5 DEF RemoteCommits, server, ServerRefs
  <2> QED
      BY <1>2, <1>5, <2>1, RemoteCommitsLocal
<1>6. ASSUME NEW t \in Tab, Edit(t)
      PROVE  LocalTabOK(tabs'[x], ServerRefs', Home(x)')
  <2>1. Only(t)
        BY <1>6, EditIs
  <2> QED
      BY <1>2, <1>6, <2>1, EditLocal DEF Only
<1>7. ASSUME NEW t \in Tab, Load(t)
      PROVE  LocalTabOK(tabs'[x], ServerRefs', Home(x)')
  <2>1. /\ Only(t) /\ tabs[t].localQueue # <<>> /\ Head(tabs[t].localQueue).op = "load"
        /\ Learns(tabs[t], tabs'[t], tabs[t].known \cup Home(t), tabs[t].missed \cup Unheard(t),
                  Tail(tabs[t].localQueue))
        BY <1>7, LoadLearns
  <2>2. ~PassedOn(Head(tabs[t].localQueue))
        BY <2>1 DEF PassedOn
  <2>3. x = t => LocalTabOK(tabs'[x], ServerRefs', Home(x)')
        BY <1>1, <1>2, <2>1, <2>2, LocalTailOK DEF Learns, SameRemote
  <2> QED
      BY <1>2, <2>1, <2>3 DEF Only
<1>8. ASSUME NEW t \in Tab, LocalEvent(t)
      PROVE  LocalTabOK(tabs'[x], ServerRefs', Home(x)')
  <2> DEFINE event == Head(tabs[t].localQueue)
  <2>1. /\ Only(t) /\ tabs[t].localQueue # <<>> /\ event.op = "event"
        /\ Learns(tabs[t], tabs'[t], tabs[t].known \cup Refs(event.commits), tabs[t].missed,
                  Tail(tabs[t].localQueue))
        BY <1>8, LocalEventIs
  <2>2. x = t => Refs(event.commits) \subseteq ServerRefs' \cup Home(x)'
    <3>1. x = t => event \in Elements(tabs[x].localQueue)
          BY <1>1, <2>1, QueueTail
    <3> QED
        BY <1>2, <2>1, <3>1 DEF LocalTabOK, LocalJobOK
  <2> HIDE DEF event
  <2>3. x = t => LocalTabOK(tabs'[x], ServerRefs', Home(x)')
        BY <1>1, <1>2, <2>1, <2>2, LocalTailOK DEF Learns, SameRemote, event
  <2> QED
      BY <1>2, <2>1, <2>3 DEF Only
<1>9. ASSUME NEW t \in Tab, Open(t) \/ Crash(t)
      PROVE  LocalTabOK(tabs'[x], ServerRefs', Home(x)')
      BY <1>2, <1>9, OpenIs, CrashIs, NewLocalOK DEF Only
<1>10. ASSUME NEW t \in Tab, RemoteCommitsThrow(t) \/ LoadThrows(t) \/ LocalEventThrows(t)
       PROVE  FALSE
       BY <1>10, ThrowIs
<1> QED
    BY <1>3, <1>4, <1>5, <1>6, <1>7, <1>8, <1>9, <1>10 DEF Next, Jobs, LocalJobs, AsideNext

-----------------------------------------------------------------------------
(* Each tab hears of what its browser stores.                              *)

IsNewsOf(job, r) == job.op = "load" \/ (job.op = "event" /\ r \in Refs(job.commits))

(* A tab knows a commit, or will hear of it, or missed it.                 *)
Hears(tab, r) ==
    \/ r \in tab.known \cup tab.missed
    \/ \E job \in Elements(tab.localQueue) : IsNewsOf(job, r)

IsPersisting(tab, r) ==
    tab.open /\ \E job \in Elements(tab.remoteQueue) : job.op = "persist" /\ r \in Refs(job.commits)

(* What is in the database, or about to be put there.                      *)
HeardTab(t) ==
    tabs[t].open =>
        /\ \A r \in Home(t) : Hears(tabs[t], r)
        /\ \A r : IsPersisting(tabs[t], r) => r \in tabs[t].known
        /\ \A o \in Siblings(t) : \A r : IsPersisting(tabs[o], r) => Hears(tabs[t], r)

HeardInv == \A t \in Tab : HeardTab(t)

HearsOn(a, b) ==
    b.open => a.open /\ a.known \subseteq b.known /\ (\A r : Hears(a, r) => Hears(b, r))

LEMMA HeardStep ==
    ASSUME NEW x \in Tab, HeardTab(x), storeOf' = storeOf, HearsOn(tabs[x], tabs'[x]),
           tabs'[x].open =>
               /\ \A r \in Home(x)' : r \in Home(x) \/ Hears(tabs'[x], r)
               /\ \A r : IsPersisting(tabs'[x], r) =>
                      IsPersisting(tabs[x], r) \/ r \in tabs'[x].known,
           \A o \in Tab \ {x} : storeOf[o] = storeOf[x] /\ tabs'[x].open =>
               \A r : IsPersisting(tabs'[o], r) =>
                   IsPersisting(tabs[o], r) \/ Hears(tabs'[x], r)
    PROVE  HeardTab(x)'
<1> SUFFICES ASSUME tabs'[x].open
             PROVE  /\ \A r \in Home(x)' : Hears(tabs'[x], r)
                    /\ \A r : IsPersisting(tabs'[x], r) => r \in tabs'[x].known
                    /\ \A o \in Siblings(x)' : \A r :
                           IsPersisting(tabs'[o], r) => Hears(tabs'[x], r)
    BY DEF HeardTab, Hears, IsPersisting
<1>1. tabs[x].open /\ tabs[x].known \subseteq tabs'[x].known
      /\ \A r : Hears(tabs[x], r) => Hears(tabs'[x], r)
      BY DEF HearsOn
<1>2. \A r \in Home(x)' : Hears(tabs'[x], r)
      BY <1>1 DEF HeardTab
<1>3. \A r : IsPersisting(tabs'[x], r) => r \in tabs'[x].known
      BY <1>1 DEF HeardTab
<1>4. ASSUME NEW o \in Siblings(x)', NEW r, IsPersisting(tabs'[o], r)
      PROVE  Hears(tabs'[x], r)
  <2>1. o \in Tab \ {x} /\ storeOf[o] = storeOf[x]
        BY <1>4 DEF Siblings
  <2>2. CASE IsPersisting(tabs[o], r)
    <3>1. o \in Siblings(x)
          BY <2>1, <2>2 DEF Siblings, IsPersisting
    <3> QED
        BY <1>1, <2>2, <3>1 DEF HeardTab
  <2> QED
      BY <1>4, <2>1, <2>2
<1> QED
    BY <1>2, <1>3, <1>4

LEMMA AsideHears ==
    ASSUME NEW a, NEW b, Aside(a, b)
    PROVE  HearsOn(a, b) /\ \A r : IsPersisting(b, r) => IsPersisting(a, r)
BY DEF Aside, SameLocal, HearsOn, Hears, IsPersisting, NoNewPersists

LEMMA SameRemotePersists ==
    ASSUME NEW a, NEW b, SameRemote(a, b)
    PROVE  \A r : IsPersisting(b, r) => IsPersisting(a, r)
BY DEF SameRemote, IsPersisting

LEMMA ToldHears ==
    ASSUME NEW a, NEW b, NEW batch, NEW origin, IsQueue(a.localQueue),
           Learns(a, b, a.known, a.missed, Append(a.localQueue, EventJob(batch, origin)))
    PROVE  HearsOn(a, b) /\ \A r \in Refs(batch) : Hears(b, r)
<1>1. /\ b.known = a.known /\ b.missed = a.missed /\ b.open = a.open
      /\ Elements(b.localQueue) = Elements(a.localQueue) \cup {EventJob(batch, origin)}
      BY QueueAppend DEF Learns, SameRemote
<1>2. \A r \in Refs(batch) : IsNewsOf(EventJob(batch, origin), r)
      BY DEF EventJob, IsNewsOf
<1> QED
    BY <1>1, <1>2 DEF HearsOn, Hears

(* The first job of the local queue is done, and no news is lost.          *)
LEMMA TailHears ==
    ASSUME NEW a, NEW b, NEW known, NEW missed, IsQueue(a.localQueue), a.localQueue # <<>>,
           Learns(a, b, known, missed, Tail(a.localQueue)),
           a.known \subseteq known, a.missed \subseteq missed,
           \A r : IsNewsOf(Head(a.localQueue), r) => r \in known
    PROVE  HearsOn(a, b)
<1>1. /\ b.known = known /\ b.missed = missed /\ b.open = a.open
      /\ Elements(a.localQueue) = Elements(b.localQueue) \cup {Head(a.localQueue)}
      BY QueueTail DEF Learns, SameRemote
<1> QED
    BY <1>1 DEF HearsOn, Hears

LEMMA AsideHeard ==
    ASSUME CursorStepInv, HeardInv, [Next]_vars, ~gap', AsideNext, NEW x \in Tab
    PROVE  HeardTab(x)'
<1>1. storeOf' = storeOf
      BY Stays
<1>2. \A o \in Tab : HearsOn(tabs[o], tabs'[o])
          /\ \A r : IsPersisting(tabs'[o], r) => IsPersisting(tabs[o], r)
      BY AllAside, AsideHears
<1>3. ASSUME NEW r \in Home(x)', r \notin Home(x), tabs'[x].open
      PROVE  Hears(tabs'[x], r)
  <2>1. CASE \A t \in Tab : ~Persist(t) /\ ~Update(t)
        BY <1>3, <2>1, HomeKept
  <2>2. ASSUME NEW t \in Tab, Update(t)
        PROVE  FALSE
    <3>1. tabs[t].localQueue # <<>> /\ tabs'[t].localQueue = Tail(tabs[t].localQueue)
          BY <2>2, UpdateIs DEF Learns
    <3>2. tabs'[t].localQueue = tabs[t].localQueue
          BY AllAside DEF Aside, SameLocal
    <3>3. IsQueue(tabs[t].localQueue)
          BY Facts DEF LocalData
    <3>4. Len(Tail(tabs[t].localQueue)) = Len(tabs[t].localQueue) - 1
          /\ Len(tabs[t].localQueue) \in Nat
          BY <3>1, <3>3, QueueTail, QueueDomain
    <3>5. Tail(tabs[t].localQueue) = tabs[t].localQueue
          BY <3>1, <3>2
    <3>6. Len(tabs[t].localQueue) = Len(tabs[t].localQueue) - 1
          BY <3>4, <3>5
    <3> QED
        BY <3>4, <3>6
  <2>3. ASSUME NEW t \in Tab, Persist(t)
        PROVE  Hears(tabs'[x], r)
    <3> DEFINE job == Head(tabs[t].remoteQueue)
    <3>1. storeOf[x] = storeOf[t] /\ r \in Refs(job.commits)
          BY <1>3, <2>3, HomePersist
    <3>2. /\ tabs[t].remoteQueue # <<>> /\ job.op = "persist" /\ tabs[t].open
          /\ IsQueue(tabs[t].remoteQueue)
          BY <2>3, JobIs, Facts DEF Busy, TabInv
    <3>3. job \in Elements(tabs[t].remoteQueue)
          BY <3>2, QueueTail
    <3>4. IsPersisting(tabs[t], r)
          BY <3>1, <3>2, <3>3 DEF IsPersisting
    <3>5. tabs[x].open /\ (t = x \/ t \in Siblings(x))
          BY <1>2, <1>3, <3>1, <3>2 DEF HearsOn, Siblings
    <3>6. Hears(tabs[x], r)
          BY <3>4, <3>5 DEF HeardInv, HeardTab, Hears
    <3> QED
        BY <1>2, <1>3, <3>6 DEF HearsOn
  <2> QED
      BY <2>1, <2>2, <2>3
<1>4. HeardTab(x)
      BY DEF HeardInv
<1> QED
    BY <1>1, <1>2, <1>3, <1>4, HeardStep

LEMMA UpdateHeard ==
    ASSUME CursorStepInv, LocalInv, HeardInv, [Next]_vars, NEW t \in Tab, Update(t), NEW x \in Tab
    PROVE  HeardTab(x)'
<1> DEFINE job == Head(tabs[t].localQueue)
           refs == Refs(job.commits)
           a == tabs[x]
           b == tabs'[x]
<1>1. /\ tabs[t].localQueue # <<>> /\ job.op = "update"
      /\ Learns(tabs[t], tabs'[t], tabs[t].known, tabs[t].missed, Tail(tabs[t].localQueue))
      BY UpdateIs
<1>2. IsQueue(tabs[x].localQueue) /\ HeardTab(x) /\ storeOf' = storeOf
      BY Facts, Stays DEF LocalData, HeardInv
<1>3. x # t => \/ b = a
               \/ Learns(a, b, a.known, a.missed, Append(a.localQueue, EventJob(job.commits, FALSE)))
      BY UpdateIs DEF Told, Only
<1>4. \A o \in Tab : \A r : IsPersisting(tabs'[o], r) => IsPersisting(tabs[o], r)
  <2>1. \A o \in Tab : o # t => tabs'[o] = tabs[o] \/ SameRemote(tabs[o], tabs'[o])
        BY UpdateIs DEF Told, Only, Learns
  <2>2. SameRemote(tabs[t], tabs'[t])
        BY <1>1 DEF Learns
  <2> QED
      BY <2>1, <2>2, SameRemotePersists
<1>5. HearsOn(a, b)
  <2>1. CASE x = t
    <3>1. \A r : ~IsNewsOf(job, r)
          BY <1>1 DEF IsNewsOf
    <3> QED
        BY <1>1, <1>2, <2>1, <3>1, TailHears
  <2>2. CASE x # t /\ b = a
        BY <2>2 DEF HearsOn
  <2>3. CASE x # t /\ b # a
        BY <1>2, <1>3, <2>3, ToldHears
  <2> QED
      BY <2>1, <2>2, <2>3
<1>6. ASSUME NEW r \in Home(x)', r \notin Home(x), b.open
      PROVE  Hears(b, r)
  <2>1. storeOf[x] = storeOf[t] /\ tabs[t].dbOpen /\ r \in refs
        BY <1>6, HomeUpdate
  <2>2. CASE x = t
    <3>1. job \in Elements(tabs[t].localQueue)
          BY <1>1, <1>2, <2>2, QueueTail
    <3>2. r \in tabs[t].known
          BY <1>1, <2>1, <3>1 DEF LocalInv, LocalTabOK, LocalJobOK
    <3> QED
        BY <1>1, <2>2, <3>2 DEF Hears, Learns
  <2>3. CASE x # t
    <3>1. a.open
          BY <1>5, <1>6 DEF HearsOn
    <3>2. x \in Siblings(t)
          BY <2>1, <2>3, <3>1 DEF Siblings
    <3>3. Learns(a, b, a.known, a.missed, Append(a.localQueue, EventJob(job.commits, FALSE)))
          BY <2>1, <2>3, <3>2, UpdateIs DEF Told
    <3> QED
        BY <1>2, <2>1, <3>3, ToldHears
  <2> QED
      BY <2>2, <2>3
<1> QED
    BY <1>2, <1>4, <1>5, <1>6, HeardStep

LEMMA RemoteCommitsHeard ==
    ASSUME CursorStepInv, HeardInv, [Next]_vars, NEW t \in Tab, RemoteCommits(t), NEW x \in Tab,
           ~gap'
    PROVE  HeardTab(x)'
<1> DEFINE event == Head(tabs[t].remoteQueue)
           refs == Refs(event.commits)
           rest == [op |-> "persist", commits |-> event.commits, cursor |-> event.cursor]
           a == tabs[x]
           b == tabs'[x]
<1>1. /\ tabs[t].remoteQueue # <<>> /\ Told(t, event.commits, TRUE)
      /\ tabs'[t].open = tabs[t].open /\ tabs'[t].known = tabs[t].known \cup refs
      /\ tabs'[t].missed = tabs[t].missed /\ tabs'[t].localQueue = tabs[t].localQueue
      /\ tabs'[t].remoteQueue = [tabs[t].remoteQueue EXCEPT ![1] = rest]
      BY RemoteCommitsIs DEF Busy
<1>2. /\ IsQueue(tabs[x].localQueue) /\ HeardTab(x) /\ storeOf' = storeOf
      /\ IsQueue(tabs[t].remoteQueue)
      BY Facts, Stays DEF LocalData, HeardInv, TabInv
<1>3. Home(x)' = Home(x)
      BY HomeStays DEF RemoteCommits
<1>4. tabs[t].open
      BY DEF RemoteCommits, NextRemote
<1>5. rest.op = "persist" /\ rest.commits = event.commits
      OBVIOUS
<1> HIDE DEF rest
<1>6. \A r : IsPersisting(tabs'[t], r) => IsPersisting(tabs[t], r) \/ r \in refs
  <2>1. Elements(tabs'[t].remoteQueue) \subseteq Elements(tabs[t].remoteQueue) \cup {rest}
    <3>1. DOMAIN tabs'[t].remoteQueue = DOMAIN tabs[t].remoteQueue
          BY <1>1
    <3>2. \A n \in DOMAIN tabs[t].remoteQueue : tabs'[t].remoteQueue[n] =
              IF n = 1 THEN rest ELSE tabs[t].remoteQueue[n]
          BY <1>1
    <3> QED
        BY <3>1, <3>2 DEF Elements
  <2> QED
      BY <1>1, <1>5, <2>1 DEF IsPersisting
<1>7. \A o \in Tab : o # t => \A r : IsPersisting(tabs'[o], r) => IsPersisting(tabs[o], r)
      BY <1>1, SameRemotePersists DEF Told, Learns
<1>8. CASE x = t
  <2>1. HearsOn(a, b)
        BY <1>1, <1>8 DEF HearsOn, Hears
  <2> QED
      BY <1>1, <1>2, <1>3, <1>6, <1>7, <1>8, <2>1, HeardStep
<1>9. CASE x # t
  <2>1. HearsOn(a, b)
    <3>1. CASE x \in Siblings(t)
          BY <1>1, <1>2, <1>9, <3>1, ToldHears DEF Told
    <3>2. CASE x \notin Siblings(t)
          BY <1>1, <1>9, <3>2 DEF Told, HearsOn
    <3> QED
        BY <3>1, <3>2
  <2>2. ASSUME storeOf[t] = storeOf[x], b.open, NEW r \in refs
        PROVE  Hears(b, r)
    <3>1. x \in Siblings(t)
          BY <1>9, <2>1, <2>2 DEF Siblings, HearsOn
    <3>2. Learns(a, b, a.known, a.missed, Append(a.localQueue, EventJob(event.commits, TRUE)))
          BY <1>1, <1>9, <3>1 DEF Told
    <3> QED
        BY <1>2, <2>2, <3>2, ToldHears
  <2> HIDE DEF refs
  <2> QED
      BY <1>2, <1>3, <1>6, <1>7, <1>9, <2>1, <2>2, HeardStep
<1> QED
    BY <1>8, <1>9

(* The repository is read: what the other tabs are about to persist is     *)
(* announced, or missed.                                                   *)
LEMMA LoadHeard ==
    ASSUME CursorStepInv, RemoteInv, HeardInv, [Next]_vars, NEW t \in Tab, Load(t), ~gap'
    PROVE  HeardTab(t)'
<1> DEFINE a == tabs[t]
           b == tabs'[t]
<1>1. /\ Only(t) /\ a.localQueue # <<>> /\ Head(a.localQueue).op = "load"
      /\ b.open = a.open /\ b.remoteQueue = a.remoteQueue
      /\ b.known = a.known \cup Home(t) /\ b.missed = a.missed \cup Unheard(t)
      /\ b.localQueue = Tail(a.localQueue)
      BY LoadLearns DEF Learns, SameRemote
<1>2. IsQueue(a.localQueue) /\ HeardTab(t) /\ storeOf' = storeOf /\ Home(t)' = Home(t)
      BY Facts, Stays, HomeStays DEF LocalData, HeardInv, Load
<1>3. Elements(a.localQueue) = Elements(b.localQueue) \cup {Head(a.localQueue)}
      BY <1>1, <1>2, QueueTail
<1>4. ASSUME NEW o \in Siblings(t)', NEW r, IsPersisting(tabs'[o], r)
      PROVE  Hears(b, r)
  <2>1. /\ o \in Tab /\ o # t /\ tabs'[o] = tabs[o] /\ tabs[o].open /\ storeOf[o] = storeOf[t]
        /\ o \in Siblings(t)
        BY <1>1, <1>2, <1>4 DEF Siblings, Only, IsPersisting
  <2> DEFINE q == tabs[o].remoteQueue
  <2>2. PICK job \in Elements(q) : job.op = "persist" /\ r \in Refs(job.commits)
        BY <1>4, <2>1 DEF IsPersisting
  <2>3. IsQueue(q) /\ RemoteJobsOK(q)
        BY <2>1, Facts DEF TabInv, RemoteInv, RemoteTabOK
  <2>4. q # <<>> /\ Head(q) = job
    <3>1. PICK n \in DOMAIN q : job = q[n]
          BY <2>2 DEF Elements
    <3>2. n = 1
          BY <2>2, <2>3, <3>1 DEF RemoteJobsOK
    <3>3. q # <<>>
          BY <3>1
    <3> QED
        BY <2>3, <3>1, <3>2, <3>3, QueueTail
  <2>5. NextRemote(o, "persist")
        BY <2>1, <2>2, <2>4 DEF NextRemote
  <2>6. r \in Unheard(t) \/ r \in Stored(db[storeOf[t]]) \cup tabs[t].known \cup Announced(t)
    <3> DEFINE heads == {Refs(Head(tabs[x].remoteQueue).commits) :
                             x \in {y \in Siblings(t) : NextRemote(y, "persist")}}
    <3>1. Refs(Head(q).commits) \in heads
          BY <2>1, <2>5
    <3>2. r \in Refs(Head(q).commits)
          BY <2>2, <2>4
    <3>3. r \in UNION heads
          BY <3>1, <3>2
    <3>4. Unheard(t) =
              (UNION heads) \ (Stored(db[storeOf[t]]) \cup tabs[t].known \cup Announced(t))
          BY Zenon DEF Unheard
    <3> HIDE DEF heads
    <3> QED
        BY <3>3, <3>4
  <2>7. ASSUME r \in Announced(t)
        PROVE  Hears(b, r)
    <3>1. PICK n \in DOMAIN a.localQueue :
              a.localQueue[n].op = "event" /\ r \in Refs(a.localQueue[n].commits)
          BY <2>7 DEF Announced
    <3>2. a.localQueue[n] \in Elements(b.localQueue)
      <4>1. a.localQueue[n] \in Elements(a.localQueue)
            BY <3>1 DEF Elements
      <4>2. a.localQueue[n] # Head(a.localQueue)
            BY <1>1, <3>1
      <4> QED
          BY <1>3, <4>1, <4>2
    <3> QED
        BY <3>1, <3>2 DEF Hears, IsNewsOf
  <2> QED
      BY <1>1, <2>6, <2>7 DEF Hears, Home
<1>5. \A r : IsPersisting(b, r) => r \in b.known
      BY <1>1, <1>2 DEF IsPersisting, HeardTab
<1>6. \A r \in Home(t)' : Hears(b, r)
      BY <1>1, <1>2 DEF Hears
<1> QED
    BY <1>4, <1>5, <1>6 DEF HeardTab, Hears, IsPersisting

LEMMA NextHeardInv ==
    ASSUME CursorStepInv, RemoteInv, LocalInv, HeardInv, [Next]_vars, ~gap'
    PROVE  HeardInv'
<1> SUFFICES ASSUME NEW x \in Tab
             PROVE  HeardTab(x)'
    BY DEF HeardInv, HeardTab, Hears, IsPersisting
<1>1. HeardTab(x) /\ storeOf' = storeOf /\ IsQueue(tabs[x].localQueue)
      BY Stays, Facts DEF HeardInv, LocalData
<1>2. HearsOn(tabs[x], tabs[x])
      BY DEF HearsOn
<1>3. CASE \A t \in Tab : ~Persist(t) /\ ~Update(t)
  <2>1. Home(x)' = Home(x)
        BY <1>3, HomeKept
  <2>2. ASSUME NEW t \in Tab, Only(t), x # t,
               \A r : IsPersisting(tabs'[t], r) => IsPersisting(tabs[t], r)
        PROVE  HeardTab(x)'
    <3>1. tabs'[x] = tabs[x] /\ \A o \in Tab : \A r :
              IsPersisting(tabs'[o], r) => IsPersisting(tabs[o], r)
          BY <2>2 DEF Only
    <3> QED
        BY <1>1, <1>2, <2>1, <3>1, HeardStep
  <2>3. ASSUME NEW t \in Tab, Only(t), SameRemote(tabs[t], tabs'[t]),
               x = t => HearsOn(tabs[t], tabs'[t])
        PROVE  HeardTab(x)'
    <3>1. \A o \in Tab : \A r : IsPersisting(tabs'[o], r) => IsPersisting(tabs[o], r)
          BY <2>3, SameRemotePersists DEF Only
    <3>2. HearsOn(tabs[x], tabs'[x])
          BY <1>2, <2>3 DEF Only
    <3> QED
        BY <1>1, <2>1, <3>1, <3>2, HeardStep
  <2>4. ASSUME NEW t \in Tab, Edit(t)
        PROVE  HeardTab(x)'
    <3> DEFINE r == EditRef(Childless(tabs[t].known), t)
               job == [op |-> "update", commits |-> <<Fresh(r)>>]
    <3>1. Only(t) /\ Learns(tabs[t], tabs'[t], tabs[t].known \cup {r}, tabs[t].missed,
                            Append(tabs[t].localQueue, job))
          BY <2>4, EditIs
    <3> HIDE DEF job, r
    <3>2. IsQueue(tabs[t].localQueue)
          BY Facts DEF LocalData
    <3>3. Elements(tabs'[t].localQueue) = Elements(tabs[t].localQueue) \cup {job}
          BY <3>1, <3>2, QueueAppend DEF Learns
    <3>4. HearsOn(tabs[t], tabs'[t])
          BY <3>1, <3>3 DEF HearsOn, Hears, Learns, SameRemote
    <3> QED
        BY <2>3, <3>1, <3>4 DEF Learns
  <2>5. ASSUME NEW t \in Tab, LocalEvent(t)
        PROVE  HeardTab(x)'
    <3> DEFINE event == Head(tabs[t].localQueue)
    <3>1. /\ Only(t) /\ tabs[t].localQueue # <<>> /\ event.op = "event"
          /\ Learns(tabs[t], tabs'[t], tabs[t].known \cup Refs(event.commits), tabs[t].missed,
                    Tail(tabs[t].localQueue))
          BY <2>5, LocalEventIs
    <3>2. IsQueue(tabs[t].localQueue)
          BY Facts DEF LocalData
    <3>3. \A r : IsNewsOf(event, r) => r \in tabs[t].known \cup Refs(event.commits)
          BY <3>1 DEF IsNewsOf
    <3>4. HearsOn(tabs[t], tabs'[t])
          BY <3>1, <3>2, <3>3, TailHears
    <3> QED
        BY <2>3, <3>1, <3>4 DEF Learns
  <2>6. ASSUME NEW t \in Tab, Load(t)
        PROVE  HeardTab(x)'
    <3>1. Only(t) /\ SameRemote(tabs[t], tabs'[t])
          BY <2>6, LoadLearns DEF Learns
    <3> QED
        BY <2>2, <2>6, <3>1, LoadHeard, SameRemotePersists
  <2>7. ASSUME NEW t \in Tab, Open(t) \/ Crash(t)
        PROVE  HeardTab(x)'
    <3>1. Only(t) /\ tabs'[t] \in {NewTab, NoTab}
          BY <2>7, OpenIs, CrashIs
    <3>2. \A r : ~IsPersisting(tabs'[t], r)
          BY <3>1, NewTabIs, EmptyQueue DEF IsPersisting, NewTabFields
    <3>3. CASE x = t
      <4>1. ASSUME tabs'[t].open
            PROVE  \A r : Hears(tabs'[t], r)
        <5>1. tabs'[t].localQueue = <<Job("load")>>
              BY <3>1, <4>1, NewTabIs
        <5>2. Job("load") \in Elements(tabs'[t].localQueue) /\ Job("load").op = "load"
              BY <5>1, SingleQueue DEF Job
        <5> QED
            BY <5>2 DEF Hears, IsNewsOf
      <4> QED
          BY <3>2, <3>3, <4>1 DEF HeardTab, Hears, IsPersisting
    <3> QED
        BY <2>2, <3>1, <3>2, <3>3
  <2>8. ASSUME NEW t \in Tab, RemoteCommitsThrow(t) \/ LoadThrows(t) \/ LocalEventThrows(t)
        PROVE  FALSE
        BY <2>8, ThrowIs
  <2> QED
      BY <1>3, <2>4, <2>5, <2>6, <2>7, <2>8, AsideHeard, RemoteCommitsHeard
         DEF Next, Jobs, LocalJobs, AsideNext
<1>4. CASE \E t \in Tab : Persist(t)
      BY <1>4, AsideHeard DEF AsideNext
<1>5. CASE \E t \in Tab : Update(t)
      BY <1>5, UpdateHeard
<1> QED
    BY <1>3, <1>4, <1>5

-----------------------------------------------------------------------------
(* Parents come before their children.                                     *)

(* Parents are on the server, or before their children in the database.    *)
StoreOrder(d, onServer) ==
    \A r \in Stored(d) \ onServer : \A p \in ParentsOf(r) :
        p \in onServer \/ (p \in Stored(d) /\ d.commits[p].syncId < d.commits[r].syncId)

OrderInv ==
    /\ \A r \in ServerRefs : ParentsOf(r) \subseteq ServerRefs
    /\ \A s \in Store : StoreOrder(db[s], ServerRefs)

SyncIdsKept(d, e) ==
    Stored(d) \subseteq Stored(e) /\ \A r \in Stored(d) : e.commits[r].syncId = d.commits[r].syncId

LEMMA StoreOrderOn ==
    ASSUME NEW d, NEW e, NEW old, NEW new, StoreOrder(d, old), old \subseteq new,
           SyncIdsKept(d, e), Stored(e) \subseteq Stored(d) \cup new
    PROVE  StoreOrder(e, new)
BY DEF StoreOrder, SyncIdsKept

LEMMA AddCommitsOrder ==
    ASSUME NEW d, NEW table, DbData(d, table), NEW batch, BatchOK(batch), NEW remote \in BOOLEAN,
           NEW e, e = AddCommits(d, batch, remote)
    PROVE  /\ SyncIdsKept(d, e)
           /\ \A x : batch = <<Fresh(x)>> /\ x \notin Stored(d) =>
                  e.commits[x].syncId = LastSyncId(d) + 1
<1> DEFINE more == {n \in DOMAIN batch : batch[n].ref \notin Stored(d)}
           At(r) == CHOOSE n \in more : batch[n].ref = r
           c == [r \in Stored(d) \cup Refs(batch) |->
               IF r \in Stored(d)
               THEN UpdateCommit(d.commits[r], remote /\ r \in Refs(batch))
               ELSE StoreNew(batch[At(r)], LastSyncId(d) + At(r), remote)]
           h == HeadsWith(d, batch)
<1>1. d \in [commits : {d.commits}, heads : {d.heads}, lastSyncCursor : 0 .. LastId(table)]
      BY DEF DbData
<1>2. e = [d EXCEPT !.commits = c, !.heads = h]
      BY DEF AddCommits
<1>3. DOMAIN c = Stored(d) \cup Refs(batch)
      OBVIOUS
<1>4. ASSUME NEW r \in Stored(d)
      PROVE  c[r].syncId = d.commits[r].syncId
  <2>1. CommitData(d.commits[r])
        BY DEF DbData
  <2>2. c[r] = UpdateCommit(d.commits[r], remote /\ r \in Refs(batch))
        OBVIOUS
  <2> HIDE DEF c
  <2> QED
      BY <2>1, <2>2 DEF UpdateCommit, CommitData
<1>5. ASSUME NEW x, batch = <<Fresh(x)>>, x \notin Stored(d)
      PROVE  c[x].syncId = LastSyncId(d) + 1
  <2>1. Refs(batch) = {x}
        BY <1>5, SingleRefs
  <2>2. DOMAIN batch = {1} /\ batch[1] = Fresh(x) /\ Fresh(x).ref = x /\ Fresh(x).syncId = 0
        BY <1>5 DEF Fresh
  <2>3. At(x) = 1
        BY <1>5, <2>2
  <2>4. c[x] = StoreNew(batch[At(x)], LastSyncId(d) + At(x), remote)
        BY <1>5, <2>1
  <2> HIDE DEF c, At
  <2> QED
      BY <2>2, <2>3, <2>4 DEF StoreNew
<1> HIDE DEF c, h
<1>6. e.commits = c
      BY <1>1, <1>2
<1> QED
    BY <1>3, <1>4, <1>5, <1>6 DEF SyncIdsKept, Stored

LEMMA AddFreshOrder ==
    ASSUME NEW d, NEW table, DbData(d, table), NEW batch, BatchOK(batch), NEW remote \in BOOLEAN,
           NEW e, e = AddCommits(d, batch, remote), NEW x, batch = <<Fresh(x)>>,
           x \notin Stored(d)
    PROVE  e.commits[x].syncId = LastSyncId(d) + 1
BY AddCommitsOrder

LEMMA UpdateOrder ==
    ASSUME CursorStepInv, LocalInv, OrderInv, NEW t \in Tab, Update(t), tabs[t].dbOpen,
           NEW e, e = AddCommits(db[storeOf[t]], Head(tabs[t].localQueue).commits, FALSE)
    PROVE  StoreOrder(e, ServerRefs)
<1> DEFINE job == Head(tabs[t].localQueue)
           d == db[storeOf[t]]
           q == tabs[t].localQueue
<1>1. /\ q # <<>> /\ job.op = "update" /\ IsQueue(q) /\ LocalTabOK(tabs[t], ServerRefs, Home(t))
      BY UpdateIs, Facts DEF LocalData, LocalInv
<1>2. PassedOn(job) /\ q[1] = job /\ 1 \in DOMAIN q /\ job \in Elements(q)
      BY <1>1, QueueTail, QueueDomain DEF PassedOn
<1>3. DbData(d, rows) /\ StoreOrder(d, ServerRefs)
      BY Facts DEF OrderInv
<1>4. BatchOK(job.commits) /\ Stored(e) = Stored(d) \cup Refs(job.commits)
      BY UpdateStores
<1>5. PICK x : job.commits = <<Fresh(x)>>
      BY <1>1, <1>2 DEF LocalTabOK, LocalJobOK
<1>6. SyncIdsKept(d, e) /\ (x \notin Stored(d) => e.commits[x].syncId = LastSyncId(d) + 1)
  <2>1. PICK remote \in BOOLEAN : e = AddCommits(d, job.commits, remote)
        OBVIOUS
  <2> DEFINE batch == job.commits
  <2>2. e = AddCommits(d, batch, remote)
        BY <2>1
  <2>3. DbData(d, rows) /\ BatchOK(batch) /\ batch = <<Fresh(x)>>
        BY <1>3, <1>4, <1>5
  <2> HIDE DEF d, job, batch
  <2>4. SyncIdsKept(d, e)
        BY <2>2, <2>3, AddCommitsOrder
  <2>5. ASSUME x \notin Stored(d)
        PROVE  e.commits[x].syncId = LastSyncId(d) + 1
        BY ONLY <2>1, <2>2, <2>3, <2>5, AddFreshOrder
  <2> QED
      BY <2>3, <2>4, <2>5
<1>7. Refs(job.commits) = {x}
      BY <1>5, SingleRefs
<1>8. ASSUME x \notin ServerRefs, NEW p \in ParentsOf(x)
      PROVE  p \in ServerRefs \cup Stored(d)
  <2>1. LocalOrder(q, ServerRefs, Stored(d))
        BY <1>1 DEF LocalTabOK, Home
  <2>2. ~IsPending(q, 1 - 1, p)
        BY DEF IsPending
  <2>3. x \in Refs(q[1].commits) \ ServerRefs
        BY <1>2, <1>7, <1>8
  <2> QED
      BY <1>2, <1>8, <2>1, <2>2, <2>3 DEF LocalOrder
<1>9. \A p \in Stored(d) : d.commits[p].syncId <= LastSyncId(d) /\ d.commits[p].syncId \in Nat
      BY <1>3, LastSyncIdNat DEF DbData, CommitData
<1>10. LastSyncId(d) \in Nat
      BY <1>3, LastSyncIdNat
<1> HIDE DEF d, job
<1>11. ASSUME NEW r \in Stored(e) \ ServerRefs, NEW p \in ParentsOf(r), p \notin ServerRefs
       PROVE  p \in Stored(e) /\ e.commits[p].syncId < e.commits[r].syncId
  <2>1. CASE r \in Stored(d)
        BY <1>3, <1>6, <1>11, <2>1 DEF StoreOrder, SyncIdsKept
  <2>2. CASE r \notin Stored(d)
    <3>1. r = x /\ p \in Stored(d)
          BY <1>4, <1>7, <1>8, <1>11, <2>2
    <3>2. e.commits[p].syncId <= LastSyncId(d) /\ e.commits[p].syncId \in Nat
          BY <1>6, <1>9, <3>1 DEF SyncIdsKept
    <3>3. e.commits[r].syncId = LastSyncId(d) + 1
          BY <1>6, <2>2, <3>1
    <3>4. p \in Stored(e)
          BY <1>6, <3>1 DEF SyncIdsKept
    <3> DEFINE sp == e.commits[p].syncId
               sr == e.commits[r].syncId
               last == LastSyncId(d)
    <3>5. sp <= last /\ sp \in Nat /\ sr = last + 1 /\ last \in Nat
          BY <1>10, <3>2, <3>3
    <3> HIDE DEF sp, sr, last
    <3>6. sp < sr
          BY <3>5
    <3> QED
        BY <3>4, <3>6 DEF sp, sr
  <2> QED
      BY <2>1, <2>2
<1> QED
    BY <1>11 DEF StoreOrder

LEMMA NextOrderInv ==
    ASSUME CursorStepInv, LocalInv, OrderInv, [Next]_vars, ~gap'
    PROVE  OrderInv'
<1>1. ServerRefs \subseteq ServerRefs' /\ \A r \in ServerRefs' : ParentsOf(r) \subseteq ServerRefs'
  <2>1. CASE rows' = rows
        BY <2>1 DEF OrderInv, ServerRefs
  <2>2. CASE rows' # rows
        BY <2>2, ServerStays, ServerGrows DEF OrderInv
  <2> QED
      BY <2>1, <2>2
<1>2. ASSUME NEW s \in Store
      PROVE  StoreOrder(db'[s], ServerRefs')
  <2>1. StoreOrder(db[s], ServerRefs) /\ SyncIdsKept(db[s], db[s])
        BY DEF OrderInv, SyncIdsKept
  <2>2. StoreOrder(db[s], ServerRefs')
        BY <1>1, <2>1, StoreOrderOn
  <2>3. CASE (\E t \in Tab : Ack(t)) \/ (\E x \in Store : Reset(x))
    <3>1. SyncIdsKept(db[s], db'[s]) /\ Stored(db'[s]) = Stored(db[s])
          BY <2>3, MarksOnly DEF SyncIdsKept
    <3> QED
        BY <1>1, <2>1, <3>1, StoreOrderOn
  <2>4. ASSUME NEW t \in Tab, Persist(t)
        PROVE  StoreOrder(db'[s], ServerRefs')
    <3> DEFINE job == Head(tabs[t].remoteQueue)
               d == db[storeOf[t]]
               added == AddCommits(d, job.commits, TRUE)
               e == UpsertRemoteSyncInfo(added, job.cursor)
    <3>1. /\ BatchOK(job.commits) /\ Refs(job.commits) \subseteq ServerRefs
          /\ db'[s] = db[s] \/ (s = storeOf[t] /\ db'[s] = e)
          /\ Stored(e) = Stored(d) \cup Refs(job.commits) /\ e.commits = added.commits
      <4>1. /\ BatchOK(job.commits) /\ Refs(job.commits) \subseteq ServerRefs
            /\ db'[s] = IF s = storeOf[t] /\ tabs[t].dbOpen THEN e ELSE db[s]
            /\ Stored(e) = Stored(d) \cup Refs(job.commits) /\ e.commits = added.commits
            BY <2>4, PersistIs
      <4> HIDE DEF e, d, job, added
      <4> QED
          BY <4>1
    <3>2. DbData(d, rows)
          BY Facts
    <3>3. SyncIdsKept(d, added)
          BY <3>1, <3>2, AddCommitsOrder
    <3>4. SyncIdsKept(d, e) /\ Stored(e) \subseteq Stored(d) \cup ServerRefs
      <4> HIDE DEF e, added
      <4> QED
          BY <3>1, <3>3 DEF SyncIdsKept
    <3> HIDE DEF e
    <3>5. s = storeOf[t] => StoreOrder(e, ServerRefs')
          BY <1>1, <2>1, <3>4, StoreOrderOn
    <3> QED
        BY <2>2, <3>1, <3>5
  <2>5. ASSUME NEW t \in Tab, Update(t)
        PROVE  StoreOrder(db'[s], ServerRefs')
    <3> DEFINE e == AddCommits(db[storeOf[t]], Head(tabs[t].localQueue).commits, FALSE)
    <3>1. rows' = rows /\ db'[s] = IF s = storeOf[t] /\ tabs[t].dbOpen THEN e ELSE db[s]
          BY <2>5, UpdateStores
    <3>2. tabs[t].dbOpen => StoreOrder(e, ServerRefs)
          BY <2>5, UpdateOrder
    <3> HIDE DEF e
    <3> QED
        BY <2>2, <3>1, <3>2 DEF ServerRefs
  <2>6. CASE \A t \in Tab : ~Persist(t) /\ ~Ack(t) /\ ~Update(t)
             /\ \A x \in Store : ~Reset(x)
    <3>1. CASE Tab = {}
      <4>1. db' = db \/ \E x \in Store : Reset(x)
            BY <3>1, DbKept
      <4> QED
          BY <2>2, <2>3, <4>1
    <3>2. CASE Tab # {}
      <4>1. db' = db
            BY <2>6, <3>2, DbKept
      <4> QED
          BY <2>2, <4>1
    <3> QED
        BY <3>1, <3>2
  <2> QED
      BY <2>3, <2>4, <2>5, <2>6
<1> QED
    BY <1>1, <1>2 DEF OrderInv

-----------------------------------------------------------------------------
(* What the server does not have is on its way there.                      *)

(* What the messages m to n bring.                                         *)
Sent(up, m, n) == UNION {Refs(up[i].commits) : i \in m .. n}

(* The server accepts all of the batch that it does not have, when it has  *)
(* what came before.                                                       *)
BatchOrder(batch, onServer, before) ==
    \A i \in DOMAIN batch : batch[i].ref \notin onServer =>
        /\ \A p \in ParentsOf(batch[i].ref) :
              p \in onServer \cup before \/ \E j \in 1 .. i - 1 : batch[j].ref = p
        /\ \A j \in 1 .. i - 1 : batch[i].ref \notin ParentsOf(batch[j].ref)

UpOrder(up, m, onServer) ==
    \A n \in m .. Len(up) : BatchOrder(up[n].commits, onServer, Sent(up, m, n - 1))

(* From the m-th message on the server accepts all that it gets, and what  *)
(* is stored is among that, or will be passed on.                          *)
Delivers(q, up, m, onServer, stored) ==
    /\ UpOrder(up, m, onServer)
    /\ LocalOrder(q, onServer, Sent(up, m, Len(up)))
    /\ \A r \in stored \ onServer : r \in Sent(up, m, Len(up)) \/ IsPending(q, Len(q), r)

LEMMA BatchOrderOn ==
    ASSUME NEW batch, NEW old, NEW new, NEW before, NEW now,
           BatchOrder(batch, old, before), old \subseteq new, before \subseteq now \cup new
    PROVE  BatchOrder(batch, new, now)
BY DEF BatchOrder

LEMMA DeliversGrows ==
    ASSUME NEW q, NEW up, NEW m, NEW old, NEW new, NEW stored, NEW now,
           Delivers(q, up, m, old, stored), old \subseteq new, now \subseteq stored \cup new
    PROVE  Delivers(q, up, m, new, now)
<1>1. UpOrder(up, m, new)
      BY BatchOrderOn DEF Delivers, UpOrder
<1>2. LocalOrder(q, new, Sent(up, m, Len(up)))
      BY OrderGrows DEF Delivers
<1> QED
    BY <1>1, <1>2 DEF Delivers

(* The server has read a message, and accepted it if it is one of them.    *)
LEMMA SentTail ==
    ASSUME NEW up, IsQueue(up), up # <<>>, NEW m \in 1 .. Len(up) + 1, NEW new,
           m = 1 => Refs(Head(up).commits) \subseteq new,
           NEW n \in 0 .. Len(up)
    PROVE  Sent(up, m, n) \subseteq Sent(Tail(up), IF m = 1 THEN 1 ELSE m - 1, n - 1) \cup new
<1>1. /\ Head(up) = up[1] /\ Len(up) \in Nat
      /\ \A i \in 1 .. Len(up) - 1 : Tail(up)[i] = up[i + 1]
      BY QueueTail, QueueDomain
<1> SUFFICES ASSUME NEW i \in m .. n, NEW r \in Refs(up[i].commits), r \notin new
             PROVE  r \in Sent(Tail(up), IF m = 1 THEN 1 ELSE m - 1, n - 1)
    BY DEF Sent
<1>2. i # 1
      BY <1>1
<1>3. i \in Nat /\ i >= m /\ i <= n /\ n <= Len(up) /\ n \in Nat /\ m \in Nat
      BY <1>1
<1>4. i - 1 \in 1 .. Len(up) - 1 /\ i - 1 \in (IF m = 1 THEN 1 ELSE m - 1) .. n - 1
      BY <1>1, <1>2, <1>3
<1>5. Tail(up)[i - 1] = up[i]
      BY <1>1, <1>3, <1>4
<1> QED
    BY <1>4, <1>5 DEF Sent

LEMMA DeliversRead ==
    ASSUME NEW q, NEW up, IsQueue(up), up # <<>>, NEW m \in 1 .. Len(up) + 1, NEW old, NEW new,
           NEW stored, Delivers(q, up, m, old, stored), old \subseteq new,
           m = 1 => Refs(Head(up).commits) \subseteq new
    PROVE  \E k \in 1 .. Len(Tail(up)) + 1 : Delivers(q, Tail(up), k, new, stored)
<1> DEFINE k == IF m = 1 THEN 1 ELSE m - 1
           o == Tail(up)
           s == Sent(o, k, Len(o))
<1>1. /\ Len(up) \in Nat /\ Len(up) # 0 /\ Len(o) = Len(up) - 1
      /\ \A i \in 1 .. Len(up) - 1 : o[i] = up[i + 1]
      BY QueueTail, QueueDomain
<1>2. k \in 1 .. Len(o) + 1
      BY <1>1
<1>3. \A n \in 0 .. Len(up) : Sent(up, m, n) \subseteq Sent(o, k, n - 1) \cup new
      BY SentTail
<1>4. Sent(up, m, Len(up)) \subseteq s \cup new
      BY <1>1, <1>3
<1>5. ASSUME NEW n \in k .. Len(o)
      PROVE  BatchOrder(o[n].commits, new, Sent(o, k, n - 1))
  <2>1. n + 1 \in m .. Len(up) /\ o[n] = up[n + 1] /\ (n + 1) - 1 = n /\ n \in 0 .. Len(up)
        BY <1>1, <1>2
  <2>2. BatchOrder(up[n + 1].commits, old, Sent(up, m, (n + 1) - 1))
        BY <2>1 DEF Delivers, UpOrder
  <2>3. Sent(up, m, n) \subseteq Sent(o, k, n - 1) \cup new
        BY <1>3, <2>1
  <2> HIDE DEF k, o
  <2> QED
      BY <2>1, <2>2, <2>3, BatchOrderOn
<1> HIDE DEF k, o
<1>6. LocalOrder(q, new, s)
  <2>1. LocalOrder(q, old, Sent(up, m, Len(up)))
        BY DEF Delivers
  <2> HIDE DEF s
  <2> QED
      BY <1>4, <2>1, OrderGrows
<1>7. \A r \in stored \ new : r \in s \/ IsPending(q, Len(q), r)
      BY <1>4 DEF Delivers
<1>8. Delivers(q, o, k, new, stored)
      BY <1>5, <1>6, <1>7 DEF Delivers, UpOrder
<1> QED
    BY <1>2, <1>8 DEF o

(* What waits in a queue that grows, and one that shrinks.                 *)
LEMMA PendingAppend ==
    ASSUME NEW q, IsQueue(q), NEW job
    PROVE  /\ \A r : IsPending(q, Len(q), r) => IsPending(Append(q, job), Len(q) + 1, r)
           /\ PassedOn(job) => \A r \in Refs(job.commits) : IsPending(Append(q, job), Len(q) + 1, r)
<1>1. /\ Len(q) \in Nat /\ \A i \in 1 .. Len(q) : Append(q, job)[i] = q[i]
      /\ Append(q, job)[Len(q) + 1] = job
      BY QueueAppend, QueueDomain
<1> QED
    BY <1>1 DEF IsPending

LEMMA PendingTail ==
    ASSUME NEW q, IsQueue(q), q # <<>>, NEW r, IsPending(q, Len(q), r)
    PROVE  \/ PassedOn(Head(q)) /\ r \in Refs(Head(q).commits)
           \/ IsPending(Tail(q), Len(Tail(q)), r)
<1>1. /\ Len(q) \in Nat /\ Head(q) = q[1] /\ Len(Tail(q)) = Len(q) - 1
      /\ \A i \in 1 .. Len(q) - 1 : Tail(q)[i] = q[i + 1]
      BY QueueTail, QueueDomain
<1>2. PICK i \in 1 .. Len(q) : PassedOn(q[i]) /\ r \in Refs(q[i].commits)
      BY DEF IsPending
<1>3. CASE i = 1
      BY <1>1, <1>2, <1>3
<1>4. CASE i # 1
  <2>1. i - 1 \in 1 .. Len(Tail(q)) /\ Tail(q)[i - 1] = q[i]
        BY <1>1, <1>4
  <2> QED
      BY <1>2, <2>1 DEF IsPending
<1> QED
    BY <1>3, <1>4

(* A job comes into the local queue: what it passes on comes after its     *)
(* parents, and may be stored.                                             *)
LEMMA DeliversAppend ==
    ASSUME NEW q, IsQueue(q), NEW up, NEW m, NEW onServer, NEW stored, NEW now,
           Delivers(q, up, m, onServer, stored), NEW job,
           PassedOn(job) => \A r \in Refs(job.commits) \ onServer : \A p \in ParentsOf(r) :
               p \in onServer \cup stored \/ IsPending(q, Len(q), p),
           now \subseteq stored \/ (PassedOn(job) /\ now \subseteq stored \cup Refs(job.commits))
    PROVE  Delivers(Append(q, job), up, m, onServer, now)
<1> DEFINE s == Sent(up, m, Len(up))
<1>1. LocalOrder(q, onServer, s) /\ \A r \in stored \ onServer : r \in s \/ IsPending(q, Len(q), r)
      BY DEF Delivers
<1> HIDE DEF s
<1>2. LocalOrder(Append(q, job), onServer, s)
      BY <1>1, OrderAppend
<1>3. Len(Append(q, job)) = Len(q) + 1
      BY QueueAppend
<1>4. \A r \in now \ onServer : r \in s \/ IsPending(Append(q, job), Len(Append(q, job)), r)
      BY <1>1, <1>3, PendingAppend
<1> QED
    BY <1>2, <1>4 DEF Delivers, s

(* The first job of the local queue is done, and passes nothing on.        *)
LEMMA DeliversTail ==
    ASSUME NEW q, IsQueue(q), q # <<>>, NEW up, NEW m, NEW onServer, NEW stored,
           Delivers(q, up, m, onServer, stored), ~PassedOn(Head(q))
    PROVE  Delivers(Tail(q), up, m, onServer, stored)
<1> DEFINE s == Sent(up, m, Len(up))
<1>1. LocalOrder(q, onServer, s) /\ \A r \in stored \ onServer : r \in s \/ IsPending(q, Len(q), r)
      BY DEF Delivers
<1> HIDE DEF s
<1>2. LocalOrder(Tail(q), onServer, s)
      BY <1>1, OrderTail
<1>3. \A r \in stored \ onServer : r \in s \/ IsPending(Tail(q), Len(Tail(q)), r)
      BY <1>1, PendingTail
<1> QED
    BY <1>2, <1>3 DEF Delivers, s

Message(batch) == [op |-> "commits", commits |-> batch]

LEMMA SentAppend ==
    ASSUME NEW up, IsQueue(up), NEW batch, NEW m \in 1 .. Len(up) + 1
    PROVE  LET o == Append(up, Message(batch))
           IN  /\ \A n \in 0 .. Len(up) : Sent(o, m, n) = Sent(up, m, n)
               /\ Sent(o, m, Len(o)) = Sent(up, m, Len(up)) \cup Refs(batch)
               /\ Len(o) = Len(up) + 1 /\ o[Len(up) + 1].commits = batch
               /\ \A n \in 1 .. Len(up) : o[n] = up[n]
<1> DEFINE msg == Message(batch)
           o == Append(up, msg)
<1>1. msg.commits = batch
      BY DEF Message
<1> HIDE DEF msg
<1>2. /\ Len(up) \in Nat /\ Len(o) = Len(up) + 1 /\ o[Len(up) + 1] = msg
      /\ \A n \in 1 .. Len(up) : o[n] = up[n]
      BY QueueAppend, QueueDomain
<1> HIDE DEF o
<1>3. ASSUME NEW n \in 0 .. Len(up)
      PROVE  Sent(o, m, n) = Sent(up, m, n)
  <2>1. m .. n \subseteq 1 .. Len(up)
        BY <1>2
  <2> QED
      BY <1>2, <2>1 DEF Sent
<1>4. m .. Len(o) = m .. Len(up) \cup {Len(up) + 1}
      BY <1>2
<1>5. Sent(o, m, Len(o)) = Sent(o, m, Len(up)) \cup Refs(o[Len(up) + 1].commits)
      BY <1>4 DEF Sent
<1>6. Sent(o, m, Len(o)) = Sent(up, m, Len(up)) \cup Refs(batch)
      BY <1>1, <1>2, <1>3, <1>5
<1> QED
    BY <1>1, <1>2, <1>3, <1>6 DEF o, msg

(* It passes on a commit, that may just have been stored.                  *)
LEMMA DeliversPassedOn ==
    ASSUME NEW q, IsQueue(q), q # <<>>, NEW up, IsQueue(up), NEW m \in 1 .. Len(up) + 1,
           NEW onServer, NEW stored, NEW now, Delivers(q, up, m, onServer, stored),
           PassedOn(Head(q)), NEW r, Head(q).commits = <<Fresh(r)>>, now \subseteq stored \cup {r},
           NEW o, o = Append(up, Message(<<Fresh(r)>>))
    PROVE  Delivers(Tail(q), o, m, onServer, now)
<1> DEFINE batch == <<Fresh(r)>>
           s == Sent(up, m, Len(up))
<1>1. Refs(batch) = {r} /\ DOMAIN batch = {1} /\ batch[1].ref = r
      BY SingleRefs DEF Fresh
<1>2. LocalOrder(q, onServer, s) /\ \A x \in stored \ onServer : x \in s \/ IsPending(q, Len(q), x)
      BY DEF Delivers
<1>3. /\ Len(q) \in Nat /\ 1 \in DOMAIN q /\ Head(q) = q[1] /\ Len(up) \in Nat
      BY QueueTail, QueueDomain
<1>4. Head(q).commits = batch
      OBVIOUS
<1> HIDE DEF batch
<1>5. /\ \A n \in 0 .. Len(up) : Sent(o, m, n) = Sent(up, m, n)
      /\ Sent(o, m, Len(o)) = s \cup {r}
      /\ Len(o) = Len(up) + 1 /\ o[Len(up) + 1].commits = batch
      /\ \A n \in 1 .. Len(up) : o[n] = up[n]
      BY <1>1, SentAppend DEF batch
<1> HIDE DEF s
<1>6. BatchOrder(batch, onServer, s)
  <2> SUFFICES ASSUME r \notin onServer, NEW p \in ParentsOf(r)
               PROVE  p \in onServer \cup s
      BY <1>1 DEF BatchOrder
  <2>1. r \in Refs(q[1].commits) /\ PassedOn(q[1])
        BY <1>1, <1>3, <1>4
  <2>2. ~IsPending(q, 1 - 1, p)
        BY DEF IsPending
  <2> QED
      BY <1>2, <1>3, <2>1, <2>2 DEF LocalOrder
<1>7. ASSUME NEW n \in m .. Len(o)
      PROVE  BatchOrder(o[n].commits, onServer, Sent(o, m, n - 1))
  <2>1. CASE n = Len(up) + 1
    <3>1. n - 1 = Len(up) /\ Len(up) \in 0 .. Len(up)
          BY <1>3, <2>1
    <3> QED
        BY <1>5, <1>6, <2>1, <3>1 DEF s
  <2>2. CASE n # Len(up) + 1
    <3>1. n \in m .. Len(up) /\ n \in 1 .. Len(up) /\ n - 1 \in 0 .. Len(up)
          BY <1>3, <1>5, <2>2
    <3> QED
        BY <1>5, <3>1 DEF Delivers, UpOrder
  <2> QED
      BY <2>1, <2>2
<1>8. LocalOrder(Tail(q), onServer, s \cup {r})
      BY <1>1, <1>2, <1>4, OrderTail
<1>9. \A x \in now \ onServer : x \in s \cup {r} \/ IsPending(Tail(q), Len(Tail(q)), x)
      BY <1>1, <1>2, <1>4, PendingTail
<1> QED
    BY <1>5, <1>7, <1>8, <1>9 DEF Delivers, UpOrder

-----------------------------------------------------------------------------
(* The upload of a new connection.                                         *)

(* All that has not been synced, each once, by syncId.                     *)
LEMMA UploadSorted ==
    ASSUME NEW d, NEW table, DbData(d, table), NEW batch, batch = CommitsForRemote(d)
    PROVE  /\ Refs(batch) = {r \in Stored(d) : Unsent(d, r)}
           /\ \A i, j \in DOMAIN batch : i < j =>
                  d.commits[batch[i].ref].syncId <= d.commits[batch[j].ref].syncId
<1> DEFINE S == {r \in Stored(d) : Unsent(d, r)}
           key == [r \in S |-> d.commits[r].syncId]
           card == Cardinality(S)
           q == Sorted(S, LAMBDA p, r : d.commits[p].syncId <= d.commits[r].syncId)
           upload == [n \in DOMAIN q |-> [ref |-> q[n], syncId |-> d.commits[q[n]].syncId]]
<1>1. IsFiniteSet(S)
  <2>1. S \subseteq Stored(d) /\ IsFiniteSet(Stored(d))
        BY DEF DbData
  <2> HIDE DEF S
  <2> QED
      BY <2>1, FS_Subset
<1>2. key \in [S -> Nat]
      BY DEF DbData, CommitData
<1>3. \A r \in S : key[r] = d.commits[r].syncId
      BY <1>2
<1>4. q = CHOOSE f \in [1 .. card -> S] : \A i, j \in 1 .. card :
              i < j => f[i] # f[j] /\ d.commits[f[i]].syncId <= d.commits[f[j]].syncId
      BY DEF Sorted
<1>5. batch = upload
      BY DEF CommitsForRemote
<1> HIDE DEF q, S, key
<1>6. PICK p \in [1 .. card -> S] :
          \A i, j \in 1 .. card : i < j => p[i] # p[j] /\ key[p[i]] <= key[p[j]]
      BY <1>1, <1>2, SortingByKey
<1>7. \A i, j \in 1 .. card :
          i < j => p[i] # p[j] /\ d.commits[p[i]].syncId <= d.commits[p[j]].syncId
      BY <1>3, <1>6
<1>8. /\ q \in [1 .. card -> S]
      /\ \A i, j \in 1 .. card :
             i < j => q[i] # q[j] /\ d.commits[q[i]].syncId <= d.commits[q[j]].syncId
      BY <1>4, <1>6, <1>7
<1>9. Elements(q) = S
      BY <1>1, <1>8, ListsAll
<1>10. DOMAIN batch = 1 .. card /\ DOMAIN q = 1 .. card /\ \A n \in 1 .. card : batch[n].ref = q[n]
      BY <1>5, <1>8
<1>11. Refs(batch) = S
      BY <1>9, <1>10 DEF Refs, Elements
<1> HIDE DEF card
<1>12. \A i, j \in DOMAIN batch : i < j =>
           d.commits[batch[i].ref].syncId <= d.commits[batch[j].ref].syncId
      BY <1>8, <1>10
<1> QED
    BY <1>11, <1>12 DEF S

(* It is in an order in which the server accepts it.                       *)
LEMMA UploadOrder ==
    ASSUME NEW d, NEW table, DbData(d, table), StoreOrder(d, RefsOf(table)),
           \A r \in RefsOf(table) : ParentsOf(r) \subseteq RefsOf(table),
           NEW batch, batch = CommitsForRemote(d)
    PROVE  BatchOrder(batch, RefsOf(table), {})
<1> DEFINE S == RefsOf(table)
           Id(r) == d.commits[r].syncId
<1>1. Refs(batch) = {r \in Stored(d) : Unsent(d, r)}
      BY UploadSorted
<1>2. \A i, j \in DOMAIN batch : i < j => Id(batch[i].ref) <= Id(batch[j].ref)
      BY UploadSorted
<1>3. /\ \A r \in Stored(d) : Id(r) \in Nat /\ (r \notin S => Unsent(d, r))
      /\ DOMAIN batch \subseteq Nat
  <2>1. \A r \in Stored(d) : CommitData(d.commits[r]) /\ (d.commits[r].synced => r \in S)
        BY DEF DbData
  <2>2. IsQueue(batch)
        BY UploadData DEF BatchOK
  <2>3. DOMAIN batch \subseteq Nat
        BY <2>2, QueueDomain
  <2> QED
      BY <2>1, <2>3 DEF CommitData, Unsent
<1>4. \A i \in DOMAIN batch : batch[i].ref \in Stored(d)
      BY <1>1 DEF Refs
<1>5. \A r \in Stored(d) \ S : \A p \in ParentsOf(r) :
          p \in S \/ (p \in Stored(d) /\ Id(p) < Id(r))
      BY DEF StoreOrder
<1>6. \A r \in S : ParentsOf(r) \subseteq S
      OBVIOUS
<1> HIDE DEF S, Id
<1>7. ASSUME NEW i \in DOMAIN batch, batch[i].ref \notin S, NEW p \in ParentsOf(batch[i].ref),
             p \notin S
      PROVE  \E j \in 1 .. i - 1 : batch[j].ref = p
  <2>1. p \in Stored(d) /\ Id(p) < Id(batch[i].ref)
        BY <1>4, <1>5, <1>7
  <2>2. PICK j \in DOMAIN batch : batch[j].ref = p
        BY <1>1, <1>3, <1>7, <2>1 DEF Refs
  <2>3. ~(i < j) /\ i # j
        BY <1>2, <1>3, <1>4, <2>1, <2>2
  <2>4. j < i /\ j >= 1
    <3>1. IsQueue(batch)
          BY UploadData DEF BatchOK
    <3>2. j \in 1 .. Len(batch) /\ i \in 1 .. Len(batch) /\ Len(batch) \in Nat
          BY <3>1, QueueDomain
    <3> QED
        BY <2>3, <3>2
  <2> QED
      BY <1>3, <2>2, <2>4
<1>8. ASSUME NEW i \in DOMAIN batch, batch[i].ref \notin S, NEW j \in 1 .. i - 1,
             batch[i].ref \in ParentsOf(batch[j].ref)
      PROVE  FALSE
  <2>1. j \in DOMAIN batch /\ j < i
    <3>1. IsQueue(batch)
          BY UploadData DEF BatchOK
    <3>2. DOMAIN batch = 1 .. Len(batch) /\ Len(batch) \in Nat
          BY <3>1, QueueDomain
    <3> QED
        BY <3>2
  <2>2. batch[j].ref \notin S
        BY <1>6, <1>8
  <2>3. Id(batch[i].ref) < Id(batch[j].ref)
        BY <1>4, <1>5, <1>8, <2>1, <2>2
  <2> QED
      BY <1>2, <1>3, <1>4, <2>1, <2>3
<1>9. BatchOrder(batch, S, {})
      BY <1>7, <1>8 DEF BatchOrder
<1> QED
    BY <1>9 DEF S

LEMMA DeliversUpload ==
    ASSUME NEW d, NEW table, DbData(d, table), StoreOrder(d, RefsOf(table)),
           \A r \in RefsOf(table) : ParentsOf(r) \subseteq RefsOf(table),
           NEW q, LocalOrder(q, RefsOf(table), Stored(d)), NEW up, IsQueue(up),
           NEW batch, batch = CommitsForRemote(d),
           NEW o, o = IF batch = <<>> THEN up ELSE Append(up, Message(batch))
    PROVE  \E m \in 1 .. Len(o) + 1 : Delivers(q, o, m, RefsOf(table), Stored(d))
<1> DEFINE S == RefsOf(table)
           m == Len(up) + 1
           s == Sent(o, m, Len(o))
<1>1. Len(up) \in Nat /\ m \in 1 .. Len(up) + 1
      BY QueueDomain
<1>2. Stored(d) \subseteq S \cup Refs(batch)
  <2>1. Refs(batch) = {r \in Stored(d) : Unsent(d, r)}
        BY UploadSorted
  <2> QED
      BY <2>1 DEF DbData, Unsent
<1>3. BatchOrder(batch, S, {})
      BY UploadOrder
<1>4. /\ s = Refs(batch) /\ Len(o) \in Nat /\ m \in 1 .. Len(o) + 1
      /\ \A n \in m .. Len(o) : o[n].commits = batch /\ Sent(o, m, n - 1) = {}
  <2>1. Sent(up, m, Len(up)) = {}
        BY <1>1 DEF Sent
  <2>2. CASE batch = <<>>
    <3>1. o = up
          BY <2>2
    <3>2. Refs(batch) = {}
          BY <2>2 DEF Refs
    <3> QED
        BY <1>1, <2>1, <3>1, <3>2
  <2>3. CASE batch # <<>>
    <3>1. o = Append(up, Message(batch))
          BY <2>3
    <3>2. /\ \A n \in 0 .. Len(up) : Sent(o, m, n) = Sent(up, m, n)
          /\ s = Sent(up, m, Len(up)) \cup Refs(batch)
          /\ Len(o) = Len(up) + 1 /\ o[Len(up) + 1].commits = batch
          BY <1>1, <3>1, SentAppend
    <3>3. \A n \in m .. Len(o) : n = Len(up) + 1 /\ n - 1 = Len(up)
          BY <1>1, <3>2
    <3> HIDE DEF s
    <3> QED
        BY <1>1, <2>1, <3>2, <3>3
  <2> QED
      BY <2>2, <2>3
<1> HIDE DEF m, s
<1>5. UpOrder(o, m, S)
      BY <1>3, <1>4 DEF UpOrder
<1>6. LocalOrder(q, S, s)
      BY <1>2, <1>4, OrderGrows
<1>7. Delivers(q, o, m, S, Stored(d))
      BY <1>2, <1>4, <1>5, <1>6 DEF Delivers, s
<1> QED
    BY <1>4, <1>7

-----------------------------------------------------------------------------
(* The message that the server reads is accepted.                          *)
LEMMA HeadAccepted ==
    ASSUME CursorStepInv, OrderInv, NEW k \in Socket, ServerCommits(k),
           BatchOrder(Head(sockets[k].up).commits, ServerRefs, {})
    PROVE  Refs(Head(sockets[k].up).commits) \subseteq ServerRefs'
<1> DEFINE batch == Head(sockets[k].up).commits
           refs == [n \in DOMAIN batch |-> batch[n].ref]
<1>1. /\ IsQueue(refs) /\ Elements(refs) = Refs(batch)
      /\ IsQueue(rows) /\ memory.seenRefs = RefsOf(rows)
      BY CommitsAdded DEF ServerRefs
<1>2. PICK id : rows' = LiveDocAddCommits(rows, memory, refs, id).rows
      BY CommitsAdded
<1>3. DOMAIN refs = DOMAIN batch /\ \A n \in DOMAIN batch : refs[n] = batch[n].ref
      OBVIOUS
<1>4. BatchOrder(batch, RefsOf(rows), {})
      BY DEF ServerRefs
<1>5. IsQueue(batch)
      BY CommitsAdded
<1> HIDE DEF refs, batch
<1>6. ParentsFirst(refs, memory.seenRefs) /\ NoParentLater(refs, memory.seenRefs)
  <2>1. \A i \in DOMAIN refs : \A j \in 1 .. i - 1 : refs[j] = batch[j].ref
    <3>1. DOMAIN batch = 1 .. Len(batch) /\ Len(batch) \in Nat
          BY <1>5, QueueDomain
    <3> QED
        BY <1>3, <3>1
  <2> QED
      BY <1>1, <1>3, <1>4, <2>1 DEF BatchOrder, ParentsFirst, NoParentLater
<1>7. \A r \in memory.seenRefs : ParentsOf(r) \subseteq memory.seenRefs
      BY <1>1 DEF OrderInv, ServerRefs
<1>8. Elements(refs) \subseteq RefsOf(LiveDocAddCommits(rows, memory, refs, id).rows)
      BY <1>1, <1>6, <1>7, MessageAccepted
<1> QED
    BY <1>1, <1>2, <1>8 DEF ServerRefs, batch

-----------------------------------------------------------------------------
(* The store that leads brings its browser's commits to the server.        *)

Lead(tab) == tab.open /\ ~tab.closed /\ tab.leader

(* It will connect again, whatever becomes of its connection.              *)
Restarting(tab) == tab.timer \/ Waits(tab.remoteQueue)

Closing(t) == \E k \in Socket : sockets[k].tab = t /\ sockets[k].state = "closing"

(* It is connected, and what the server does not have is on its way or     *)
(* will be.                                                                *)
Connected(t) ==
    \E k \in Socket :
        /\ tabs[t].remote = k /\ IsActive(sockets[k])
        /\ \/ Uploads(tabs[t].remoteQueue)
           \/ \E m \in 1 .. Len(sockets[k].up) + 1 :
                  Delivers(tabs[t].localQueue, sockets[k].up, m, ServerRefs, Home(t))

LeaderTab(t) == Lead(tabs[t]) => Restarting(tabs[t]) \/ Closing(t) \/ Connected(t)

LeaderInv == \A t \in Tab : LeaderTab(t)

(* A step that takes nothing from this.                                    *)
KeepsRemote(a, b) ==
    Lead(b) =>
        /\ Lead(a) /\ b.remote = a.remote
        /\ Restarting(a) => Restarting(b)
        /\ Uploads(a.remoteQueue) => Uploads(b.remoteQueue)

ClosingStays(t, k) ==
    sockets[k].tab = t /\ sockets[k].state = "closing" =>
        sockets'[k].tab = t /\ sockets'[k].state = "closing"

LEMMA LeaderKept ==
    ASSUME CursorStepInv, ~gap, NEW t \in Tab, LeaderTab(t), KeepsRemote(tabs[t], tabs'[t]),
           Lead(tabs'[t]) => \A k \in Socket :
               /\ ClosingStays(t, k)
               /\ tabs[t].remote = k /\ IsActive(sockets[k]) =>
                     /\ IsActive(sockets'[k])
                     /\ \A m \in 1 .. Len(sockets[k].up) + 1 :
                            Delivers(tabs[t].localQueue, sockets[k].up, m, ServerRefs, Home(t)) =>
                                \E n \in 1 .. Len(sockets'[k].up) + 1 :
                                    Delivers(tabs'[t].localQueue, sockets'[k].up, n, ServerRefs',
                                             Home(t)')
    PROVE  LeaderTab(t)'
<1> SUFFICES ASSUME Lead(tabs'[t])
             PROVE  Restarting(tabs'[t]) \/ Closing(t)' \/ Connected(t)'
    BY DEF LeaderTab
<1>1. Lead(tabs[t]) /\ tabs'[t].remote = tabs[t].remote
      BY DEF KeepsRemote
<1>2. CASE Restarting(tabs[t])
      BY <1>2 DEF KeepsRemote
<1>3. CASE Closing(t)
      BY <1>3 DEF Closing, ClosingStays
<1>4. CASE Connected(t)
      BY <1>1, <1>4 DEF Connected, KeepsRemote
<1> QED
    BY <1>1, <1>2, <1>3, <1>4 DEF LeaderTab

(* No socket of the store changes.                                         *)
SocketStaysFor(t, k) ==
    /\ ClosingStays(t, k)
    /\ tabs[t].remote = k /\ IsActive(sockets[k]) =>
          IsActive(sockets'[k]) /\ sockets'[k].up = sockets[k].up

LEMMA LeaderQuiet ==
    ASSUME CursorStepInv, ~gap, NEW t \in Tab, LeaderTab(t), KeepsRemote(tabs[t], tabs'[t]),
           Lead(tabs'[t]) =>
               /\ \A k \in Socket : SocketStaysFor(t, k)
               /\ tabs'[t].localQueue = tabs[t].localQueue,
           ServerRefs \subseteq ServerRefs', Home(t)' \subseteq Home(t) \cup ServerRefs'
    PROVE  LeaderTab(t)'
<1>1. ASSUME Lead(tabs'[t]), NEW k \in Socket
      PROVE  /\ ClosingStays(t, k)
             /\ tabs[t].remote = k /\ IsActive(sockets[k]) =>
                   /\ IsActive(sockets'[k])
                   /\ \A m \in 1 .. Len(sockets[k].up) + 1 :
                          Delivers(tabs[t].localQueue, sockets[k].up, m, ServerRefs, Home(t)) =>
                              \E n \in 1 .. Len(sockets'[k].up) + 1 :
                                  Delivers(tabs'[t].localQueue, sockets'[k].up, n, ServerRefs',
                                           Home(t)')
      BY <1>1, DeliversGrows DEF SocketStaysFor
<1> QED
    BY <1>1, LeaderKept

(* What is stored is from the server, unless an own commit is.             *)
LEMMA HomeAnew ==
    ASSUME CursorStepInv, [Next]_vars, ~gap', \A t \in Tab : ~Update(t), NEW x \in Tab
    PROVE  Home(x)' \subseteq Home(x) \cup ServerRefs'
<1>1. CASE \A t \in Tab : ~Persist(t)
      BY <1>1, HomeKept
<1>2. ASSUME NEW t \in Tab, Persist(t)
      PROVE  Home(x)' \subseteq Home(x) \cup ServerRefs'
  <2>1. Refs(Head(tabs[t].remoteQueue).commits) \subseteq ServerRefs
        BY <1>2, PersistIs
  <2>2. ServerRefs \subseteq ServerRefs'
        BY AllGrows
  <2>3. Home(x)' = IF storeOf[x] = storeOf[t] /\ tabs[t].dbOpen
                   THEN Home(x) \cup Refs(Head(tabs[t].remoteQueue).commits) ELSE Home(x)
        BY <1>2, HomePersist
  <2> QED
      BY <2>1, <2>2, <2>3
<1> QED
    BY <1>1, <1>2

(* The messages of a socket that are sent.                                 *)
LEMMA SendIs ==
    ASSUME CursorStepInv, NEW r, NEW batch, sockets' = Send(sockets, r, batch), NEW k \in Socket
    PROVE  /\ sockets'[k].state = sockets[k].state /\ sockets'[k].tab = sockets[k].tab
           /\ sockets'[k].up = IF k = r /\ IsActive(sockets[k]) /\ batch # <<>>
                               THEN Append(sockets[k].up, Message(batch)) ELSE sockets[k].up
           /\ k # r \/ ~IsActive(sockets[k]) => sockets'[k] = sockets[k]
<1>1. SocketShape(sockets[k])
      BY DEF CursorStepInv, ConnectionInv
<1>2. sockets'[k] = IF k = r /\ IsActive(sockets[k]) /\ batch # <<>>
                    THEN [sockets[k] EXCEPT !.up = Append(sockets[k].up, Message(batch))]
                    ELSE sockets[k]
      BY DEF Send, IsActive, Message
<1>3. \A v : /\ [sockets[k] EXCEPT !.up = v].up = v
             /\ [sockets[k] EXCEPT !.up = v].state = sockets[k].state
             /\ [sockets[k] EXCEPT !.up = v].tab = sockets[k].tab
      BY <1>1 DEF SocketShape
<1> QED
    BY <1>2, <1>3

(* All steps of a store, its user and its tab, that end with no fault.     *)
OwnStep(t) ==
    \/ Edit(t) \/ Promote(t) \/ Demote(t) \/ Reconnect(t) \/ Shutdown(t) \/ Crash(t) \/ Open(t)
    \/ Connect(t) \/ ConnectClosed(t) \/ Upload(t) \/ CloseJob(t) \/ CloseDatabase(t)
    \/ RemoteCommits(t) \/ Persist(t) \/ Ack(t) \/ OnError(t)
    \/ Load(t) \/ Update(t) \/ LocalEvent(t)

LEMMA OtherSockets ==
    ASSUME CursorStepInv, ~gap, NEW t \in Tab, OwnStep(t), NEW x \in Tab, x # t,
           NEW k \in Socket
    PROVE  SocketStaysFor(x, k)
<1>1. CASE sockets' = sockets
      BY <1>1 DEF SocketStaysFor, ClosingStays
<1>2. ASSUME NEW batch, sockets' = Send(sockets, tabs[t].remote, batch)
      PROVE  SocketStaysFor(x, k)
  <2>1. tabs[x].remote = k /\ IsActive(sockets[k]) => tabs[t].remote # k
        BY OwnSocket
  <2> QED
      BY <1>2, <2>1, SendIs DEF SocketStaysFor, ClosingStays, IsActive
<1>3. CASE Connect(t)
  <2>1. PICK j \in Socket :
            Unused(j) /\ sockets' = [sockets EXCEPT ![j] = NewSocket(t, db[storeOf[t]].lastSyncCursor)]
        BY <1>3, ConnectIs
  <2>2. sockets = [y \in Socket |-> sockets[y]]
        BY DEF CursorStepInv, ConnectionInv
  <2>3. k # j => sockets'[k] = sockets[k]
        BY <2>1, <2>2
  <2>4. sockets[j].state = "closed"
        BY <2>1 DEF Unused
  <2> QED
      BY <2>3, <2>4 DEF SocketStaysFor, ClosingStays, IsActive
<1>4. CASE CloseJob(t)
  <2>1. sockets'[k] = IF k = tabs[t].remote /\ sockets[k].state # "closed"
                      THEN [sockets[k] EXCEPT !.state = "closing"] ELSE sockets[k]
        BY <1>4, CloseJobIs
  <2>2. tabs[x].remote = k /\ IsActive(sockets[k]) => tabs[t].remote # k
        BY OwnSocket
  <2>3. SocketShape(sockets[k])
        BY DEF CursorStepInv, ConnectionInv
  <2>4. [sockets[k] EXCEPT !.state = "closing"].tab = sockets[k].tab
        /\ [sockets[k] EXCEPT !.state = "closing"].state = "closing"
        BY <2>3 DEF SocketShape
  <2> QED
      BY <2>1, <2>2, <2>4 DEF SocketStaysFor, ClosingStays, IsActive
<1>5. CASE Crash(t)
  <2>1. sockets'[k] = IF sockets[k].tab = t THEN ClosedSocket ELSE sockets[k]
        BY <1>5, CrashIs
  <2>2. tabs[x].remote = k /\ IsActive(sockets[k]) => sockets[k].tab = x
        BY OwnSocket
  <2> QED
      BY <2>1, <2>2 DEF SocketStaysFor, ClosingStays
<1>6. \/ sockets' = sockets \/ Connect(t) \/ CloseJob(t) \/ Crash(t)
      \/ \E batch : sockets' = Send(sockets, tabs[t].remote, batch)
  <2>1. CASE Upload(t) \/ LocalEvent(t) \/ Update(t)
        BY <2>1 DEF Upload, LocalEvent, Update
  <2>2. CASE ~(Upload(t) \/ LocalEvent(t) \/ Update(t))
        BY <2>2 DEF OwnStep, Edit, Promote, Demote, Reconnect, Shutdown, Open, ConnectClosed,
                    CloseDatabase, RemoteCommits, Persist, Ack, OnError, Load
  <2> QED
      BY <2>1, <2>2
<1> QED
    BY <1>1, <1>2, <1>3, <1>4, <1>5, <1>6

(* The other stores, when they are not told anything.                      *)
LEMMA LeaderApart ==
    ASSUME CursorStepInv, [Next]_vars, ~gap', NEW t \in Tab, OwnStep(t), ~Update(t),
           NEW x \in Tab, x # t, LeaderTab(x), tabs'[x] = tabs[x], \A y \in Tab : ~Update(y)
    PROVE  LeaderTab(x)'
<1>1. ~gap /\ ServerRefs \subseteq ServerRefs' /\ Home(x)' \subseteq Home(x) \cup ServerRefs'
      BY AllGrows, HomeAnew
<1>2. KeepsRemote(tabs[x], tabs'[x])
      BY DEF KeepsRemote
<1>3. \A k \in Socket : SocketStaysFor(x, k)
      BY <1>1, OtherSockets
<1> QED
    BY <1>1, <1>2, <1>3, LeaderQuiet

(* A store that does not lead afterwards, or is going to connect.          *)
LEMMA LeaderDone ==
    ASSUME CursorStepInv, NEW t \in Tab,
           \/ Demote(t) \/ Shutdown(t) \/ Crash(t) \/ Open(t) \/ ConnectClosed(t) \/ CloseDatabase(t)
           \/ Promote(t) \/ Reconnect(t)
    PROVE  LeaderTab(t)'
<1>1. CASE Demote(t) \/ ConnectClosed(t)
  <2>1. ~Lead(tabs'[t])
        BY <1>1, DemoteIs, ConnectClosedIs DEF Becomes, Lead
  <2> QED
      BY <2>1 DEF LeaderTab
<1>2. CASE Shutdown(t) \/ CloseDatabase(t)
  <2>1. ~Lead(tabs'[t])
        BY <1>2, ShutdownIs, CloseDatabaseIs DEF Ended, Lead
  <2> QED
      BY <2>1 DEF LeaderTab
<1>3. CASE Crash(t) \/ Open(t)
  <2>1. ~Lead(tabs'[t])
        BY <1>3, CrashIs, OpenIs, NewTabIs DEF NewTabFields, Lead
  <2> QED
      BY <2>1 DEF LeaderTab
<1>4. CASE Promote(t) \/ Reconnect(t)
  <2>1. tabs'[t].remoteQueue = Append(tabs[t].remoteQueue, Job("connect"))
        BY <1>4, PromoteIs, ReconnectIs DEF Becomes
  <2>2. IsQueue(tabs[t].remoteQueue)
        BY Facts DEF TabInv
  <2>3. Job("connect") \in Elements(tabs'[t].remoteQueue)
        BY <2>1, <2>2, QueueAppend
  <2>4. Waits(tabs'[t].remoteQueue)
        BY <2>3, JobOps DEF Waits
  <2> QED
      BY <2>4 DEF LeaderTab, Restarting
<1> QED
    BY <1>1, <1>2, <1>3, <1>4

(* The first job of the queue of the remote is done, or goes on.           *)
LEMMA StayKeeps ==
    ASSUME NEW a, NEW b, b.open = a.open, b.closed = a.closed, b.leader = a.leader,
           b.remote = a.remote, b.timer = a.timer, JobsStay(a.remoteQueue, b.remoteQueue)
    PROVE  KeepsRemote(a, b)
<1>1. (Waits(a.remoteQueue) => Waits(b.remoteQueue))
      /\ (Uploads(a.remoteQueue) => Uploads(b.remoteQueue))
      BY StaysWaiting
<1> QED
    BY <1>1 DEF KeepsRemote, Restarting, Lead

LEMMA LeaderWorks ==
    ASSUME CursorStepInv, [Next]_vars, ~gap', NEW t \in Tab, LeaderTab(t),
           \A y \in Tab : ~Update(y), RemoteCommits(t) \/ Persist(t) \/ Ack(t)
    PROVE  LeaderTab(t)'
<1> DEFINE a == tabs[t]
           b == tabs'[t]
           q == a.remoteQueue
<1>1. ~gap /\ ServerRefs \subseteq ServerRefs' /\ Home(t)' \subseteq Home(t) \cup ServerRefs'
      BY AllGrows, HomeAnew
<1>2. IsQueue(q)
      BY Facts DEF TabInv
<1>3. sockets' = sockets
      BY DEF RemoteCommits, Persist, Ack
<1>4. \A k \in Socket : SocketStaysFor(t, k)
      BY <1>3 DEF SocketStaysFor, ClosingStays
<1>5. KeepsRemote(a, b) /\ b.localQueue = a.localQueue
  <2>1. CASE Persist(t) \/ Ack(t)
    <3>1. /\ Becomes(a, b, a.leader, a.remote, a.timer, Tail(q))
          /\ q # <<>> /\ Head(q).op \in {"persist", "ack"}
          BY <2>1, JobIs DEF Busy
    <3> HIDE DEF a, b
    <3>2. JobsStay(q, Tail(q))
          BY <1>2, <3>1, StepTail
    <3> QED
        BY <3>1, <3>2, StayKeeps DEF Becomes, SameLocal
  <2>2. CASE RemoteCommits(t)
    <3> DEFINE job == [op |-> "persist", commits |-> Head(q).commits, cursor |-> Head(q).cursor]
    <3>1. /\ q # <<>> /\ Head(q).op = "commits"
          /\ b.open = a.open /\ b.closed = a.closed
          /\ b.leader = a.leader /\ b.remote = a.remote /\ b.timer = a.timer
          /\ b.localQueue = a.localQueue /\ b.remoteQueue = [q EXCEPT ![1] = job]
          BY <2>2, RemoteCommitsIs DEF Busy
    <3>2. job.op # "error"
          OBVIOUS
    <3> HIDE DEF a, b, job
    <3>3. JobsStay(q, b.remoteQueue)
          BY <1>2, <3>1, <3>2, StepHead
    <3> QED
        BY <3>1, <3>3, StayKeeps
  <2> QED
      BY <2>1, <2>2
<1> QED
    BY <1>1, <1>4, <1>5, LeaderQuiet

(* An error makes the store connect again, or the next one does.           *)
LEMMA LeaderError ==
    ASSUME CursorStepInv, RemoteInv, NEW t \in Tab, OnError(t)
    PROVE  LeaderTab(t)'
<1> DEFINE a == tabs[t]
           b == tabs'[t]
           q == a.remoteQueue
<1>1. /\ q # <<>> /\ Head(q).op = "error"
      /\ b.timer = Head(q).reconnect /\ b.remoteQueue = Append(Tail(q), Close(FALSE))
      BY OnErrorIs DEF Becomes, Busy
<1>2. IsQueue(q) /\ RemoteJobsOK(q)
      BY Facts DEF TabInv, RemoteInv, RemoteTabOK
<1> HIDE DEF q, b
<1>3. CASE ~Head(q).reconnect
  <2>1. /\ IsQueue(Tail(q)) /\ Len(Tail(q)) = Len(q) - 1 /\ Head(q) = q[1]
        /\ \A n \in 1 .. Len(q) - 1 : Tail(q)[n] = q[n + 1]
        /\ Len(q) \in Nat /\ Len(q) # 0 /\ DOMAIN q = 1 .. Len(q)
        BY <1>1, <1>2, QueueTail, QueueDomain
  <2>2. PICK m \in DOMAIN q : 1 < m /\ Ends(q[m])
        BY <1>1, <1>2, <1>3, <2>1 DEF RemoteJobsOK
  <2>3. m - 1 \in 1 .. Len(q) - 1 /\ Tail(q)[m - 1] = q[m]
        BY <2>1, <2>2
  <2>4. DOMAIN Tail(q) = 1 .. Len(q) - 1
        BY <2>1, QueueDomain
  <2>5. q[m] \in Elements(Tail(q))
        BY <2>3, <2>4 DEF Elements
  <2>6. q[m] \in Elements(Append(Tail(q), Close(FALSE)))
    <3> DEFINE p == Tail(q)
               last == Close(FALSE)
    <3>1. IsQueue(p) /\ q[m] \in Elements(p)
          BY <2>1, <2>5
    <3> HIDE DEF p, last
    <3>2. Elements(Append(p, last)) = Elements(p) \cup {last}
          BY <3>1, QueueAppend
    <3>3. q[m] \in Elements(Append(p, last))
          BY <3>1, <3>2
    <3> QED
        BY <3>3 DEF p, last
  <2>7. Waits(b.remoteQueue)
        BY <1>1, <2>2, <2>6 DEF Waits
  <2> QED
      BY <2>7 DEF LeaderTab, Restarting, b
<1>4. CASE Head(q).reconnect
      BY <1>1, <1>4 DEF LeaderTab, Restarting, b
<1> QED
    BY <1>3, <1>4

(* A new connection.                                                       *)
LEMMA LeaderConnects ==
    ASSUME CursorStepInv, NEW t \in Tab, Connect(t)
    PROVE  LeaderTab(t)'
<1> DEFINE a == tabs[t]
           b == tabs'[t]
           q == a.remoteQueue
<1>1. PICK k \in Socket :
          /\ sockets' = [sockets EXCEPT ![k] = NewSocket(t, db[storeOf[t]].lastSyncCursor)]
          /\ Becomes(a, b, a.leader, k, FALSE, [q EXCEPT ![1] = Job("upload")])
      BY ConnectIs
<1>2. IsQueue(q) /\ q # <<>>
      BY ConnectIs, Facts DEF TabInv, Busy
<1>3. sockets = [y \in Socket |-> sockets[y]]
      BY DEF CursorStepInv, ConnectionInv
<1>4. IsActive(sockets'[k])
      BY <1>1, <1>3 DEF NewSocket, IsActive
<1>5. Job("upload") \in Elements(b.remoteQueue)
  <2>1. b.remoteQueue = [q EXCEPT ![1] = Job("upload")] /\ Job("upload").op # "error"
        BY <1>1, JobOps DEF Becomes
  <2> HIDE DEF q, b
  <2> QED
      BY <1>2, <2>1, StepHead
<1>6. Uploads(b.remoteQueue)
      BY <1>5, JobOps DEF Uploads
<1>7. b.remote = k
      BY <1>1 DEF Becomes
<1> QED
    BY <1>4, <1>6, <1>7 DEF LeaderTab, Connected

LEMMA UpIsQueue ==
    ASSUME CursorStepInv, NEW k \in Socket
    PROVE  IsQueue(sockets[k].up)
BY DEF CursorStepInv, DataInv, UpData

(* The upload brings what the server does not have.                        *)
LEMMA LeaderUpload ==
    ASSUME CursorStepInv, RemoteInv, LocalInv, OrderInv, NEW t \in Tab, LeaderTab(t), Upload(t)
    PROVE  LeaderTab(t)'
<1> DEFINE a == tabs[t]
           b == tabs'[t]
           q == a.remoteQueue
           d == db[storeOf[t]]
           batch == CommitsForRemote(d)
<1>1. /\ q # <<>> /\ Head(q).op = "upload" /\ b.localQueue = a.localQueue
      /\ b.open = a.open /\ b.closed = a.closed /\ b.dbOpen = a.dbOpen
      /\ b.leader = a.leader /\ b.remote = a.remote /\ b.timer = a.timer
      /\ b.remoteQueue = Tail(q)
      BY JobIs DEF Becomes, SameLocal, Busy
<1>2. /\ sockets' = Send(sockets, a.remote, batch)
      /\ ServerRefs' = ServerRefs /\ Home(t)' = Home(t)
      BY DEF Upload, server, ServerRefs, Home
<1>3. IsQueue(q) /\ DbData(d, rows) /\ storeOf[t] \in Store
      BY Facts DEF TabInv
<1> SUFFICES ASSUME Lead(b)
             PROVE  Restarting(b) \/ Closing(t)' \/ Connected(t)'
    BY DEF LeaderTab
<1>4. Lead(a) /\ a.dbOpen
      BY <1>1 DEF Lead, RemoteInv, RemoteTabOK
<1>5. CASE Restarting(a)
  <2>1. \A job \in Elements(q) : job \in Elements(Tail(q)) \/ job = Head(q)
        BY <1>1, <1>3, StepTail
  <2>2. Waits(q) => Waits(Tail(q))
        BY <1>1, <2>1 DEF Waits, Ends
  <2> QED
      BY <1>1, <1>5, <2>2 DEF Restarting
<1>6. CASE Closing(t)
      BY <1>2, <1>6, SendIs DEF Closing
<1>7. CASE Connected(t)
  <2>1. PICK k \in Socket : a.remote = k /\ IsActive(sockets[k])
        BY <1>7 DEF Connected
  <2>2. /\ IsActive(sockets'[k])
        /\ sockets'[k].up = IF batch = <<>> THEN sockets[k].up
                            ELSE Append(sockets[k].up, Message(batch))
    <3> HIDE DEF batch
    <3> QED
        BY <1>2, <2>1, SendIs DEF IsActive
  <2>3. LocalOrder(a.localQueue, RefsOf(rows), Stored(d))
        BY <1>4 DEF LocalInv, LocalTabOK, ServerRefs, Home
  <2>4. StoreOrder(d, RefsOf(rows)) /\ \A r \in RefsOf(rows) : ParentsOf(r) \subseteq RefsOf(rows)
        BY <1>3 DEF OrderInv, ServerRefs
  <2>5. IsQueue(sockets[k].up)
        BY UpIsQueue
  <2>6. \E m \in 1 .. Len(sockets'[k].up) + 1 :
            Delivers(a.localQueue, sockets'[k].up, m, RefsOf(rows), Stored(d))
    <3> DEFINE o == sockets'[k].up
               up == sockets[k].up
               lq == a.localQueue
    <3>1. /\ DbData(d, rows) /\ StoreOrder(d, RefsOf(rows))
          /\ \A r \in RefsOf(rows) : ParentsOf(r) \subseteq RefsOf(rows)
          /\ LocalOrder(lq, RefsOf(rows), Stored(d)) /\ IsQueue(up)
          /\ batch = CommitsForRemote(d)
          /\ o = IF batch = <<>> THEN up ELSE Append(up, Message(batch))
          BY <1>3, <2>2, <2>3, <2>4, <2>5
    <3> HIDE DEF o, up, lq, batch, d
    <3> QED
        BY <3>1, DeliversUpload DEF o, lq
  <2> QED
      BY <1>1, <1>2, <2>1, <2>2, <2>6 DEF Connected, ServerRefs, Home
<1> QED
    BY <1>4, <1>5, <1>6, <1>7 DEF LeaderTab

(* closeRemote's job: what the connection had is lost, and the socket's    *)
(* end makes the store connect again.                                      *)
LEMMA LeaderCloses ==
    ASSUME CursorStepInv, ~gap, NEW t \in Tab, LeaderTab(t), CloseJob(t)
    PROVE  LeaderTab(t)'
<1> DEFINE a == tabs[t]
           b == tabs'[t]
           q == a.remoteQueue
<1>1. PICK n : /\ q # <<>> /\ Head(q).op = "close"
               /\ b.open = a.open /\ b.closed = a.closed /\ b.leader = a.leader
               /\ b.timer = a.timer /\ b.remoteQueue = Arrived(Tail(q), a.remote, n)
      BY CloseJobIs DEF Becomes, SameLocal, Busy
<1>2. \A x \in Socket : sockets'[x] =
          IF x = a.remote /\ sockets[x].state # "closed"
          THEN [sockets[x] EXCEPT !.state = "closing"] ELSE sockets[x]
      BY CloseJobIs
<1>3. \A x \in Socket : SocketShape(sockets[x])
      BY DEF CursorStepInv, ConnectionInv
<1>4. \A x \in Socket : /\ sockets'[x].tab = sockets[x].tab
                        /\ sockets[x].state = "closing" => sockets'[x].state = "closing"
                        /\ x = a.remote /\ IsActive(sockets[x]) => sockets'[x].state = "closing"
      BY <1>2, <1>3 DEF SocketShape, IsActive
<1>5. IsQueue(q)
      BY Facts DEF TabInv
<1> SUFFICES ASSUME Lead(b)
             PROVE  Restarting(b) \/ Closing(t)' \/ Connected(t)'
    BY DEF LeaderTab
<1>6. Lead(a)
      BY <1>1 DEF Lead
<1>7. CASE Restarting(a)
  <2>1. JobsStay(q, Tail(q)) /\ IsQueue(Tail(q))
        BY <1>1, <1>5, StepTail DEF QueueStep
  <2>2. JobsStay(Tail(q), Arrived(Tail(q), a.remote, n))
        BY <2>1, StepArrived
  <2>3. JobsStay(q, b.remoteQueue)
        BY <1>1, <2>1, <2>2, StayOn
  <2> QED
      BY <1>1, <1>7, <2>3, StaysWaiting DEF Restarting
<1>8. CASE Closing(t)
      BY <1>4, <1>8 DEF Closing
<1>9. CASE Connected(t)
  <2>1. PICK k \in Socket : a.remote = k /\ IsActive(sockets[k])
        BY <1>9 DEF Connected
  <2>2. sockets[k].tab = t
        BY <2>1, OwnSocket
  <2> QED
      BY <1>4, <2>1, <2>2 DEF Closing
<1> QED
    BY <1>6, <1>7, <1>8, <1>9 DEF LeaderTab

(* A step of the client, which leaves the remote alone.                    *)
LEMMA SameRemoteKeeps ==
    ASSUME NEW a, NEW b, SameRemote(a, b)
    PROVE  KeepsRemote(a, b)
BY DEF SameRemote, KeepsRemote, Lead, Restarting

LEMMA LeaderLearns ==
    ASSUME CursorStepInv, ~gap, NEW t \in Tab, LeaderTab(t), SameRemote(tabs[t], tabs'[t]),
           sockets' = sockets,
           \A up : \A m :
               Delivers(tabs[t].localQueue, up, m, ServerRefs, Home(t)) =>
                   Delivers(tabs'[t].localQueue, up, m, ServerRefs', Home(t)')
    PROVE  LeaderTab(t)'
<1>1. KeepsRemote(tabs[t], tabs'[t])
      BY SameRemoteKeeps
<1>2. \A k \in Socket :
          /\ ClosingStays(t, k)
          /\ tabs[t].remote = k /\ IsActive(sockets[k]) =>
                /\ IsActive(sockets'[k])
                /\ \A m \in 1 .. Len(sockets[k].up) + 1 :
                       Delivers(tabs[t].localQueue, sockets[k].up, m, ServerRefs, Home(t)) =>
                           \E n \in 1 .. Len(sockets'[k].up) + 1 :
                               Delivers(tabs'[t].localQueue, sockets'[k].up, n, ServerRefs',
                                        Home(t)')
      BY DEF ClosingStays
<1> QED
    BY <1>1, <1>2, LeaderKept

LEMMA LeaderEdits ==
    ASSUME CursorStepInv, RemoteInv, LocalInv, EditsOnHeads, ~gap, NEW t \in Tab, LeaderTab(t),
           Edit(t)
    PROVE  LeaderTab(t)'
<1> DEFINE a == tabs[t]
           r == EditRef(Childless(a.known), t)
           job == [op |-> "update", commits |-> <<Fresh(r)>>]
           q == a.localQueue
<1>1. /\ Live(t) /\ SameRemote(a, tabs'[t]) /\ tabs'[t].localQueue = Append(q, job)
      BY EditIs DEF Learns
<1>2. /\ sockets' = sockets /\ ServerRefs' = ServerRefs /\ Home(t)' = Home(t)
      BY DEF Edit, server, ServerRefs, Home
<1>3. ParentsOf(r) \subseteq a.known
      BY DEF EditsOnHeads, Childless
<1>4. a.dbOpen
      BY <1>1 DEF RemoteInv, RemoteTabOK, Live
<1>5. IsQueue(q)
      BY Facts DEF LocalData
<1>6. \A p \in ParentsOf(r) : p \in ServerRefs \cup Home(t) \/ IsPending(q, Len(q), p)
      BY <1>3, <1>4, <1>5, PendingOwn DEF LocalInv, LocalTabOK
<1>7. Refs(job.commits) = {r}
      BY SingleRefs
<1> HIDE DEF r, job, q
<1>8. \A up : \A m :
          Delivers(q, up, m, ServerRefs, Home(t)) =>
              Delivers(tabs'[t].localQueue, up, m, ServerRefs', Home(t)')
  <2>1. PassedOn(job) => \A x \in Refs(job.commits) \ ServerRefs : \A p \in ParentsOf(x) :
            p \in ServerRefs \cup Home(t) \/ IsPending(q, Len(q), p)
        BY <1>6, <1>7
  <2> QED
      BY <1>1, <1>2, <1>5, <2>1, DeliversAppend
<1> QED
    BY <1>1, <1>2, <1>8, LeaderLearns DEF q

LEMMA LeaderLoads ==
    ASSUME CursorStepInv, ~gap, NEW t \in Tab, LeaderTab(t), Load(t)
    PROVE  LeaderTab(t)'
<1> DEFINE q == tabs[t].localQueue
<1>1. /\ q # <<>> /\ Head(q).op = "load"
      /\ SameRemote(tabs[t], tabs'[t]) /\ tabs'[t].localQueue = Tail(q)
      BY LoadLearns DEF Learns
<1>2. /\ sockets' = sockets /\ ServerRefs' = ServerRefs /\ Home(t)' = Home(t)
      BY DEF Load, server, ServerRefs, Home
<1>3. IsQueue(q) /\ ~PassedOn(Head(q))
      BY <1>1, Facts DEF LocalData, PassedOn
<1>4. \A up : \A m :
          Delivers(q, up, m, ServerRefs, Home(t)) =>
              Delivers(tabs'[t].localQueue, up, m, ServerRefs', Home(t)')
      BY <1>1, <1>2, <1>3, DeliversTail
<1> QED
    BY <1>1, <1>2, <1>4, LeaderLearns

(* The leader passes on the first job of its queue.                        *)
LEMMA LeaderPassesOn ==
    ASSUME CursorStepInv, ~gap, NEW t \in Tab, LeaderTab(t), SameRemote(tabs[t], tabs'[t]),
           NEW q, q = tabs[t].localQueue, IsQueue(q), q # <<>>, PassedOn(Head(q)),
           tabs'[t].localQueue = Tail(q), NEW r, Head(q).commits = <<Fresh(r)>>,
           sockets' = Send(sockets, tabs[t].remote, <<Fresh(r)>>),
           ServerRefs' = ServerRefs, Home(t)' \subseteq Home(t) \cup {r}
    PROVE  LeaderTab(t)'
<1>1. KeepsRemote(tabs[t], tabs'[t])
      BY SameRemoteKeeps
<1>2. <<Fresh(r)>> # <<>>
      OBVIOUS
<1>3. ASSUME NEW k \in Socket
      PROVE  /\ ClosingStays(t, k)
             /\ tabs[t].remote = k /\ IsActive(sockets[k]) =>
                   /\ IsActive(sockets'[k])
                   /\ \A m \in 1 .. Len(sockets[k].up) + 1 :
                          Delivers(tabs[t].localQueue, sockets[k].up, m, ServerRefs, Home(t)) =>
                              \E n \in 1 .. Len(sockets'[k].up) + 1 :
                                  Delivers(tabs'[t].localQueue, sockets'[k].up, n, ServerRefs',
                                           Home(t)')
  <2> DEFINE up == sockets[k].up
             o == sockets'[k].up
  <2>1. /\ sockets'[k].state = sockets[k].state /\ sockets'[k].tab = sockets[k].tab
        /\ k = tabs[t].remote /\ IsActive(sockets[k]) => o = Append(up, Message(<<Fresh(r)>>))
    <3> DEFINE batch == <<Fresh(r)>>
               dest == tabs[t].remote
    <3>1. batch # <<>> /\ sockets' = Send(sockets, dest, batch)
          BY <1>2
    <3> HIDE DEF batch, dest
    <3>2. /\ sockets'[k].state = sockets[k].state /\ sockets'[k].tab = sockets[k].tab
          /\ sockets'[k].up = IF k = dest /\ IsActive(sockets[k]) /\ batch # <<>>
                              THEN Append(sockets[k].up, Message(batch)) ELSE sockets[k].up
          BY ONLY CursorStepInv, <3>1, SendIs, k \in Socket
    <3> QED
        BY <3>1, <3>2 DEF batch, dest
  <2>2. IsQueue(up)
        BY UpIsQueue
  <2> HIDE DEF up, o
  <2>3. ASSUME o = Append(up, Message(<<Fresh(r)>>)), NEW m \in 1 .. Len(up) + 1,
               Delivers(q, up, m, ServerRefs, Home(t))
        PROVE  m \in 1 .. Len(o) + 1 /\ Delivers(Tail(q), o, m, ServerRefs, Home(t)')
    <3>1. Len(up) \in Nat /\ Len(o) = Len(up) + 1
          BY <2>2, <2>3, QueueDomain, QueueAppend
    <3>2. m \in 1 .. Len(o) + 1
          BY <3>1
    <3>3. Delivers(Tail(q), o, m, ServerRefs, Home(t)')
          BY <2>2, <2>3, DeliversPassedOn
    <3> QED
        BY <3>2, <3>3
  <2> QED
      BY <2>1, <2>3 DEF up, o, ClosingStays, IsActive
<1> QED
    BY <1>1, <1>3, LeaderKept

LEMMA LeaderHears ==
    ASSUME CursorStepInv, LocalInv, ~gap, NEW t \in Tab, LeaderTab(t), LocalEvent(t)
    PROVE  LeaderTab(t)'
<1> DEFINE q == tabs[t].localQueue
           event == Head(q)
<1>1. /\ q # <<>> /\ event.op = "event"
      /\ SameRemote(tabs[t], tabs'[t]) /\ tabs'[t].localQueue = Tail(q)
      BY LocalEventIs DEF Learns
<1>2. /\ ServerRefs' = ServerRefs /\ Home(t)' = Home(t)
      /\ sockets' = IF ~event.remoteOrigin THEN Send(sockets, tabs[t].remote, event.commits)
                    ELSE sockets
      BY DEF LocalEvent, PassesOn, server, ServerRefs, Home
<1>3. IsQueue(q) /\ LocalTabOK(tabs[t], ServerRefs, Home(t))
      BY Facts DEF LocalData, LocalInv
<1>4. CASE event.remoteOrigin
  <2>1. ~PassedOn(event) /\ sockets' = sockets
        BY <1>1, <1>2, <1>4 DEF PassedOn
  <2>2. \A up : \A m :
            Delivers(q, up, m, ServerRefs, Home(t)) =>
                Delivers(tabs'[t].localQueue, up, m, ServerRefs', Home(t)')
        BY <1>1, <1>2, <1>3, <2>1, DeliversTail
  <2> QED
      BY <1>1, <2>1, <2>2, LeaderLearns
<1>5. CASE ~event.remoteOrigin
  <2>1. PassedOn(event) /\ event \in Elements(q)
        BY <1>1, <1>3, <1>5, QueueTail DEF PassedOn
  <2>2. PICK r : event.commits = <<Fresh(r)>>
        BY <1>3, <2>1 DEF LocalTabOK, LocalJobOK
  <2>3. sockets' = Send(sockets, tabs[t].remote, <<Fresh(r)>>)
        BY <1>2, <1>5, <2>2
  <2> QED
      BY <1>1, <1>2, <1>3, <2>1, <2>2, <2>3, LeaderPassesOn
<1> QED
    BY <1>4, <1>5

LEMMA LeaderUpdates ==
    ASSUME CursorStepInv, RemoteInv, LocalInv, ~gap, NEW t \in Tab, LeaderTab(t), Update(t)
    PROVE  LeaderTab(t)'
<1> DEFINE q == tabs[t].localQueue
           job == Head(q)
<1>1. /\ q # <<>> /\ job.op = "update"
      /\ SameRemote(tabs[t], tabs'[t]) /\ tabs'[t].localQueue = Tail(q)
      BY UpdateIs DEF Learns
<1>2. ServerRefs' = ServerRefs
      BY UpdateStores DEF ServerRefs
<1>3. IsQueue(q) /\ LocalTabOK(tabs[t], ServerRefs, Home(t))
      BY Facts DEF LocalData, LocalInv
<1>4. PassedOn(job) /\ job \in Elements(q)
      BY <1>1, <1>3, QueueTail DEF PassedOn
<1>5. PICK r : job.commits = <<Fresh(r)>>
      BY <1>3, <1>4 DEF LocalTabOK, LocalJobOK
<1>6. Home(t)' \subseteq Home(t) \cup {r}
      BY <1>5, HomeUpdate, SingleRefs
<1>7. CASE tabs[t].dbOpen
  <2>1. sockets' = Send(sockets, tabs[t].remote, <<Fresh(r)>>)
        BY <1>5, <1>7, UpdateIs
  <2> QED
      BY <1>1, <1>2, <1>3, <1>4, <1>5, <1>6, <2>1, LeaderPassesOn
<1>8. CASE ~tabs[t].dbOpen
  <2>1. ~Lead(tabs[t])
        BY <1>8 DEF RemoteInv, RemoteTabOK, Lead
  <2>2. ~Lead(tabs'[t])
        BY <1>1, <2>1 DEF SameRemote, Lead
  <2> QED
      BY <2>2 DEF LeaderTab
<1> QED
    BY <1>7, <1>8

(* The other stores of the browser are told.                               *)
LEMMA LeaderTold ==
    ASSUME CursorStepInv, ~gap, NEW t \in Tab, NEW x \in Tab, LeaderTab(x),
           NEW batch, NEW origin,
           Learns(tabs[x], tabs'[x], tabs[x].known, tabs[x].missed,
                  Append(tabs[x].localQueue, EventJob(batch, origin))),
           \A k \in Socket : SocketStaysFor(x, k),
           ServerRefs' = ServerRefs,
           origin \/ \A r \in Refs(batch) \ ServerRefs : ParentsOf(r) \subseteq ServerRefs \cup Home(x),
           IF origin THEN Home(x)' \subseteq Home(x) ELSE Home(x)' \subseteq Home(x) \cup Refs(batch)
    PROVE  LeaderTab(x)'
<1> DEFINE q == tabs[x].localQueue
           job == EventJob(batch, origin)
<1>1. KeepsRemote(tabs[x], tabs'[x]) /\ tabs'[x].localQueue = Append(q, job)
      BY SameRemoteKeeps DEF Learns
<1>2. IsQueue(q)
      BY Facts DEF LocalData
<1>3. job.commits = batch /\ job.op = "event" /\ job.remoteOrigin = origin
      BY DEF EventJob
<1> HIDE DEF q, job
<1>4. PassedOn(job) <=> ~origin
      BY <1>3 DEF PassedOn
<1>5. PassedOn(job) => \A r \in Refs(job.commits) \ ServerRefs : \A p \in ParentsOf(r) :
          p \in ServerRefs \cup Home(x) \/ IsPending(q, Len(q), p)
      BY <1>3, <1>4
<1>6. Home(x)' \subseteq Home(x) \/ (PassedOn(job) /\ Home(x)' \subseteq Home(x) \cup Refs(job.commits))
      BY <1>3, <1>4
<1>7. \A up : \A m :
          Delivers(q, up, m, ServerRefs, Home(x)) =>
              Delivers(tabs'[x].localQueue, up, m, ServerRefs', Home(x)')
      BY <1>1, <1>2, <1>5, <1>6, DeliversAppend
<1>8. \A k \in Socket :
          /\ ClosingStays(x, k)
          /\ tabs[x].remote = k /\ IsActive(sockets[k]) =>
                /\ IsActive(sockets'[k])
                /\ \A m \in 1 .. Len(sockets[k].up) + 1 :
                       Delivers(tabs[x].localQueue, sockets[k].up, m, ServerRefs, Home(x)) =>
                           \E n \in 1 .. Len(sockets'[k].up) + 1 :
                               Delivers(tabs'[x].localQueue, sockets'[k].up, n, ServerRefs',
                                        Home(x)')
      BY <1>7 DEF SocketStaysFor, q
<1> QED
    BY <1>1, <1>8, LeaderKept

LEMMA LeaderToldRemote ==
    ASSUME CursorStepInv, ~gap, NEW t \in Tab, RemoteCommits(t), NEW x \in Tab, x # t, LeaderTab(x)
    PROVE  LeaderTab(x)'
<1> DEFINE batch == Head(tabs[t].remoteQueue).commits
<1>1. Told(t, batch, TRUE)
      BY RemoteCommitsIs
<1>2. sockets' = sockets /\ ServerRefs' = ServerRefs /\ Home(x)' = Home(x)
      BY DEF RemoteCommits, server, ServerRefs, Home
<1>3. \A k \in Socket : SocketStaysFor(x, k)
      BY <1>2 DEF SocketStaysFor, ClosingStays
<1> HIDE DEF batch
<1>4. CASE x \in Siblings(t)
  <2>1. Learns(tabs[x], tabs'[x], tabs[x].known, tabs[x].missed,
               Append(tabs[x].localQueue, EventJob(batch, TRUE)))
        BY <1>1, <1>4 DEF Told
  <2> QED
      BY <1>2, <1>3, <2>1, LeaderTold
<1>5. CASE x \notin Siblings(t)
  <2>1. tabs'[x] = tabs[x]
        BY <1>1, <1>5 DEF Told
  <2>2. KeepsRemote(tabs[x], tabs'[x])
        BY <2>1 DEF KeepsRemote
  <2> QED
      BY <1>2, <1>3, <2>1, <2>2, LeaderQuiet
<1> QED
    BY <1>4, <1>5

LEMMA LeaderToldUpdate ==
    ASSUME CursorStepInv, LocalInv, ~gap, NEW t \in Tab, Update(t), NEW x \in Tab, x # t,
           LeaderTab(x)
    PROVE  LeaderTab(x)'
<1> DEFINE job == Head(tabs[t].localQueue)
           batch == job.commits
           q == tabs[t].localQueue
<1>1. q # <<>> /\ job.op = "update"
      BY UpdateIs
<1>2. ServerRefs' = ServerRefs /\ storeOf' = storeOf
      BY UpdateStores DEF ServerRefs
<1>3. \A k \in Socket : SocketStaysFor(x, k)
      BY OtherSockets DEF OwnStep
<1>4. Home(x)' = IF storeOf[x] = storeOf[t] /\ tabs[t].dbOpen
                 THEN Home(x) \cup Refs(batch) ELSE Home(x)
      BY HomeUpdate
<1>5. CASE tabs[t].dbOpen /\ x \in Siblings(t)
  <2>1. Learns(tabs[x], tabs'[x], tabs[x].known, tabs[x].missed,
               Append(tabs[x].localQueue, EventJob(batch, FALSE)))
        BY <1>5, UpdateIs DEF Told
  <2>2. IsQueue(q) /\ LocalOrder(q, ServerRefs, Home(t))
        BY <1>5, Facts DEF LocalData, LocalInv, LocalTabOK
  <2>3. q[1] = job /\ 1 \in DOMAIN q /\ PassedOn(job) /\ \A p : ~IsPending(q, 1 - 1, p)
        BY <1>1, <2>2, QueueTail, QueueDomain DEF PassedOn, IsPending
  <2>4. Home(x) = Home(t)
        BY <1>5 DEF Siblings, Home
  <2>5. \A r \in Refs(batch) \ ServerRefs : ParentsOf(r) \subseteq ServerRefs \cup Home(x)
        BY <2>2, <2>3, <2>4 DEF LocalOrder
  <2> HIDE DEF batch
  <2>6. Home(x)' \subseteq Home(x) \cup Refs(batch)
        BY <1>4
  <2>7. PICK origin : origin = FALSE
        OBVIOUS
  <2>8. Learns(tabs[x], tabs'[x], tabs[x].known, tabs[x].missed,
               Append(tabs[x].localQueue, EventJob(batch, origin)))
        BY <2>1, <2>7
  <2> QED
      BY <1>2, <1>3, <2>5, <2>6, <2>7, <2>8, LeaderTold
<1>6. CASE ~(tabs[t].dbOpen /\ x \in Siblings(t))
  <2>1. tabs'[x] = tabs[x]
        BY <1>6, UpdateIs DEF Told, Only
  <2>2. CASE Lead(tabs[x])
    <3>1. Home(x)' = Home(x)
          BY <1>4, <1>6, <2>2 DEF Siblings, Lead
    <3>2. KeepsRemote(tabs[x], tabs'[x])
          BY <2>1 DEF KeepsRemote
    <3> QED
        BY <1>2, <1>3, <2>1, <3>1, <3>2, LeaderQuiet
  <2>3. CASE ~Lead(tabs[x])
        BY <2>1, <2>3 DEF LeaderTab
  <2> QED
      BY <2>2, <2>3
<1> QED
    BY <1>5, <1>6

-----------------------------------------------------------------------------
(* The network and the server.                                             *)

(* A socket that has ended makes its store connect again.                  *)
LEMMA LeaderEnds ==
    ASSUME CursorStepInv, ~gap, NEW k \in Socket, Break(k) \/ SocketCloses(k), NEW x \in Tab,
           LeaderTab(x)
    PROVE  LeaderTab(x)'
<1> DEFINE a == tabs[x]
           b == tabs'[x]
           q == a.remoteQueue
<1>1. IsQueue(q)
      BY Facts DEF TabInv
<1>2. CASE sockets[k].tab # x
  <2>1. tabs'[x] = tabs[x] /\ \A j \in Socket \ {k} : sockets'[j] = sockets[j]
    <3>1. Only(sockets[k].tab) /\ \A j \in Socket \ {k} : sockets'[j] = sockets[j]
          BY BreakIs, SocketClosesIs
    <3> QED
        BY <1>2, <3>1 DEF Only
  <2>2. ServerRefs' = ServerRefs /\ Home(x)' = Home(x)
        BY DEF Break, SocketCloses, server, ServerRefs, Home
  <2>3. \A j \in Socket : SocketStaysFor(x, j)
        BY <1>2, <2>1, OwnSocket DEF SocketStaysFor, ClosingStays
  <2>4. KeepsRemote(tabs[x], tabs'[x])
        BY <2>1 DEF KeepsRemote
  <2> QED
      BY <2>1, <2>2, <2>3, <2>4, LeaderQuiet
<1>3. CASE sockets[k].tab = x /\ SocketCloses(k)
  <2> DEFINE job == ErrorEvent(k, TRUE)
  <2>1. b.remoteQueue = Append(q, job)
        BY <1>3, SocketClosesIs DEF Becomes
  <2>2. job.op = "error" /\ job.reconnect
        BY JobOps
  <2> HIDE DEF job, q, b
  <2>3. job \in Elements(Append(q, job))
        BY <1>1, <2>2, StepAppend
  <2>4. Waits(b.remoteQueue)
        BY <2>1, <2>2, <2>3 DEF Waits, Ends
  <2> QED
      BY <2>4 DEF LeaderTab, Restarting, b
<1>4. CASE sockets[k].tab = x /\ Break(k)
  <2>1. PICK events \in EndEvents(k) : \E n : b.remoteQueue = Arrived(q, k, n) \o events
    <3>1. PICK events \in EndEvents(k) :
              \E n : Becomes(a, b, a.leader, a.remote, a.timer, Arrived(q, k, n) \o events)
          BY <1>4, BreakIs
    <3> QED
        BY <3>1 DEF Becomes
  <2>2. PICK n : b.remoteQueue = Arrived(q, k, n) \o events
        BY <2>1
  <2>3. /\ IsQueue(events) /\ RemoteJobsOK(events) /\ Waits(events)
        /\ \A job \in Elements(events) : job.op # "persist"
        BY EndEventsOK
  <2>4. IsQueue(Arrived(q, k, n))
        BY <1>1, StepArrived DEF QueueStep
  <2> HIDE DEF q, b
  <2>5. JobsStay(events, Arrived(q, k, n) \o events)
        BY <2>3, <2>4, StepConcat
  <2>6. Waits(b.remoteQueue)
        BY <2>2, <2>3, <2>5, StaysWaiting
  <2> QED
      BY <2>6 DEF LeaderTab, Restarting, b
<1> QED
    BY <1>2, <1>3, <1>4

LEMMA GetsKeeps ==
    ASSUME NEW a, NEW b, NEW p, IsNews(p), Gets(a, b, p), IsQueue(a.remoteQueue)
    PROVE  KeepsRemote(a, b)
<1>1. /\ IsQueue(p) /\ b.remoteQueue = a.remoteQueue \o p
      /\ \A job \in Elements(p) : job.op \in {"commits", "ack"}
      BY DEF IsNews, Gets
<1>2. RemoteJobsOK(p)
      BY <1>1 DEF RemoteJobsOK, Elements
<1>3. JobsStay(a.remoteQueue, b.remoteQueue)
      BY <1>1, <1>2, StepConcat
<1> QED
    BY <1>3, StayKeeps DEF Gets

LEMMA LeaderInit ==
    ASSUME CursorStepInv, ~gap, NEW k \in Socket, ServerInit(k), NEW x \in Tab, LeaderTab(x)
    PROVE  LeaderTab(x)'
<1>1. PICK p : IsNews(p) /\ Gets(tabs[x], tabs'[x], p)
      BY ServerInitIs
<1>2. KeepsRemote(tabs[x], tabs'[x]) /\ tabs'[x].localQueue = tabs[x].localQueue
      BY <1>1, GetsKeeps, Facts DEF TabInv, Gets
<1>3. ServerRefs' = ServerRefs /\ Home(x)' = Home(x)
      BY DEF ServerInit, server, ServerRefs, Home
<1>4. ASSUME NEW j \in Socket
      PROVE  SocketStaysFor(x, j)
  <2>1. SocketShape(sockets[j])
        BY DEF CursorStepInv, ConnectionInv
  <2>2. sockets'[j] = IF j = k THEN [sockets[j] EXCEPT !.state = "open"] ELSE sockets[j]
        BY ServerInitIs
  <2>3. sockets[k].state = "connecting"
        BY ServerInitIs
  <2> QED
      BY <2>1, <2>2, <2>3 DEF SocketShape, SocketStaysFor, ClosingStays, IsActive
<1> QED
    BY <1>2, <1>3, <1>4, LeaderQuiet

(* The server accepts the first message, if it is one of those that bring  *)
(* what it does not have.                                                  *)
LEMMA LeaderDelivers ==
    ASSUME CursorStepInv, OrderInv, ~gap, NEW k \in Socket, ServerCommits(k), NEW x \in Tab,
           LeaderTab(x)
    PROVE  LeaderTab(x)'
<1> DEFINE q == tabs[x].localQueue
           up == sockets[k].up
<1>1. PICK p : IsNews(p) /\ Gets(tabs[x], tabs'[x], p)
      BY ServerCommitsIs
<1>2. KeepsRemote(tabs[x], tabs'[x]) /\ tabs'[x].localQueue = q
      BY <1>1, GetsKeeps, Facts DEF TabInv, Gets
<1>3. ServerRefs \subseteq ServerRefs' /\ Home(x)' = Home(x)
      BY ServerGrows, CommitsAdded DEF Home
<1>4. IsQueue(up) /\ up # <<>>
      BY UpIsQueue, ServerCommitsIs
<1>5. \A j \in Socket : /\ sockets'[j].state = sockets[j].state /\ sockets'[j].tab = sockets[j].tab
                        /\ sockets'[j].up = IF j = k THEN Tail(up) ELSE sockets[j].up
  <2> TAKE j \in Socket
  <2>1. SocketShape(sockets[j])
        BY DEF CursorStepInv, ConnectionInv
  <2>2. sockets'[j] = IF j = k THEN [sockets[j] EXCEPT !.up = Tail(up)] ELSE sockets[j]
        BY ServerCommitsIs
  <2>3. \A v : /\ [sockets[j] EXCEPT !.up = v].up = v
               /\ [sockets[j] EXCEPT !.up = v].state = sockets[j].state
               /\ [sockets[j] EXCEPT !.up = v].tab = sockets[j].tab
        BY <2>1 DEF SocketShape
  <2> QED
      BY <2>2, <2>3
<1>6. ASSUME UpOrder(up, 1, ServerRefs)
      PROVE  Refs(Head(up).commits) \subseteq ServerRefs'
  <2>1. Len(up) \in Nat /\ Len(up) # 0 /\ Head(up) = up[1]
        BY <1>4, QueueDomain, QueueTail
  <2>2. BatchOrder(up[1].commits, ServerRefs, Sent(up, 1, 1 - 1))
        BY <1>6, <2>1 DEF UpOrder
  <2>3. Sent(up, 1, 1 - 1) = {}
        BY DEF Sent
  <2> QED
      BY <2>1, <2>2, <2>3, HeadAccepted
<1>7. ASSUME NEW m \in 1 .. Len(up) + 1, Delivers(q, up, m, ServerRefs, Home(x))
      PROVE  \E n \in 1 .. Len(Tail(up)) + 1 : Delivers(q, Tail(up), n, ServerRefs', Home(x))
  <2>1. m = 1 => Refs(Head(up).commits) \subseteq ServerRefs'
        BY <1>6, <1>7 DEF Delivers
  <2> HIDE DEF up, q
  <2> QED
      BY <1>3, <1>4, <1>7, <2>1, DeliversRead
<1>8. ASSUME NEW j \in Socket
      PROVE  /\ ClosingStays(x, j)
             /\ tabs[x].remote = j /\ IsActive(sockets[j]) =>
                   /\ IsActive(sockets'[j])
                   /\ \A m \in 1 .. Len(sockets[j].up) + 1 :
                          Delivers(q, sockets[j].up, m, ServerRefs, Home(x)) =>
                              \E n \in 1 .. Len(sockets'[j].up) + 1 :
                                  Delivers(tabs'[x].localQueue, sockets'[j].up, n, ServerRefs',
                                           Home(x)')
  <2>1. ClosingStays(x, j) /\ (IsActive(sockets[j]) => IsActive(sockets'[j]))
        BY <1>5 DEF ClosingStays, IsActive
  <2>2. CASE j = k
    <3>1. sockets'[j].up = Tail(up)
          BY <1>5, <2>2
    <3> QED
        BY <1>2, <1>3, <1>7, <2>1, <2>2, <3>1
  <2>3. CASE j # k
    <3>1. sockets'[j].up = sockets[j].up
          BY <1>5, <2>3
    <3>2. \A m : Delivers(q, sockets[j].up, m, ServerRefs, Home(x)) =>
              Delivers(q, sockets[j].up, m, ServerRefs', Home(x))
          BY <1>3, DeliversGrows
    <3> QED
        BY <1>2, <1>3, <2>1, <3>1, <3>2
  <2> QED
      BY <2>2, <2>3
<1> QED
    BY <1>2, <1>8, LeaderKept

(* A step after which nothing is different for any store.                  *)
LEMMA LeaderStays ==
    ASSUME CursorStepInv, [Next]_vars, ~gap', NEW x \in Tab, LeaderTab(x),
           (\E s \in Store : Reset(s)) \/ UNCHANGED vars
    PROVE  LeaderTab(x)'
<1>1. tabs' = tabs /\ sockets' = sockets /\ ServerRefs' = ServerRefs
      BY DEF Reset, vars, server, ServerRefs
<1>2. Home(x)' = Home(x) /\ ~gap
  <2>1. CASE \E s \in Store : Reset(s)
    <3>1. \A s \in Store : Stored(db'[s]) = Stored(db[s])
          BY <2>1, MarksOnly
    <3> QED
        BY <2>1, <3>1, Facts, Stays DEF Home
  <2>2. CASE UNCHANGED vars
        BY <2>2 DEF vars, Home
  <2> QED
      BY <2>1, <2>2
<1>3. KeepsRemote(tabs[x], tabs'[x]) /\ \A k \in Socket : SocketStaysFor(x, k)
      BY <1>1 DEF KeepsRemote, SocketStaysFor, ClosingStays
<1> QED
    BY <1>1, <1>2, <1>3, LeaderQuiet

(* The store itself, after a step of its own.                              *)
LEMMA LeaderItself ==
    ASSUME CursorStepInv, RemoteInv, LocalInv, OrderInv, EditsOnHeads, [Next]_vars, ~gap',
           NEW t \in Tab, LeaderTab(t), OwnStep(t), ~Update(t), \A y \in Tab : ~Update(y)
    PROVE  LeaderTab(t)'
<1>1. ~gap
      BY Stays
<1>2. CASE \/ Demote(t) \/ Shutdown(t) \/ Crash(t) \/ Open(t) \/ ConnectClosed(t)
           \/ CloseDatabase(t) \/ Promote(t) \/ Reconnect(t)
      BY <1>2, LeaderDone
<1>3. CASE RemoteCommits(t) \/ Persist(t) \/ Ack(t)
      BY <1>3, LeaderWorks
<1>4. CASE Upload(t) \/ CloseJob(t) \/ OnError(t) \/ Connect(t)
      BY <1>1, <1>4, LeaderUpload, LeaderCloses, LeaderError, LeaderConnects
<1>5. CASE Edit(t) \/ Load(t) \/ LocalEvent(t)
      BY <1>1, <1>5, LeaderEdits, LeaderLoads, LeaderHears
<1> QED
    BY <1>2, <1>3, <1>4, <1>5 DEF OwnStep

(* The steps that tell no other store anything.                            *)
LEMMA StepAlone ==
    ASSUME CursorStepInv, NEW t \in Tab, OwnStep(t), ~Update(t), ~RemoteCommits(t)
    PROVE  Only(t)
<1>1. CASE Edit(t) \/ Load(t) \/ LocalEvent(t) \/ Open(t) \/ Crash(t)
      BY <1>1, EditIs, LoadLearns, LocalEventIs, OpenIs, CrashIs
<1>2. CASE ~(Edit(t) \/ Load(t) \/ LocalEvent(t) \/ Open(t) \/ Crash(t))
      BY <1>2, AsideSteps DEF OwnStep
<1> QED
    BY <1>1, <1>2

LEMMA NextLeaderInv ==
    ASSUME CursorStepInv, RemoteInv, LocalInv, OrderInv, LeaderInv, EditsOnHeads, [Next]_vars,
           ~gap'
    PROVE  LeaderInv'
<1> SUFFICES ASSUME NEW x \in Tab
             PROVE  LeaderTab(x)'
    BY DEF LeaderInv
<1>1. LeaderTab(x) /\ ~gap
      BY Stays DEF LeaderInv
<1>2. ASSUME NEW t \in Tab, Update(t)
      PROVE  LeaderTab(x)'
      BY <1>1, <1>2, LeaderUpdates, LeaderToldUpdate
<1>3. ASSUME NEW t \in Tab, OwnStep(t), \A y \in Tab : ~Update(y)
      PROVE  LeaderTab(x)'
  <2>1. CASE x = t
        BY <1>1, <1>3, <2>1, LeaderItself
  <2>2. CASE x # t /\ RemoteCommits(t)
        BY <1>1, <2>2, LeaderToldRemote
  <2>3. CASE x # t /\ ~RemoteCommits(t)
    <3>1. tabs'[x] = tabs[x]
          BY <1>3, <2>3, StepAlone DEF Only
    <3> QED
        BY <1>1, <1>3, <2>3, <3>1, LeaderApart
  <2> QED
      BY <2>1, <2>2, <2>3
<1>4. ASSUME NEW k \in Socket, Network(k) \/ Break(k)
      PROVE  LeaderTab(x)'
      BY <1>1, <1>4, LeaderEnds, LeaderInit, LeaderDelivers DEF Network
<1>5. CASE (\E s \in Store : Reset(s)) \/ UNCHANGED vars
      BY <1>1, <1>5, LeaderStays
<1>6. ASSUME NEW t \in Tab, RemoteCommitsThrow(t) \/ LoadThrows(t) \/ LocalEventThrows(t)
      PROVE  FALSE
      BY <1>6, ThrowIs
<1> QED
    BY <1>2, <1>3, <1>4, <1>5, <1>6 DEF Next, Jobs, LocalJobs, OwnStep

-----------------------------------------------------------------------------
(* Once all is quiet, all are the same.                                    *)

(* As long as no client threw and no tab died in a job.                    *)
SyncInv == RemoteInv /\ (~gap => LocalInv /\ OrderInv /\ HeardInv /\ LeaderInv)

LEMMA InitSyncInv ==
    ASSUME Init
    PROVE  SyncInv
<1>1. /\ rows = <<>> /\ \A s \in Store : db[s] = EmptyDb
      /\ \A t \in Tab : tabs[t] = [NewTab EXCEPT !.localQueue = <<>>]
      BY DEF Init
<1>2. \A t \in Tab :
          /\ tabs[t].remoteQueue = <<>> /\ tabs[t].localQueue = <<>> /\ tabs[t].known = {}
          /\ ~tabs[t].leader /\ tabs[t].dbOpen
  <2>1. NewTabFields(NewTab) /\ TabShape(NewTab)
        BY NewTabIs, NewTabInv DEF TabInv
  <2> QED
      BY <1>1, <2>1 DEF NewTabFields, TabShape
<1>3. ServerRefs = {} /\ Elements(<<>>) = {} /\ DOMAIN <<>> = {}
      BY <1>1, EmptyQueue DEF ServerRefs, RefsOf, Elements
<1>4. \A s \in Store : Stored(db[s]) = {}
      BY <1>1 DEF EmptyDb, Stored
<1>5. \A t \in Tab : Home(t) = {}
  <2>1. \A t \in Tab : storeOf[t] \in Store
        BY ScenarioAssumption DEF Init
  <2> QED
      BY <1>4, <2>1 DEF Home
<1>6. RemoteInv
      BY <1>2, <1>3 DEF RemoteInv, RemoteTabOK, RemoteJobsOK
<1>7. LocalInv
      BY <1>2, <1>3 DEF LocalInv, LocalTabOK, LocalOrder
<1>8. OrderInv
      BY <1>3, <1>4 DEF OrderInv, StoreOrder
<1>9. HeardInv
      BY <1>2, <1>3, <1>5 DEF HeardInv, HeardTab, IsPersisting, Siblings
<1>10. LeaderInv
       BY <1>2 DEF LeaderInv, LeaderTab, Lead
<1> QED
    BY <1>6, <1>7, <1>8, <1>9, <1>10 DEF SyncInv

LEMMA NextSyncInv ==
    ASSUME CursorStepInv, SyncInv, EditsOnHeads, [Next]_vars
    PROVE  SyncInv'
<1>1. RemoteInv'
      BY NextRemoteInv DEF SyncInv
<1>2. ASSUME ~gap'
      PROVE  LocalInv' /\ OrderInv' /\ HeardInv' /\ LeaderInv'
  <2>1. RemoteInv /\ LocalInv /\ OrderInv /\ HeardInv /\ LeaderInv
        BY <1>2, Stays DEF SyncInv
  <2> QED
      BY <1>2, <2>1, NextLocalInv, NextOrderInv, NextHeardInv, NextLeaderInv
<1> QED
    BY <1>1, <1>2 DEF SyncInv

(* The leader of a browser, and what its browser has.                      *)
LEMMA IdleLeader ==
    ASSUME CursorStepInv, SyncInv, Idle, ~gap, NEW t \in Tab, Leads(t)
    PROVE  Home(t) = ServerRefs
<1>1. /\ tabs[t].remoteQueue = <<>> /\ tabs[t].localQueue = <<>> /\ ~tabs[t].timer
      /\ Lead(tabs[t]) /\ tabs[t].dbOpen /\ tabs[t].open
      BY DEF Idle, Leads, Live, Lead, SyncInv, RemoteInv, RemoteTabOK
<1>2. Elements(<<>>) = {}
      BY DEF Elements
<1>3. ~Restarting(tabs[t]) /\ ~Uploads(tabs[t].remoteQueue)
      BY <1>1, <1>2 DEF Restarting, Waits, Uploads
<1>4. ~Closing(t)
      BY DEF Closing, Idle
<1>5. Connected(t)
      BY <1>1, <1>3, <1>4 DEF SyncInv, LeaderInv, LeaderTab
<1>6. PICK k \in Socket :
          /\ tabs[t].remote = k /\ IsActive(sockets[k])
          /\ \E m \in 1 .. Len(sockets[k].up) + 1 :
                 Delivers(tabs[t].localQueue, sockets[k].up, m, ServerRefs, Home(t))
      BY <1>3, <1>5 DEF Connected
<1>7. sockets[k].state = "open" /\ sockets[k].up = <<>>
      BY <1>6 DEF Idle, IsActive
<1>8. Len(<<>>) = 0
      OBVIOUS
<1>9. Home(t) \subseteq ServerRefs
  <2>1. PICK m \in 1 .. 0 + 1 : Delivers(<<>>, <<>>, m, ServerRefs, Home(t))
        BY <1>1, <1>6, <1>7, <1>8
  <2>2. m .. 0 = {}
        BY <2>1
  <2>3. Sent(<<>>, m, Len(<<>>)) = {}
        BY <1>8, <2>2 DEF Sent
  <2>4. \A r : ~IsPending(<<>>, Len(<<>>), r)
        BY <1>8 DEF IsPending
  <2> QED
      BY <2>1, <2>3, <2>4 DEF Delivers
<1>10. ServerRefs \subseteq Home(t)
  <2>1. sockets[k].tab = t
        BY <1>6, SocketFacts, <1>7
  <2>2. SocketSafe(k, sockets[k], tabs[t], Home(t), rows)
        BY <1>7, <2>1, SocketFacts
  <2>3. \A r \in RefsOf(rows) : IsFound(<<>>, Len(<<>>), k, Home(t), r)
        BY <1>1, <1>7, <2>2 DEF SocketSafe
  <2> QED
      BY <1>8, <2>3 DEF IsFound, ServerRefs
<1> QED
    BY <1>9, <1>10

LEMMA SyncIsSynced ==
    ASSUME CursorStepInv, SyncInv
    PROVE  SyncedWhenIdle
<1> SUFFICES ASSUME Idle, ~gap, NEW t \in Tab, Live(t)
             PROVE  /\ Home(t) = ServerRefs
                    /\ tabs[t].known \subseteq ServerRefs
                    /\ ServerRefs \subseteq tabs[t].known \cup tabs[t].missed
    BY DEF SyncedWhenIdle, Home
<1>1. PICK o \in Tab : storeOf[o] = storeOf[t] /\ Leads(o)
      BY DEF Idle, Siblings
<1>2. Home(t) = ServerRefs
      BY <1>1, IdleLeader DEF Home
<1>3. /\ tabs[t].localQueue = <<>> /\ tabs[t].open /\ tabs[t].dbOpen
      BY DEF Idle, Live, SyncInv, RemoteInv, RemoteTabOK
<1>4. Elements(<<>>) = {}
      BY DEF Elements
<1>5. tabs[t].known \subseteq ServerRefs
      BY <1>2, <1>3, <1>4 DEF SyncInv, LocalInv, LocalTabOK, IsOwn
<1>6. Home(t) \subseteq tabs[t].known \cup tabs[t].missed
      BY <1>3, <1>4 DEF SyncInv, HeardInv, HeardTab, Hears
<1> QED
    BY <1>2, <1>5, <1>6

(* Whatever connections broke, leaders changed, and stores were shut down  *)
(* or reset: once all is quiet, each browser has what the server has, and  *)
(* so has each tab in use, but for what was announced before it was there  *)
(* (CoordinatingLocalStore, WebsocketRemote and the server together).      *)
THEOREM AllIsSynced == Spec /\ EditsOnHeads => []SyncedWhenIdle
<1> SUFFICES ASSUME EditsOnHeads
             PROVE  Spec => []SyncedWhenIdle
    OBVIOUS
<1>1. Init => SyncInv
      BY InitSyncInv
<1>2. CursorStepInv /\ SyncInv /\ [Next]_vars => SyncInv'
      BY NextSyncInv
<1>3. CursorStepInv /\ SyncInv => SyncedWhenIdle
      BY SyncIsSynced
<1> QED
    BY <1>1, <1>2, <1>3, CursorStepInvAlways, PTL DEF Spec
=============================================================================
