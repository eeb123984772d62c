--------------------------- MODULE ServerDocProofs ---------------------------
(***************************************************************************)
(* Theorems about ServerDoc, for any number of connections, messages and   *)
(* faults: no connection uses a document whose store has been closed; no   *)
(* client misses a commit, gets a child before its parents or is shown a   *)
(* client that is gone.                                                    *)
(*                                                                         *)
(* IInv is inductive by itself and is about the documents alone.           *)
(* ServerInv says of each connection of a document what its queue will     *)
(* still do: which commits it passes on before each job (GapInv,           *)
(* OrderInv), which leaves are announced after each join (GhostInv), and   *)
(* of the table that its rows put parents first.  Most steps do one of     *)
(* three things to a connection: a job is taken from its queue, jobs are   *)
(* put at the end, or both; the lemmas that end in Keeps are one for each  *)
(* action of Next.                                                         *)
(***************************************************************************)
EXTENDS ServerDoc, DocStoreProofs

(* A LiveDoc.  Nothing is said about its memory.                           *)
DocShape(doc) ==
    doc \in [open : BOOLEAN, connections : SUBSET Conn, memory : {doc.memory}]

Shape ==
    /\ docs = [d \in Conn |-> docs[d]]
    /\ \A d \in Conn : DocShape(docs[d])
    /\ liveDocs \in Conn \cup {NoDoc}

IInv == Shape /\ DocOpenWhileUsed

-----------------------------------------------------------------------------
(* Documents that are not touched stay as they are.                        *)
LEMMA SameDocs ==
    ASSUME IInv, docs' = docs, liveDocs' = liveDocs
    PROVE  IInv'
BY DEF IInv, Shape, DocShape, DocOpenWhileUsed

(* The callback of a connection that is closed, run once more or for the   *)
(* first time, removes the connection and closes what nobody else uses.    *)
LEMMA OnClosePreserves ==
    ASSUME IInv, NEW c \in Conn, OnClose(c)
    PROVE  IInv'
<1> DEFINE d == conns[c].doc
           doc == [docs[d] EXCEPT !.connections = @ \ {c}, !.open = @ /\ ~Empties(d, c)]
<1>1. CASE d \notin Conn
  <2>1. docs' = docs
        BY <1>1 DEF OnClose, IInv, Shape
  <2>2. liveDocs' \in {liveDocs, NoDoc}
        BY DEF OnClose
  <2> QED
      BY <2>1, <2>2 DEF IInv, Shape, DocShape, DocOpenWhileUsed
<1>2. CASE d \in Conn
  <2>1. docs' = [docs EXCEPT ![d] = doc]
        BY <1>2 DEF OnClose, IInv, Shape
  <2>2. DocShape(docs[d])
        BY <1>2 DEF IInv, Shape
  <2>3. /\ DocShape(doc)
        /\ doc.connections = docs[d].connections \ {c}
        /\ doc.open = (docs[d].open /\ ~Empties(d, c))
        BY <2>2 DEF DocShape
  <2>4. liveDocs' = IF Empties(d, c) THEN NoDoc ELSE liveDocs
        BY DEF OnClose
  <2> HIDE DEF doc
  <2>5. /\ docs' = [x \in Conn |-> docs'[x]]
        /\ docs'[d] = doc
        /\ \A x \in Conn \ {d} : docs'[x] = docs[x]
        BY <1>2, <2>1 DEF IInv, Shape
  <2>6. Shape'
        BY <2>3, <2>4, <2>5 DEF IInv, Shape, DocShape
  <2>7. DocOpenWhileUsed'
        BY <2>2, <2>3, <2>4, <2>5, NoDocAssumption
           DEF IInv, Shape, DocShape, DocOpenWhileUsed, Empties
  <2> QED
      BY <2>6, <2>7 DEF IInv
<1> QED
    BY <1>1, <1>2

-----------------------------------------------------------------------------
(* The actions that open a document or write to one.                       *)

LEMMA ConnectPreserves ==
    ASSUME IInv, NEW c \in Conn, NEW s, NEW cursor, Connect(c, s, cursor)
    PROVE  IInv'
<1> DEFINE d == IF liveDocs = NoDoc THEN c ELSE liveDocs
           doc == IF d = c THEN NewDoc({c})
                  ELSE [docs[d] EXCEPT !.connections = @ \cup {c}]
<1>1. d \in Conn /\ liveDocs' = d
      BY DEF Connect, IInv, Shape
<1>2. docs' = [docs EXCEPT ![d] = doc]
      BY DEF Connect
<1>3. DocShape(doc) /\ doc.open
  <2>1. CASE d = c
        BY <2>1 DEF NewDoc, DocShape
  <2>2. CASE d # c
        BY <1>1, <2>2 DEF IInv, Shape, DocShape, DocOpenWhileUsed
  <2> QED
      BY <2>1, <2>2
<1> HIDE DEF doc, d
<1>4. /\ docs' = [x \in Conn |-> docs'[x]]
      /\ docs'[d] = doc
      /\ \A x \in Conn \ {d} : docs'[x] = docs[x]
      BY <1>1, <1>2 DEF IInv, Shape
<1> QED
    BY <1>1, <1>3, <1>4 DEF IInv, Shape, DocShape, DocOpenWhileUsed

LEMMA OnCommitsPreserves ==
    ASSUME IInv, NEW c \in Conn, NEW t, OnCommits(c, t)
    PROVE  IInv'
<1> DEFINE d == conns[c].doc
           added == LiveDocAddCommits(rows, docs[d].memory, Head(conns[c].queue).commits, t)
<1>1. CASE ~docs[d].open
      BY <1>1, OnClosePreserves DEF OnCommits, CloseWithCode, OnClosed
<1>2. CASE docs[d].open
  <2> HIDE DEF added
  <2>1. docs' = [docs EXCEPT ![d].memory = added.memory] /\ liveDocs' = liveDocs
        BY <1>2 DEF OnCommits, added
  <2> DEFINE doc == [docs[d] EXCEPT !.memory = added.memory]
  <2>2. CASE d \notin Conn
    <3>1. docs' = docs
          BY <2>1, <2>2 DEF IInv, Shape
    <3> QED
        BY <2>1, <3>1, SameDocs
  <2>3. CASE d \in Conn
    <3>1. DocShape(docs[d])
          BY <2>3 DEF IInv, Shape
    <3>2. DocShape(doc) /\ doc.open = docs[d].open /\ doc.connections = docs[d].connections
          BY <3>1 DEF DocShape
    <3>3. docs' = [docs EXCEPT ![d] = doc]
          BY <2>1
    <3> HIDE DEF doc, d
    <3>4. /\ docs' = [x \in Conn |-> docs'[x]]
          /\ docs'[d] = doc
          /\ \A x \in Conn \ {d} : docs'[x] = docs[x]
          BY <2>3, <3>3 DEF IInv, Shape
    <3> QED
        BY <2>1, <2>3, <3>1, <3>2, <3>4 DEF IInv, Shape, DocShape, DocOpenWhileUsed
  <2> QED
      BY <2>2, <2>3
<1> QED
    BY <1>1, <1>2

LEMMA RestartPreserves ==
    ASSUME IInv, Restart
    PROVE  IInv'
<1>1. docs' = [d \in Conn |-> NoLiveDoc] /\ liveDocs' = NoDoc
      BY DEF Restart
<1>2. DocShape(NoLiveDoc) /\ NoLiveDoc.connections = {}
      BY DEF DocShape, NoLiveDoc
<1> QED
    BY <1>1, <1>2 DEF IInv, Shape, DocShape, DocOpenWhileUsed

-----------------------------------------------------------------------------
LEMMA InitIInv == Init => IInv
<1> SUFFICES ASSUME Init PROVE IInv
    OBVIOUS
<1>1. DocShape(NoLiveDoc) /\ NoLiveDoc.connections = {}
      BY DEF DocShape, NoLiveDoc
<1> QED
    BY <1>1 DEF Init, IInv, Shape, DocOpenWhileUsed

LEMMA NextIInv == IInv /\ [Next]_vars => IInv'
<1> SUFFICES ASSUME IInv, [Next]_vars PROVE IInv'
    OBVIOUS
<1>1. ASSUME NEW c \in Conn, NEW s \in Store, NEW cursor \in 0 .. MaxClock, Connect(c, s, cursor)
      PROVE  IInv'
      BY <1>1, ConnectPreserves
<1>2. ASSUME NEW c \in Conn, NEW m \in Message, Receive(c, m)
      PROVE  IInv'
      BY <1>2, SameDocs DEF Receive
<1>3. ASSUME NEW c \in Conn, ReceiveBadFrame(c)
      PROVE  IInv'
      BY <1>3, OnClosePreserves DEF ReceiveBadFrame, CloseWithCode, OnClosed
<1>4. ASSUME NEW c \in Conn, SocketCloses(c)
      PROVE  IInv'
      BY <1>4, SameDocs DEF SocketCloses
<1>5. ASSUME NEW c \in Conn, SocketError(c)
      PROVE  IInv'
      BY <1>5, OnClosePreserves DEF SocketError
<1>6. ASSUME NEW c \in Conn, Job(c)
      PROVE  IInv'
  <2>1. CASE Initialize(c)
    <3>1. CASE docs[conns[c].doc].open
          BY <2>1, <3>1, SameDocs DEF Initialize
    <3>2. CASE ~docs[conns[c].doc].open
          BY <2>1, <3>2, OnClosePreserves DEF Initialize, CloseWithCode, OnClosed
    <3> QED
        BY <3>1, <3>2
  <2>2. CASE InitializeAgain(c)
        BY <2>2, SameDocs DEF InitializeAgain
  <2>3. CASE Unauthorized(c)
        BY <2>3, OnClosePreserves DEF Unauthorized, CloseWithCode, OnClosed
  <2>4. CASE Refuse(c)
        BY <2>4, OnClosePreserves DEF Refuse, CloseWithCode, OnClosed
  <2>5. CASE \E t \in 1 .. MaxClock : OnCommits(c, t)
        BY <2>5, OnCommitsPreserves
  <2>6. CASE OnClientJoin(c)
        BY <2>6, SameDocs DEF OnClientJoin
  <2>7. CASE OnClientLeave(c)
        BY <2>7, SameDocs DEF OnClientLeave
  <2>8. CASE ReceiveBroadcast(c)
        BY <2>8, SameDocs DEF ReceiveBroadcast
  <2>9. CASE FinishClose(c)
        BY <2>9, OnClosePreserves DEF FinishClose, OnClosed
  <2> QED
      BY <1>6, <2>1, <2>2, <2>3, <2>4, <2>5, <2>6, <2>7, <2>8, <2>9 DEF Job
<1>7. CASE Restart
      BY <1>7, RestartPreserves
<1>8. CASE UNCHANGED vars
      BY <1>8, SameDocs DEF vars
<1> QED
    BY <1>1, <1>2, <1>3, <1>4, <1>5, <1>6, <1>7, <1>8 DEF Next

(* However often and in whatever order connections are closed (by the      *)
(* server, the client or the network; SRV onClose), a document in use is   *)
(* open, and the map of live documents holds no closed one.                *)
THEOREM DocsStayOpen == Spec => []DocOpenWhileUsed
<1>1. Init => IInv
      BY InitIInv
<1>2. IInv /\ [Next]_vars => IInv'
      BY NextIInv
<1>3. IInv => DocOpenWhileUsed
      BY DEF IInv
<1> QED
    BY <1>1, <1>2, <1>3, PTL DEF Spec

-----------------------------------------------------------------------------
(* The connections.                                                        *)

EventOK(event) ==
    \/ event \in [op : {"client-join", "client-leave"}, client : ClientId]
    \/ event.op = "commits" /\ IsQueue(event.commits) /\ Elements(event.commits) \subseteq Ref

JobOK(job) ==
    \/ job.op = "init" /\ job.cursor \in Nat
    \/ job.op = "commits" /\ job.commits \in Batch
    \/ job \in [op : {"client-join", "client-leave"}, client : ClientId]
    \/ job.op = "closed"
    \/ job.op = "broadcast" /\ EventOK(job.event)

(* What a client sent is handled before the close of its socket.           *)
Closes(q) ==
    \A n \in DOMAIN q : q[n].op # "broadcast" =>
        \E m \in DOMAIN q : m >= n /\ q[m].op = "closed"

QueueOK(q) == IsQueue(q) /\ \A n \in DOMAIN q : JobOK(q[n])

ConnOK(conn) ==
    /\ conn \in [status : {"none", "open", "closing", "closed"}, store : {conn.store},
                 doc : Conn \cup {NoDoc}, authenticated : BOOLEAN, cursor : Nat,
                 clients : SUBSET ClientId, queue : {conn.queue}, sent : {conn.sent},
                 peers : SUBSET ClientId]
    /\ IsFiniteSet(conn.clients)
    /\ QueueOK(conn.queue)
    /\ IsQueue(conn.sent) /\ Elements(conn.sent) \subseteq Ref
    /\ conn.doc = NoDoc => conn.queue = <<>> /\ conn.status \in {"none", "closed"}
    /\ conn.doc # NoDoc => conn.status # "none" /\ conn.store \in Store
    /\ conn.clients # {} => conn.authenticated
    /\ conn.peers # {} => conn.authenticated
    /\ conn.status = "closed" => Closes(conn.queue)

LocalInv ==
    /\ conns = [c \in Conn |-> conns[c]]
    /\ \A c \in Conn : ConnOK(conns[c])

(* A connection that a document has is a connection to that document.      *)
LinkInv == \A d \in Conn : \A c \in docs[d].connections : conns[c].doc = d

(* As long as no entry of the map was deleted for another document, the    *)
(* document in the map is the only one that is open.                       *)
LiveInv == ~dropped => \A d \in Conn : docs[d].open => d = liveDocs

MemoryInv ==
    \A d \in Conn :
        /\ docs[d].memory \in [seenRefs : SUBSET Ref, headRef : Ref \cup {NoRef}]
        /\ docs[d].memory.seenRefs \subseteq RefsOf(rows)

(* The commits of the rows before the n-th.                                *)
RefsBefore(table, n) == {table[m].ref : m \in {k \in DOMAIN table : k < n}}

Unique(table) ==
    \A m, n \in DOMAIN table :
        table[m].remoteSyncId = table[n].remoteSyncId
            /\ table[m].remoteSyncIndex = table[n].remoteSyncIndex => m = n

(* The table: parents come first, time does not run backwards, each add    *)
(* numbers its rows from 0.                                                *)
RowsOK(table, time) ==
    /\ IsQueue(table)
    /\ \A n \in DOMAIN table :
          /\ table[n] \in Row
          /\ table[n].remoteSyncId <= time
          /\ ParentsOf(table[n].ref) \subseteq RefsBefore(table, n)
          /\ \E m \in DOMAIN table : /\ table[m].remoteSyncId = table[n].remoteSyncId
                                     /\ table[m].remoteSyncIndex = 0
    /\ Unique(table) => \A m, n \in DOMAIN table : m < n => ServedBefore(table, m, n)

CountInv ==
    /\ clock \in 0 .. MaxClock
    /\ messages \in 0 .. MaxMessages /\ faults \in 0 .. MaxFaults
    /\ dropped \in BOOLEAN
    /\ offered \in [Store -> SUBSET Ref]

BaseInv ==
    /\ IInv /\ LocalInv /\ LinkInv /\ LiveInv /\ MemoryInv /\ CountInv
    /\ RowsOK(rows, clock)

-----------------------------------------------------------------------------
(* Clients that are gone.                                                  *)

IsAbout(job, op, s, p) ==
    job.op = "broadcast" /\ job.from # s /\ job.event = [op |-> op, client |-> p]

(* A connection of store s is told that p leaves, after job n.             *)
LeaveAfter(q, n, s, p) == \E m \in DOMAIN q : m > n /\ IsAbout(q[m], "client-leave", s, p)

(* With the clients that others still have to announce.                    *)
GhostOK(conn, living) ==
    \A p \in ClientId :
        /\ p \in conn.peers => p \in living \/ LeaveAfter(conn.queue, 0, conn.store, p)
        /\ \A n \in DOMAIN conn.queue :
              IsAbout(conn.queue[n], "client-join", conn.store, p) =>
                  p \in living \/ LeaveAfter(conn.queue, n, conn.store, p)

(* The server will still run onClosed for the connection.                  *)
WillClose(conn) ==
    conn.status \in {"open", "closing"} \/ \E n \in DOMAIN conn.queue : conn.queue[n].op = "closed"

LivesFor(conn, other) ==
    IF conn.doc = other.doc /\ conn.store # other.store /\ WillClose(conn)
    THEN conn.clients ELSE {}

Living(c) == {p \in ClientId : \E o \in Conn : p \in LivesFor(conns[o], conns[c])}

GhostInv == \A d \in Conn : \A c \in docs[d].connections : GhostOK(conns[c], Living(c))

-----------------------------------------------------------------------------
(* What clients are sent.                                                  *)

Carries(job) == job.op = "broadcast" /\ job.event.op = "commits"

Passes(conn, job) == Carries(job) /\ conn.authenticated /\ job.from # conn.store

Passed(conn, n) ==
    IF Passes(conn, conn.queue[n]) THEN Elements(conn.queue[n].event.commits) ELSE {}

(* The commits that the connection will send before it runs job n.         *)
PassedBefore(conn, n) ==
    UNION {Passed(conn, m) : m \in {k \in DOMAIN conn.queue : k < n}}

AllPassed(conn) == UNION {Passed(conn, m) : m \in DOMAIN conn.queue}

(* The commits a client has from before.                                   *)
OldRefs(table, cursor) ==
    {table[n].ref : n \in {k \in DOMAIN table : table[k].remoteSyncId <= cursor}}

NewerRefs(table, cursor) ==
    {table[n].ref : n \in {k \in DOMAIN table : table[k].remoteSyncId > cursor}}

GapOK(conn, table, mine) ==
    conn.authenticated =>
        NewerRefs(table, conn.cursor) \subseteq Elements(conn.sent) \cup mine \cup AllPassed(conn)

GapInv ==
    ~dropped => \A d \in Conn : \A c \in docs[d].connections :
        \A s \in Store : conns[c].store = s => GapOK(conns[c], rows, offered[s])

Before(q, n) == {q[m] : m \in {k \in DOMAIN q : k < n}}

OrderOK(conn, table, mine) ==
    LET known == mine \cup OldRefs(table, conn.cursor)
    IN  /\ \A n \in DOMAIN conn.sent :
              ParentsOf(conn.sent[n]) \subseteq Before(conn.sent, n) \cup known
        /\ \A n \in DOMAIN conn.queue : Carries(conn.queue[n]) =>
              \A i \in DOMAIN conn.queue[n].event.commits :
                  ParentsOf(conn.queue[n].event.commits[i]) \subseteq RefsOf(table)
        /\ \A n \in DOMAIN conn.queue : Passes(conn, conn.queue[n]) =>
              \A i \in DOMAIN conn.queue[n].event.commits :
                  ParentsOf(conn.queue[n].event.commits[i]) \subseteq
                      Before(conn.queue[n].event.commits, i)
                          \cup Elements(conn.sent) \cup known \cup PassedBefore(conn, n)

OrderInv ==
    Unique(rows) /\ ~dropped => \A d \in Conn : \A c \in docs[d].connections :
        \A s \in Store : conns[c].store = s => OrderOK(conns[c], rows, offered[s])

ServerInv == BaseInv /\ GhostInv /\ GapInv /\ OrderInv

-----------------------------------------------------------------------------
(* The fields of a connection.                                             *)

(* The connection that conn becomes.                                       *)
Becomes(conn, status, authenticated, cursor, clients, queue, sent, peers) ==
    [status |-> status, store |-> conn.store, doc |-> conn.doc,
     authenticated |-> authenticated, cursor |-> cursor, clients |-> clients,
     queue |-> queue, sent |-> sent, peers |-> peers]

LEMMA ConnFields ==
    ASSUME NEW conn, ConnOK(conn)
    PROVE  conn = Becomes(conn, conn.status, conn.authenticated, conn.cursor, conn.clients,
                          conn.queue, conn.sent, conn.peers)
BY DEF ConnOK, Becomes

LEMMA BecomesOK ==
    ASSUME NEW conn, NEW status, NEW authenticated, NEW cursor, NEW clients, NEW queue,
           NEW sent, NEW peers,
           ConnOK(conn), conn.doc # NoDoc, status \in {"open", "closing", "closed"},
           authenticated \in BOOLEAN, cursor \in Nat,
           clients \subseteq ClientId, IsFiniteSet(clients), peers \subseteq ClientId,
           clients # {} => authenticated, peers # {} => authenticated,
           QueueOK(queue), IsQueue(sent), Elements(sent) \subseteq Ref,
           status = "closed" => Closes(queue)
    PROVE  ConnOK(Becomes(conn, status, authenticated, cursor, clients, queue, sent, peers))
<1> DEFINE new == Becomes(conn, status, authenticated, cursor, clients, queue, sent, peers)
<1>1. /\ new.status = status /\ new.store = conn.store /\ new.doc = conn.doc
      /\ new.authenticated = authenticated /\ new.cursor = cursor /\ new.clients = clients
      /\ new.queue = queue /\ new.sent = sent /\ new.peers = peers
      BY DEF Becomes
<1>2. new \in [status : {"none", "open", "closing", "closed"}, store : {new.store},
                 doc : Conn \cup {NoDoc}, authenticated : BOOLEAN, cursor : Nat,
                 clients : SUBSET ClientId, queue : {new.queue}, sent : {new.sent},
                 peers : SUBSET ClientId]
      BY DEF Becomes, ConnOK
<1>3. conn.store \in Store
      BY DEF ConnOK
<1> HIDE DEF new
<1> QED
    BY <1>1, <1>2, <1>3 DEF ConnOK, new

LEMMA BecomesFields ==
    ASSUME NEW conn, NEW status, NEW authenticated, NEW cursor, NEW clients, NEW queue,
           NEW sent, NEW peers, NEW new,
           new = Becomes(conn, status, authenticated, cursor, clients, queue, sent, peers)
    PROVE  /\ new.status = status /\ new.store = conn.store /\ new.doc = conn.doc
           /\ new.authenticated = authenticated /\ new.cursor = cursor /\ new.clients = clients
           /\ new.queue = queue /\ new.sent = sent /\ new.peers = peers
BY DEF Becomes

-----------------------------------------------------------------------------
(* The queue of a connection.                                              *)

LEMMA PushedQueue ==
    ASSUME NEW q, NEW jobs, QueueOK(q), QueueOK(jobs)
    PROVE  QueueOK(q \o jobs)
<1>1. /\ IsQueue(q \o jobs) /\ Len(q \o jobs) = Len(q) + Len(jobs)
      /\ \A n \in 1 .. Len(q) : (q \o jobs)[n] = q[n]
      /\ \A n \in 1 .. Len(jobs) : (q \o jobs)[Len(q) + n] = jobs[n]
      BY QueueConcat DEF QueueOK
<1>2. /\ Len(q) \in Nat /\ DOMAIN q = 1 .. Len(q)
      /\ Len(jobs) \in Nat /\ DOMAIN jobs = 1 .. Len(jobs)
      /\ DOMAIN (q \o jobs) = 1 .. Len(q \o jobs)
      BY <1>1, QueueDomain DEF QueueOK
<1>3. ASSUME NEW n \in DOMAIN (q \o jobs) PROVE JobOK((q \o jobs)[n])
  <2>1. CASE n \in 1 .. Len(q)
        BY <1>1, <1>2, <2>1 DEF QueueOK
  <2>2. CASE n \notin 1 .. Len(q)
    <3>1. n - Len(q) \in 1 .. Len(jobs) /\ n = Len(q) + (n - Len(q))
          BY <1>1, <1>2, <2>2
    <3>2. (q \o jobs)[n] = jobs[n - Len(q)]
          BY <1>1, <3>1
    <3> QED
        BY <1>2, <3>1, <3>2 DEF QueueOK
  <2> QED
      BY <2>1, <2>2
<1> QED
    BY <1>1, <1>3 DEF QueueOK

LEMMA PushedCloses ==
    ASSUME NEW q, NEW jobs, IsQueue(q), IsQueue(jobs), Closes(q),
           \A n \in DOMAIN jobs : jobs[n].op = "broadcast"
    PROVE  Closes(q \o jobs)
<1>1. /\ IsQueue(q \o jobs) /\ Len(q \o jobs) = Len(q) + Len(jobs)
      /\ \A n \in 1 .. Len(q) : (q \o jobs)[n] = q[n]
      /\ \A n \in 1 .. Len(jobs) : (q \o jobs)[Len(q) + n] = jobs[n]
      BY QueueConcat
<1>2. /\ Len(q) \in Nat /\ DOMAIN q = 1 .. Len(q)
      /\ Len(jobs) \in Nat /\ DOMAIN jobs = 1 .. Len(jobs)
      /\ DOMAIN (q \o jobs) = 1 .. Len(q \o jobs)
      BY <1>1, QueueDomain
<1>3. ASSUME NEW n \in DOMAIN (q \o jobs), (q \o jobs)[n].op # "broadcast"
      PROVE  \E m \in DOMAIN (q \o jobs) : m >= n /\ (q \o jobs)[m].op = "closed"
  <2>1. n \in 1 .. Len(q)
    <3> SUFFICES ASSUME n \notin 1 .. Len(q) PROVE FALSE
        OBVIOUS
    <3>1. n - Len(q) \in 1 .. Len(jobs) /\ n = Len(q) + (n - Len(q))
          BY <1>1, <1>2
    <3>2. (q \o jobs)[n] = jobs[n - Len(q)]
          BY <1>1, <3>1
    <3> QED
        BY <1>2, <1>3, <3>1, <3>2
  <2>2. PICK m \in DOMAIN q : m >= n /\ q[m].op = "closed"
        BY <1>1, <1>2, <1>3, <2>1 DEF Closes
  <2>3. m \in DOMAIN (q \o jobs) /\ (q \o jobs)[m] = q[m]
        BY <1>1, <1>2
  <2> QED
      BY <2>2, <2>3
<1> QED
    BY <1>3 DEF Closes

LEMMA AppendedQueue ==
    ASSUME NEW q, QueueOK(q), NEW job, JobOK(job)
    PROVE  QueueOK(Append(q, job))
<1>1. /\ IsQueue(Append(q, job)) /\ Len(Append(q, job)) = Len(q) + 1
      /\ \A n \in 1 .. Len(q) : Append(q, job)[n] = q[n]
      /\ Append(q, job)[Len(q) + 1] = job
      BY QueueAppend DEF QueueOK
<1>2. /\ Len(q) \in Nat /\ DOMAIN q = 1 .. Len(q)
      /\ DOMAIN Append(q, job) = 1 .. Len(q) + 1
      BY <1>1, QueueDomain DEF QueueOK
<1> QED
    BY <1>1, <1>2 DEF QueueOK

LEMMA ClosingCloses ==
    ASSUME NEW q, IsQueue(q), NEW job, job.op = "closed"
    PROVE  Closes(Append(q, job))
<1>1. /\ IsQueue(Append(q, job)) /\ Len(Append(q, job)) = Len(q) + 1
      /\ Append(q, job)[Len(q) + 1] = job
      BY QueueAppend
<1>2. /\ Len(q) \in Nat /\ DOMAIN Append(q, job) = 1 .. Len(q) + 1
      BY <1>1, QueueDomain
<1>3. \A n \in DOMAIN Append(q, job) : Len(q) + 1 >= n
      BY <1>2
<1>4. Len(q) + 1 \in DOMAIN Append(q, job)
      BY <1>2
<1> QED
    BY <1>1, <1>3, <1>4 DEF Closes

LEMMA TailQueue ==
    ASSUME NEW q, QueueOK(q), q # <<>>
    PROVE  /\ QueueOK(Tail(q)) /\ JobOK(Head(q))
           /\ DOMAIN Tail(q) = 1 .. Len(q) - 1 /\ DOMAIN q = 1 .. Len(q) /\ Len(q) \in Nat \ {0}
           /\ \A n \in 1 .. Len(q) - 1 : Tail(q)[n] = q[n + 1]
           /\ Head(q) = q[1]
<1>1. /\ IsQueue(Tail(q)) /\ Len(Tail(q)) = Len(q) - 1
      /\ \A n \in 1 .. Len(q) - 1 : Tail(q)[n] = q[n + 1]
      /\ Head(q) = q[1]
      BY QueueTail DEF QueueOK
<1>2. /\ Len(q) \in Nat \ {0} /\ DOMAIN q = 1 .. Len(q)
      /\ DOMAIN Tail(q) = 1 .. Len(q) - 1
      BY <1>1, QueueDomain DEF QueueOK
<1>3. \A n \in DOMAIN Tail(q) : n + 1 \in DOMAIN q /\ Tail(q)[n] = q[n + 1]
      BY <1>1, <1>2
<1>4. 1 \in DOMAIN q
      BY <1>2
<1> QED
    BY <1>1, <1>2, <1>3, <1>4 DEF QueueOK

LEMMA TailCloses ==
    ASSUME NEW q, QueueOK(q), q # <<>>, Closes(q)
    PROVE  Closes(Tail(q))
<1>1. /\ DOMAIN Tail(q) = 1 .. Len(q) - 1 /\ DOMAIN q = 1 .. Len(q) /\ Len(q) \in Nat \ {0}
      /\ \A n \in 1 .. Len(q) - 1 : Tail(q)[n] = q[n + 1]
      BY TailQueue
<1>2. ASSUME NEW n \in DOMAIN Tail(q), Tail(q)[n].op # "broadcast"
      PROVE  \E m \in DOMAIN Tail(q) : m >= n /\ Tail(q)[m].op = "closed"
  <2>1. n + 1 \in DOMAIN q /\ q[n + 1].op # "broadcast"
        BY <1>1, <1>2
  <2>2. PICK m \in DOMAIN q : m >= n + 1 /\ q[m].op = "closed"
        BY <2>1 DEF Closes
  <2>3. m - 1 \in DOMAIN Tail(q) /\ m - 1 >= n /\ Tail(q)[m - 1] = q[m]
    <3>1. m - 1 \in 1 .. Len(q) - 1 /\ m - 1 + 1 = m /\ m - 1 >= n
          BY <1>1, <2>2
    <3>2. Tail(q)[m - 1] = q[m - 1 + 1]
          BY <1>1, <3>1
    <3> QED
        BY <1>1, <3>1, <3>2
  <2> QED
      BY <2>2, <2>3
<1> QED
    BY <1>2 DEF Closes

(* While a message of a client waits, onClosed is still to come.           *)
LEMMA JobWillClose ==
    ASSUME NEW conn, ConnOK(conn), conn.doc # NoDoc, conn.queue # <<>>,
           Head(conn.queue).op \notin {"broadcast", "closed"}
    PROVE  \/ conn.status \in {"open", "closing"}
           \/ \E n \in DOMAIN Tail(conn.queue) : Tail(conn.queue)[n].op = "closed"
<1> DEFINE q == conn.queue
<1>1. CASE conn.status = "closed"
  <2>1. /\ DOMAIN Tail(q) = 1 .. Len(q) - 1 /\ DOMAIN q = 1 .. Len(q) /\ Len(q) \in Nat \ {0}
        /\ \A n \in 1 .. Len(q) - 1 : Tail(q)[n] = q[n + 1]
        /\ Head(q) = q[1]
        BY TailQueue DEF ConnOK
  <2>2. 1 \in DOMAIN q /\ q[1].op # "broadcast" /\ q[1].op # "closed"
        BY <2>1
  <2>3. Closes(q)
        BY <1>1 DEF ConnOK
  <2> HIDE DEF q
  <2>4. PICK m \in DOMAIN q : m >= 1 /\ q[m].op = "closed"
        BY <2>2, <2>3 DEF Closes
  <2>5. m # 1
        BY <2>2, <2>4
  <2>6. m - 1 \in 1 .. Len(q) - 1 /\ m - 1 + 1 = m
        BY <2>1, <2>4, <2>5
  <2>7. Tail(q)[m - 1] = q[m - 1 + 1]
        BY <2>1, <2>6
  <2>8. m - 1 \in DOMAIN Tail(q) /\ Tail(q)[m - 1].op = "closed"
        BY <2>1, <2>4, <2>6, <2>7
  <2> QED
      BY <2>8 DEF q
<1>2. CASE conn.status # "closed"
  <2>1. conn.status \in {"none", "open", "closing", "closed"} /\ conn.status # "none"
        BY DEF ConnOK
  <2> QED
      BY <1>2, <2>1
<1> QED
    BY <1>1, <1>2

(* Other connections get jobs.                                             *)
LEMMA PushConn ==
    ASSUME NEW conn, ConnOK(conn), conn.doc # NoDoc, NEW jobs, QueueOK(jobs),
           \A n \in DOMAIN jobs : jobs[n].op = "broadcast",
           NEW new, new = [conn EXCEPT !.queue = @ \o jobs]
    PROVE  /\ new = Becomes(conn, conn.status, conn.authenticated, conn.cursor, conn.clients,
                            conn.queue \o jobs, conn.sent, conn.peers)
           /\ ConnOK(new)
<1>1. new = Becomes(conn, conn.status, conn.authenticated, conn.cursor, conn.clients,
                    conn.queue \o jobs, conn.sent, conn.peers)
      BY DEF ConnOK, Becomes
<1>2. QueueOK(conn.queue \o jobs)
      BY PushedQueue DEF ConnOK
<1>3. conn.status = "closed" => Closes(conn.queue \o jobs)
      BY PushedCloses DEF ConnOK, QueueOK
<1>4. ConnOK(Becomes(conn, conn.status, conn.authenticated, conn.cursor, conn.clients,
                     conn.queue \o jobs, conn.sent, conn.peers))
  <2>1. /\ conn.status \in {"open", "closing", "closed"}
        /\ conn.authenticated \in BOOLEAN /\ conn.cursor \in Nat
        /\ conn.clients \subseteq ClientId /\ IsFiniteSet(conn.clients)
        /\ conn.peers \subseteq ClientId
        /\ conn.clients # {} => conn.authenticated
        /\ conn.peers # {} => conn.authenticated
        /\ IsQueue(conn.sent) /\ Elements(conn.sent) \subseteq Ref
        BY DEF ConnOK
  <2> QED
      BY <1>2, <1>3, <2>1, BecomesOK
<1> QED
    BY <1>1, <1>4

-----------------------------------------------------------------------------
(* Clients that are gone: what a step makes of a connection.               *)

LEMMA LeavePushed ==
    ASSUME NEW q, QueueOK(q), NEW jobs, QueueOK(jobs), NEW n, NEW s, NEW p,
           LeaveAfter(q, n, s, p)
    PROVE  LeaveAfter(q \o jobs, n, s, p)
<1>1. PICK m \in DOMAIN q : m > n /\ IsAbout(q[m], "client-leave", s, p)
      BY DEF LeaveAfter
<1>2. m \in DOMAIN (q \o jobs) /\ (q \o jobs)[m] = q[m]
  <2>1. /\ IsQueue(q) /\ IsQueue(jobs) /\ Len(q) \in Nat /\ Len(jobs) \in Nat
        /\ DOMAIN q = 1 .. Len(q)
        BY QueueDomain DEF QueueOK
  <2>2. /\ IsQueue(q \o jobs) /\ Len(q \o jobs) = Len(q) + Len(jobs)
        /\ (q \o jobs)[m] = q[m]
        BY <2>1, QueueConcat
  <2>3. DOMAIN (q \o jobs) = 1 .. Len(q \o jobs)
        BY <2>2, QueueDomain
  <2> QED
      BY <2>1, <2>2, <2>3
<1> QED
    BY <1>1, <1>2 DEF LeaveAfter

LEMMA LeaveAppended ==
    ASSUME NEW q, QueueOK(q), NEW job, NEW n, NEW s, NEW p, LeaveAfter(q, n, s, p)
    PROVE  LeaveAfter(Append(q, job), n, s, p)
<1>1. PICK m \in DOMAIN q : m > n /\ IsAbout(q[m], "client-leave", s, p)
      BY DEF LeaveAfter
<1>2. m \in DOMAIN Append(q, job) /\ Append(q, job)[m] = q[m]
      BY <1>1, QueueAppend, QueueDomain DEF QueueOK
<1> QED
    BY <1>1, <1>2 DEF LeaveAfter

LEMMA LeaveTail ==
    ASSUME NEW q, QueueOK(q), q # <<>>, NEW n \in Nat, NEW s, NEW p,
           LeaveAfter(q, n, s, p), n = 0 => ~IsAbout(Head(q), "client-leave", s, p)
    PROVE  LeaveAfter(Tail(q), IF n = 0 THEN 0 ELSE n - 1, s, p)
<1>1. /\ DOMAIN Tail(q) = 1 .. Len(q) - 1 /\ DOMAIN q = 1 .. Len(q) /\ Len(q) \in Nat \ {0}
      /\ \A m \in 1 .. Len(q) - 1 : Tail(q)[m] = q[m + 1]
      /\ Head(q) = q[1]
      BY TailQueue
<1>2. PICK m \in DOMAIN q : m > n /\ IsAbout(q[m], "client-leave", s, p)
      BY DEF LeaveAfter
<1>3. m # 1
      BY <1>1, <1>2
<1>4. m - 1 \in 1 .. Len(q) - 1 /\ m - 1 + 1 = m /\ m - 1 > (IF n = 0 THEN 0 ELSE n - 1)
      BY <1>1, <1>2, <1>3
<1>5. Tail(q)[m - 1] = q[m]
  <2>1. Tail(q)[m - 1] = q[m - 1 + 1]
        BY <1>1, <1>4
  <2> QED
      BY <1>4, <2>1
<1> QED
    BY <1>1, <1>2, <1>4, <1>5 DEF LeaveAfter

(* The jobs of a connection of store s tell one of another store of the    *)
(* clients that others have no longer to announce; joins are of others.    *)
Announces(jobs, s, store, living, living2) ==
    /\ \A p \in living \ living2 :
          s # store
              /\ \E n \in DOMAIN jobs : jobs[n].event = [op |-> "client-leave", client |-> p]
    /\ s # store => \A n \in DOMAIN jobs, p \in ClientId :
          jobs[n].event = [op |-> "client-join", client |-> p] => p \in living2

(* Another connection gets jobs of a connection of store s.                *)
LEMMA PushGhost ==
    ASSUME NEW conn, NEW jobs, NEW s, NEW living, NEW living2, NEW new,
           ConnOK(conn), QueueOK(jobs),
           new.queue = conn.queue \o jobs, new.store = conn.store, new.peers = conn.peers,
           \A n \in DOMAIN jobs : jobs[n].from = s /\ jobs[n].op = "broadcast",
           Announces(jobs, s, conn.store, living, living2),
           GhostOK(conn, living)
    PROVE  GhostOK(new, living2)
<1> DEFINE q == conn.queue
           all == q \o jobs
           st == conn.store
<1>1. /\ QueueOK(q) /\ Len(q) \in Nat /\ DOMAIN q = 1 .. Len(q)
      /\ Len(jobs) \in Nat /\ DOMAIN jobs = 1 .. Len(jobs)
      BY QueueDomain DEF ConnOK, QueueOK
<1>2. /\ Len(all) = Len(q) + Len(jobs) /\ DOMAIN all = 1 .. Len(all)
      /\ \A n \in 1 .. Len(q) : all[n] = q[n]
      /\ \A n \in 1 .. Len(jobs) : all[Len(q) + n] = jobs[n]
  <2>1. IsQueue(q) /\ IsQueue(jobs)
        BY <1>1 DEF QueueOK
  <2>2. /\ IsQueue(all) /\ Len(all) = Len(q) + Len(jobs)
        /\ \A n \in 1 .. Len(q) : all[n] = q[n]
        /\ \A n \in 1 .. Len(jobs) : all[Len(q) + n] = jobs[n]
        BY <2>1, QueueConcat
  <2> HIDE DEF all
  <2>3. DOMAIN all = 1 .. Len(all)
        BY <2>2, QueueDomain
  <2> QED
      BY <2>2, <2>3
<1> HIDE DEF q, all
<1>3. ASSUME NEW p \in ClientId, NEW n \in 0 .. Len(q),
             p \in living \/ LeaveAfter(q, n, st, p)
      PROVE  p \in living2 \/ LeaveAfter(all, n, st, p)
  <2>1. CASE LeaveAfter(q, n, st, p)
        BY <1>1, <2>1, LeavePushed DEF all
  <2>2. CASE p \in living2
        BY <2>2
  <2>3. CASE p \in living \ living2
    <3>1. PICK m \in DOMAIN jobs : jobs[m].event = [op |-> "client-leave", client |-> p]
          BY <2>3 DEF Announces
    <3>2. s # st
          BY <2>3 DEF Announces
    <3>3. Len(q) + m \in DOMAIN all /\ Len(q) + m > n /\ all[Len(q) + m] = jobs[m]
          BY <1>1, <1>2
    <3>4. IsAbout(all[Len(q) + m], "client-leave", st, p)
          BY <3>1, <3>2, <3>3 DEF IsAbout
    <3> QED
        BY <3>3, <3>4 DEF LeaveAfter
  <2> QED
      BY <1>3, <2>1, <2>2, <2>3
<1>4. ASSUME NEW p \in ClientId, p \in conn.peers
      PROVE  p \in living2 \/ LeaveAfter(all, 0, st, p)
  <2>1. p \in living \/ LeaveAfter(q, 0, st, p)
        BY <1>4 DEF GhostOK, q
  <2> QED
      BY <1>1, <1>3, <2>1
<1>5. ASSUME NEW p \in ClientId, NEW n \in DOMAIN all,
             IsAbout(all[n], "client-join", st, p)
      PROVE  p \in living2 \/ LeaveAfter(all, n, st, p)
  <2>1. CASE n \in 1 .. Len(q)
    <3>1. IsAbout(q[n], "client-join", st, p)
          BY <1>2, <1>5, <2>1
    <3>2. p \in living \/ LeaveAfter(q, n, st, p)
          BY <1>1, <2>1, <3>1 DEF GhostOK, q
    <3> QED
        BY <1>3, <2>1, <3>2
  <2>2. CASE n \notin 1 .. Len(q)
    <3>1. n - Len(q) \in DOMAIN jobs /\ n = Len(q) + (n - Len(q))
          BY <1>1, <1>2, <2>2
    <3>2. all[n] = jobs[n - Len(q)]
          BY <1>1, <1>2, <3>1
    <3>3. s # st /\ jobs[n - Len(q)].event = [op |-> "client-join", client |-> p]
          BY <1>5, <3>1, <3>2 DEF IsAbout
    <3> QED
        BY <3>1, <3>3 DEF Announces
  <2> QED
      BY <2>1, <2>2
<1> QED
    BY <1>4, <1>5 DEF GhostOK, all, q

(* A message of the client, or the close of its socket, is queued.         *)
LEMMA AppendGhost ==
    ASSUME NEW conn, ConnOK(conn), NEW job, job.op # "broadcast", NEW living, NEW living2,
           living \subseteq living2, NEW new,
           new.queue = Append(conn.queue, job), new.store = conn.store, new.peers = conn.peers,
           GhostOK(conn, living)
    PROVE  GhostOK(new, living2)
<1> DEFINE q == conn.queue
           all == Append(q, job)
           st == conn.store
<1>1. /\ QueueOK(q) /\ Len(q) \in Nat /\ DOMAIN q = 1 .. Len(q) /\ DOMAIN all = 1 .. Len(q) + 1
      /\ \A n \in 1 .. Len(q) : all[n] = q[n]
      /\ all[Len(q) + 1] = job
      BY QueueDomain, QueueAppend DEF ConnOK, QueueOK
<1> HIDE DEF q, all
<1>2. ASSUME NEW p \in ClientId, NEW n,
             p \in living \/ LeaveAfter(q, n, st, p)
      PROVE  p \in living2 \/ LeaveAfter(all, n, st, p)
      BY <1>1, <1>2, LeaveAppended DEF all
<1>3. ASSUME NEW p \in ClientId, p \in conn.peers
      PROVE  p \in living2 \/ LeaveAfter(all, 0, st, p)
  <2>1. p \in living \/ LeaveAfter(q, 0, st, p)
        BY <1>3 DEF GhostOK, q
  <2> QED
      BY <1>2, <2>1
<1>4. ASSUME NEW p \in ClientId, NEW n \in DOMAIN all,
             IsAbout(all[n], "client-join", st, p)
      PROVE  p \in living2 \/ LeaveAfter(all, n, st, p)
  <2>1. n \in DOMAIN q /\ all[n] = q[n]
        BY <1>1, <1>4 DEF IsAbout
  <2>2. p \in living \/ LeaveAfter(q, n, st, p)
        BY <1>4, <2>1 DEF GhostOK, q
  <2> QED
      BY <1>2, <2>2
<1> QED
    BY <1>3, <1>4 DEF GhostOK, all, q

(* A job of the connection is done.                                        *)
LEMMA PopGhost ==
    ASSUME NEW conn, ConnOK(conn), conn.queue # <<>>, NEW living, NEW living2,
           living \subseteq living2, NEW new,
           new.queue = Tail(conn.queue), new.store = conn.store, new.peers \subseteq ClientId,
           \A p \in ClientId :
               IsAbout(Head(conn.queue), "client-leave", conn.store, p) => p \notin new.peers,
           \A p \in new.peers :
               p \in conn.peers \/ IsAbout(Head(conn.queue), "client-join", conn.store, p),
           GhostOK(conn, living)
    PROVE  GhostOK(new, living2)
<1> DEFINE q == conn.queue
           rest == Tail(q)
           st == conn.store
<1>1. /\ QueueOK(q) /\ q # <<>>
      /\ DOMAIN rest = 1 .. Len(q) - 1 /\ DOMAIN q = 1 .. Len(q) /\ Len(q) \in Nat \ {0}
      /\ \A n \in 1 .. Len(q) - 1 : rest[n] = q[n + 1]
      /\ Head(q) = q[1]
      BY TailQueue DEF ConnOK
<1> HIDE DEF q, rest
<1>2. ASSUME NEW p \in new.peers
      PROVE  p \in living2 \/ LeaveAfter(rest, 0, st, p)
  <2>1. p \in ClientId /\ ~IsAbout(Head(q), "client-leave", st, p)
        BY DEF q
  <2>2. CASE p \in conn.peers
    <3>1. p \in living \/ LeaveAfter(q, 0, st, p)
          BY <2>1, <2>2 DEF GhostOK, q
    <3>2. LeaveAfter(q, 0, st, p) => LeaveAfter(rest, 0, st, p)
          BY <1>1, <2>1, LeaveTail DEF rest
    <3> QED
        BY <3>1, <3>2
  <2>3. CASE IsAbout(Head(q), "client-join", st, p)
    <3>1. 1 \in DOMAIN q /\ IsAbout(q[1], "client-join", st, p)
          BY <1>1, <2>3
    <3>2. p \in living \/ LeaveAfter(q, 1, st, p)
          BY <2>1, <3>1 DEF GhostOK, q
    <3>3. LeaveAfter(q, 1, st, p) => LeaveAfter(rest, 0, st, p)
      <4> SUFFICES ASSUME LeaveAfter(q, 1, st, p) PROVE LeaveAfter(rest, 0, st, p)
          OBVIOUS
      <4>1. LeaveAfter(Tail(q), IF 1 = 0 THEN 0 ELSE 1 - 1, st, p)
            BY <1>1, LeaveTail
      <4> QED
          BY <4>1 DEF rest
    <3> QED
        BY <3>2, <3>3
  <2> QED
      BY <2>2, <2>3 DEF q
<1>3. ASSUME NEW p \in ClientId, NEW n \in DOMAIN rest,
             IsAbout(rest[n], "client-join", st, p)
      PROVE  p \in living2 \/ LeaveAfter(rest, n, st, p)
  <2>1. n + 1 \in DOMAIN q /\ IsAbout(q[n + 1], "client-join", st, p) /\ n + 1 \in Nat
        BY <1>1, <1>3
  <2>2. p \in living \/ LeaveAfter(q, n + 1, st, p)
        BY <2>1 DEF GhostOK, q
  <2>3. LeaveAfter(q, n + 1, st, p) => LeaveAfter(rest, n, st, p)
    <3> SUFFICES ASSUME LeaveAfter(q, n + 1, st, p) PROVE LeaveAfter(rest, n, st, p)
        OBVIOUS
    <3>1. n \in Nat /\ n + 1 # 0 /\ n + 1 - 1 = n
          BY <1>1
    <3>2. LeaveAfter(Tail(q), IF n + 1 = 0 THEN 0 ELSE n + 1 - 1, st, p)
          BY <1>1, <2>1, <3>1, LeaveTail
    <3> QED
        BY <3>1, <3>2 DEF rest
  <2> QED
      BY <2>2, <2>3
<1> QED
    BY <1>2, <1>3 DEF GhostOK, rest, q

-----------------------------------------------------------------------------
(* What clients are sent: what a step makes of a connection.               *)

LEMMA PassedSame ==
    ASSUME NEW conn, NEW new, NEW m, NEW n,
           new.queue[m] = conn.queue[n], new.store = conn.store,
           new.authenticated = conn.authenticated
    PROVE  /\ Passes(new, new.queue[m]) <=> Passes(conn, conn.queue[n])
           /\ Passed(new, m) = Passed(conn, n)
<1>1. Passes(new, new.queue[m]) <=> Passes(conn, conn.queue[n])
      BY DEF Passes
<1>2. Passed(new, m) = Passed(conn, n)
      BY <1>1 DEF Passed
<1> QED
    BY <1>1, <1>2

(* The jobs come after all that waited, and pass on no less.               *)
Pushed(conn, jobs, new) ==
    /\ \A n \in DOMAIN conn.queue :
          /\ n \in DOMAIN new.queue /\ new.queue[n] = conn.queue[n]
          /\ (Passes(new, new.queue[n]) <=> Passes(conn, conn.queue[n]))
          /\ PassedBefore(conn, n) \subseteq PassedBefore(new, n)
    /\ \A n \in DOMAIN jobs :
          /\ Len(conn.queue) + n \in DOMAIN new.queue
          /\ new.queue[Len(conn.queue) + n] = jobs[n]
          /\ AllPassed(conn) \subseteq PassedBefore(new, Len(conn.queue) + n)
    /\ \A n \in DOMAIN new.queue :
          n \in DOMAIN conn.queue \/ n - Len(conn.queue) \in DOMAIN jobs
    /\ AllPassed(conn) \subseteq AllPassed(new)
    /\ Len(conn.queue) \in Nat /\ DOMAIN conn.queue = 1 .. Len(conn.queue)
    /\ DOMAIN jobs \subseteq Nat

(* Jobs that come later take nothing away.                                 *)
LEMMA PassedPushed ==
    ASSUME NEW conn, ConnOK(conn), NEW jobs, QueueOK(jobs), NEW new,
           new.queue = conn.queue \o jobs, new.store = conn.store,
           new.authenticated = conn.authenticated
    PROVE  Pushed(conn, jobs, new)
<1> DEFINE q == conn.queue
           all == q \o jobs
<1>1. /\ IsQueue(q) /\ IsQueue(jobs)
      /\ Len(q) \in Nat /\ DOMAIN q = 1 .. Len(q)
      /\ Len(jobs) \in Nat /\ DOMAIN jobs = 1 .. Len(jobs)
      BY QueueDomain DEF ConnOK, QueueOK
<1>2. /\ IsQueue(all) /\ Len(all) = Len(q) + Len(jobs)
      /\ \A n \in 1 .. Len(q) : all[n] = q[n]
      /\ \A n \in 1 .. Len(jobs) : all[Len(q) + n] = jobs[n]
      BY <1>1, QueueConcat
<1>3. new.queue = all
      OBVIOUS
<1> HIDE DEF q, all
<1>4. DOMAIN all = 1 .. Len(q) + Len(jobs)
      BY <1>2, QueueDomain
<1>5. \A n \in DOMAIN q : n \in DOMAIN all /\ all[n] = q[n]
      BY <1>1, <1>2, <1>4
<1>6. \A n \in DOMAIN q : /\ (Passes(new, new.queue[n]) <=> Passes(conn, conn.queue[n]))
                          /\ Passed(new, n) = Passed(conn, n)
  <2> TAKE n \in DOMAIN q
  <2>1. new.queue[n] = conn.queue[n]
        BY <1>3, <1>5 DEF q
  <2>2. new.store = conn.store /\ new.authenticated = conn.authenticated
        OBVIOUS
  <2>3. (Passes(new, new.queue[n]) <=> Passes(conn, conn.queue[n]))
        BY <2>1, <2>2, PassedSame
  <2>4. Passed(new, n) = Passed(conn, n)
        BY <2>1, <2>2, PassedSame
  <2> QED
      BY <2>3, <2>4
<1>7. ASSUME NEW n \in DOMAIN q
      PROVE  PassedBefore(conn, n) \subseteq PassedBefore(new, n)
  <2>1. ASSUME NEW x \in PassedBefore(conn, n) PROVE x \in PassedBefore(new, n)
    <3>1. PICK m \in DOMAIN q : m < n /\ x \in Passed(conn, m)
          BY DEF PassedBefore, q
    <3>2. m \in DOMAIN new.queue /\ m < n /\ x \in Passed(new, m)
          BY <1>3, <1>5, <1>6, <3>1
    <3> QED
        BY <3>2 DEF PassedBefore
  <2> QED
      BY <2>1
<1>8. ASSUME NEW n \in DOMAIN jobs
      PROVE  AllPassed(conn) \subseteq PassedBefore(new, Len(q) + n)
  <2>1. ASSUME NEW x \in AllPassed(conn) PROVE x \in PassedBefore(new, Len(q) + n)
    <3>1. PICK m \in DOMAIN q : x \in Passed(conn, m)
          BY DEF AllPassed, q
    <3>2. m \in DOMAIN new.queue /\ m < Len(q) + n /\ x \in Passed(new, m)
          BY <1>1, <1>3, <1>5, <1>6, <3>1
    <3> QED
        BY <3>2 DEF PassedBefore
  <2> QED
      BY <2>1
<1>9. AllPassed(conn) \subseteq AllPassed(new)
  <2>1. ASSUME NEW x \in AllPassed(conn) PROVE x \in AllPassed(new)
    <3>1. PICK m \in DOMAIN q : x \in Passed(conn, m)
          BY DEF AllPassed, q
    <3>2. m \in DOMAIN new.queue /\ x \in Passed(new, m)
          BY <1>3, <1>5, <1>6, <3>1
    <3> QED
        BY <3>2 DEF AllPassed
  <2> QED
      BY <2>1
<1>10. \A n \in DOMAIN all : n \in DOMAIN q \/ n - Len(q) \in DOMAIN jobs
      BY <1>1, <1>4
<1>11. \A n \in DOMAIN jobs : Len(q) + n \in DOMAIN all /\ all[Len(q) + n] = jobs[n]
      BY <1>1, <1>2, <1>4
<1> QED
    BY <1>1, <1>3, <1>5, <1>6, <1>7, <1>8, <1>9, <1>10, <1>11 DEF q, Pushed

(* The jobs pass on these commits.                                         *)
TellsAll(jobs, refs) ==
    \A r \in refs : \E n \in DOMAIN jobs :
        Carries(jobs[n]) /\ r \in Elements(jobs[n].event.commits)

(* The jobs come from store s, which has the fresh commits.                *)
ComeFrom(jobs, s, store, fresh, mine) ==
    /\ \A n \in DOMAIN jobs : jobs[n].from = s
    /\ s = store => fresh \subseteq mine

LEMMA PushGap ==
    ASSUME NEW conn, NEW jobs, NEW s, NEW new,
           NEW table, NEW table2, NEW mine, NEW mine2, NEW fresh,
           ConnOK(conn), QueueOK(jobs),
           new.queue = conn.queue \o jobs, new.store = conn.store,
           new.authenticated = conn.authenticated, new.cursor = conn.cursor,
           new.sent = conn.sent,
           ComeFrom(jobs, s, conn.store, fresh, mine2),
           mine \subseteq mine2,
           NewerRefs(table2, conn.cursor) \subseteq NewerRefs(table, conn.cursor) \cup fresh,
           TellsAll(jobs, fresh),
           GapOK(conn, table, mine)
    PROVE  GapOK(new, table2, mine2)
<1> SUFFICES ASSUME conn.authenticated,
                    NEW r \in NewerRefs(table2, conn.cursor), r \notin Elements(conn.sent),
                    r \notin mine2
             PROVE  r \in AllPassed(new)
    BY DEF GapOK
<1>0. Pushed(conn, jobs, new)
      BY PassedPushed
<1>1. AllPassed(conn) \subseteq AllPassed(new)
      BY <1>0 DEF Pushed
<1>2. CASE r \in NewerRefs(table, conn.cursor)
      BY <1>1, <1>2 DEF GapOK
<1>3. CASE r \in fresh
  <2>1. PICK n \in DOMAIN jobs : Carries(jobs[n]) /\ r \in Elements(jobs[n].event.commits)
        BY <1>3 DEF TellsAll
  <2>2. s # conn.store /\ jobs[n].from = s
        BY <1>3 DEF ComeFrom
  <2> DEFINE m == Len(conn.queue) + n
  <2>3. m \in DOMAIN new.queue /\ new.queue[m] = jobs[n]
        BY <1>0 DEF Pushed
  <2> HIDE DEF m
  <2>4. Passes(new, new.queue[m])
        BY <2>1, <2>2, <2>3 DEF Passes
  <2>5. r \in Passed(new, m)
        BY <2>1, <2>3, <2>4 DEF Passed
  <2> QED
      BY <2>3, <2>5 DEF AllPassed
<1> QED
    BY <1>2, <1>3

LEMMA PushOrder ==
    ASSUME NEW conn, ConnOK(conn), NEW jobs, QueueOK(jobs), NEW new,
           NEW table, NEW table2, NEW mine, NEW mine2,
           new.queue = conn.queue \o jobs, new.store = conn.store,
           new.authenticated = conn.authenticated, new.cursor = conn.cursor,
           new.sent = conn.sent,
           mine \subseteq mine2,
           OldRefs(table, conn.cursor) \subseteq OldRefs(table2, conn.cursor),
           RefsOf(table) \subseteq RefsOf(table2),
           RefsOf(table) \subseteq OldRefs(table, conn.cursor) \cup NewerRefs(table, conn.cursor),
           \A n \in DOMAIN jobs : Carries(jobs[n]) =>
               \A i \in DOMAIN jobs[n].event.commits :
                   /\ ParentsOf(jobs[n].event.commits[i]) \subseteq RefsOf(table2)
                   /\ ParentsOf(jobs[n].event.commits[i]) \subseteq
                          Before(jobs[n].event.commits, i) \cup RefsOf(table),
           GapOK(conn, table, mine),
           OrderOK(conn, table, mine)
    PROVE  OrderOK(new, table2, mine2)
<1> DEFINE known == mine \cup OldRefs(table, conn.cursor)
           known2 == mine2 \cup OldRefs(table2, conn.cursor)
           q == conn.queue
<1>1. known \subseteq known2
      OBVIOUS
<1>5. Pushed(conn, jobs, new)
      BY PassedPushed
<1>0. \A k \in DOMAIN jobs :
          /\ new.queue[Len(conn.queue) + k] = jobs[k]
          /\ AllPassed(conn) \subseteq PassedBefore(new, Len(conn.queue) + k)
  <2> TAKE k \in DOMAIN jobs
  <2>1. new.queue[Len(conn.queue) + k] = jobs[k]
        BY <1>5 DEF Pushed
  <2>2. AllPassed(conn) \subseteq PassedBefore(new, Len(conn.queue) + k)
        BY <1>5 DEF Pushed
  <2> QED
      BY <2>1, <2>2
<1>2. \A n \in DOMAIN new.sent :
          ParentsOf(new.sent[n]) \subseteq Before(new.sent, n) \cup known2
      BY <1>1 DEF OrderOK
<1>3. ASSUME NEW n \in DOMAIN new.queue, Carries(new.queue[n]),
             NEW i \in DOMAIN new.queue[n].event.commits
      PROVE  ParentsOf(new.queue[n].event.commits[i]) \subseteq RefsOf(table2)
  <2>1. CASE n \in DOMAIN q
    <3>1. new.queue[n] = q[n]
          BY <2>1, <1>5 DEF Pushed
    <3>2. ParentsOf(q[n].event.commits[i]) \subseteq RefsOf(table)
          BY <1>3, <2>1, <3>1 DEF OrderOK
    <3> QED
        BY <3>1, <3>2
  <2>2. CASE n \notin DOMAIN q
    <3>1. /\ n - Len(q) \in DOMAIN jobs /\ Len(q) \in Nat /\ DOMAIN jobs \subseteq Nat
          /\ n \in Int
      <4>1. IsQueue(new.queue)
            BY QueueConcat DEF ConnOK, QueueOK
      <4>2. n \in Int
            BY <4>1, QueueDomain
      <4>3. n - Len(q) \in DOMAIN jobs /\ Len(q) \in Nat /\ DOMAIN jobs \subseteq Nat
            BY <2>2, <1>5 DEF Pushed
      <4> QED
          BY <4>2, <4>3
    <3>2. PICK k \in DOMAIN jobs : n = Len(q) + k
          BY <3>1
    <3>3. new.queue[Len(q) + k] = jobs[k]
          BY <1>0
    <3>4. new.queue[n] = jobs[k]
          BY <3>2, <3>3
    <3>5. ParentsOf(jobs[k].event.commits[i]) \subseteq RefsOf(table2)
          BY <1>3, <3>4
    <3> QED
        BY <3>4, <3>5
  <2> QED
      BY <2>1, <2>2
<1>4. ASSUME NEW n \in DOMAIN new.queue, Passes(new, new.queue[n]),
             NEW i \in DOMAIN new.queue[n].event.commits
      PROVE  ParentsOf(new.queue[n].event.commits[i]) \subseteq
                 Before(new.queue[n].event.commits, i)
                     \cup Elements(new.sent) \cup known2 \cup PassedBefore(new, n)
  <2>1. CASE n \in DOMAIN q
    <3>1. /\ new.queue[n] = q[n] /\ Passes(conn, q[n])
          /\ PassedBefore(conn, n) \subseteq PassedBefore(new, n)
          BY <1>4, <2>1, <1>5 DEF Pushed
    <3>2. ParentsOf(q[n].event.commits[i]) \subseteq
              Before(q[n].event.commits, i) \cup Elements(conn.sent) \cup known
                  \cup PassedBefore(conn, n)
          BY <1>4, <2>1, <3>1 DEF OrderOK
    <3> QED
        BY <1>1, <3>1, <3>2
  <2>2. CASE n \notin DOMAIN q
    <3>1. /\ n - Len(q) \in DOMAIN jobs /\ Len(q) \in Nat /\ DOMAIN jobs \subseteq Nat
          /\ n \in Int
      <4>1. IsQueue(new.queue)
            BY QueueConcat DEF ConnOK, QueueOK
      <4>2. n \in Int
            BY <4>1, QueueDomain
      <4>3. n - Len(q) \in DOMAIN jobs /\ Len(q) \in Nat /\ DOMAIN jobs \subseteq Nat
            BY <2>2, <1>5 DEF Pushed
      <4> QED
          BY <4>2, <4>3
    <3>2. PICK k \in DOMAIN jobs : n = Len(q) + k
          BY <3>1
    <3>3. /\ new.queue[Len(q) + k] = jobs[k]
          /\ AllPassed(conn) \subseteq PassedBefore(new, Len(q) + k)
          BY <1>0
    <3>4. new.queue[n] = jobs[k] /\ AllPassed(conn) \subseteq PassedBefore(new, n)
          BY <3>2, <3>3
    <3>5. Carries(jobs[k]) /\ conn.authenticated
          BY <1>4, <3>4 DEF Passes
    <3>6. ParentsOf(new.queue[n].event.commits[i]) \subseteq
              Before(new.queue[n].event.commits, i) \cup RefsOf(table)
          BY <1>4, <3>4, <3>5
    <3>7. RefsOf(table) \subseteq known \cup Elements(conn.sent) \cup AllPassed(conn)
          BY <3>5 DEF GapOK
    <3> QED
        BY <1>1, <3>4, <3>6, <3>7
  <2> QED
      BY <2>1, <2>2
<1> QED
    BY <1>2, <1>3, <1>4 DEF OrderOK

-----------------------------------------------------------------------------
(* A message, or the close of the socket, is queued.                       *)

LEMMA NotCarried ==
    ASSUME NEW conn, NEW n, conn.queue[n].op # "broadcast"
    PROVE  ~Carries(conn.queue[n]) /\ ~Passes(conn, conn.queue[n]) /\ Passed(conn, n) = {}
BY DEF Carries, Passes, Passed

LEMMA AppendAsPush ==
    ASSUME NEW q, QueueOK(q), NEW job, JobOK(job), job.op # "broadcast"
    PROVE  /\ Append(q, job) = q \o <<job>>
           /\ QueueOK(<<job>>) /\ DOMAIN <<job>> = {1}
           /\ ~Carries(<<job>>[1])
<1>1. Append(q, job) = q \o <<job>>
  <2>1. PICK S : q \in Seq(S)
        BY DEF QueueOK, IsQueue
  <2>2. q \in Seq(S \cup {job}) /\ job \in S \cup {job}
        BY <2>1
  <2> QED
      BY <2>2
<1>2. IsQueue(<<job>>) /\ DOMAIN <<job>> = {1} /\ <<job>>[1] = job
  <2>1. <<job>> \in Seq({job}) /\ Len(<<job>>) = 1 /\ <<job>>[1] = job
        OBVIOUS
  <2>2. DOMAIN <<job>> = 1 .. Len(<<job>>)
        OBVIOUS
  <2>3. DOMAIN <<job>> = {1}
        BY <2>1, <2>2
  <2>4. IsQueue(<<job>>)
        BY <2>1 DEF IsQueue
  <2> QED
      BY <2>1, <2>3, <2>4
<1>3. ~Carries(job)
      BY DEF Carries
<1> QED
    BY <1>1, <1>2, <1>3 DEF QueueOK

-----------------------------------------------------------------------------
(* A job of the connection is done.                                        *)

LEMMA PassedPopped ==
    ASSUME NEW conn, ConnOK(conn), conn.queue # <<>>, NEW new,
           new.queue = Tail(conn.queue), new.store = conn.store,
           new.authenticated = conn.authenticated
    PROVE  /\ \A n \in DOMAIN new.queue :
                 /\ n + 1 \in DOMAIN conn.queue /\ new.queue[n] = conn.queue[n + 1]
                 /\ (Passes(new, new.queue[n]) <=> Passes(conn, conn.queue[n + 1]))
                 /\ PassedBefore(conn, n + 1) \subseteq Passed(conn, 1) \cup PassedBefore(new, n)
           /\ AllPassed(conn) \subseteq Passed(conn, 1) \cup AllPassed(new)
           /\ Head(conn.queue) = conn.queue[1] /\ 1 \in DOMAIN conn.queue
           /\ PassedBefore(conn, 1) = {}
<1> DEFINE q == conn.queue
           rest == Tail(q)
<1>1. /\ QueueOK(q) /\ q # <<>>
      /\ DOMAIN rest = 1 .. Len(q) - 1 /\ DOMAIN q = 1 .. Len(q) /\ Len(q) \in Nat \ {0}
      /\ \A n \in 1 .. Len(q) - 1 : rest[n] = q[n + 1]
      /\ Head(q) = q[1]
      BY TailQueue DEF ConnOK
<1>2. new.queue = rest
      OBVIOUS
<1> HIDE DEF q, rest
<1>3. ASSUME NEW n \in DOMAIN rest
      PROVE  /\ n + 1 \in DOMAIN q /\ rest[n] = q[n + 1]
             /\ (Passes(new, rest[n]) <=> Passes(conn, q[n + 1]))
             /\ Passed(new, n) = Passed(conn, n + 1)
  <2>1. n + 1 \in DOMAIN q /\ rest[n] = q[n + 1]
        BY <1>1
  <2>2. new.queue[n] = conn.queue[n + 1]
        BY <1>2, <2>1 DEF q
  <2>3. new.store = conn.store /\ new.authenticated = conn.authenticated
        OBVIOUS
  <2>4. Passes(new, new.queue[n]) <=> Passes(conn, conn.queue[n + 1])
        BY <2>2, <2>3, PassedSame
  <2>5. Passed(new, n) = Passed(conn, n + 1)
        BY <2>2, <2>4 DEF Passed
  <2> QED
      BY <1>2, <2>1, <2>4, <2>5 DEF q
<1>4. ASSUME NEW m \in DOMAIN q, NEW x \in Passed(conn, m), x \notin Passed(conn, 1)
      PROVE  m - 1 \in DOMAIN rest /\ x \in Passed(new, m - 1)
  <2>1. m # 1
        BY <1>4
  <2>2. m - 1 \in DOMAIN rest /\ m - 1 + 1 = m
        BY <1>1, <2>1
  <2>3. Passed(new, m - 1) = Passed(conn, m - 1 + 1)
        BY <1>3, <2>2
  <2> QED
      BY <1>4, <2>2, <2>3
<1>5. ASSUME NEW n \in DOMAIN rest
      PROVE  PassedBefore(conn, n + 1) \subseteq Passed(conn, 1) \cup PassedBefore(new, n)
  <2>1. ASSUME NEW x \in PassedBefore(conn, n + 1), x \notin Passed(conn, 1)
        PROVE  x \in PassedBefore(new, n)
    <3>1. PICK m \in DOMAIN q : m < n + 1 /\ x \in Passed(conn, m)
          BY <2>1 DEF PassedBefore, q
    <3>2. m - 1 \in DOMAIN new.queue /\ x \in Passed(new, m - 1)
          BY <1>2, <1>4, <2>1, <3>1
    <3>3. m - 1 < n
          BY <1>1, <3>1
    <3> QED
        BY <3>2, <3>3 DEF PassedBefore
  <2> QED
      BY <2>1
<1>6. AllPassed(conn) \subseteq Passed(conn, 1) \cup AllPassed(new)
  <2>1. ASSUME NEW x \in AllPassed(conn), x \notin Passed(conn, 1)
        PROVE  x \in AllPassed(new)
    <3>1. PICK m \in DOMAIN q : x \in Passed(conn, m)
          BY <2>1 DEF AllPassed, q
    <3>2. m - 1 \in DOMAIN new.queue /\ x \in Passed(new, m - 1)
          BY <1>2, <1>4, <2>1, <3>1
    <3> QED
        BY <3>2 DEF AllPassed
  <2> QED
      BY <2>1
<1>7. PassedBefore(conn, 1) = {}
  <2>1. \A k \in DOMAIN q : ~(k < 1)
        BY <1>1
  <2> QED
      BY <2>1 DEF PassedBefore, q
<1>8. 1 \in DOMAIN q
      BY <1>1
<1> QED
    BY <1>1, <1>2, <1>3, <1>5, <1>6, <1>7, <1>8 DEF q

LEMMA PopGap ==
    ASSUME NEW conn, ConnOK(conn), conn.queue # <<>>, NEW new,
           NEW table, NEW table2, NEW mine, NEW mine2, NEW fresh,
           new.queue = Tail(conn.queue), new.store = conn.store,
           new.authenticated = conn.authenticated, new.cursor = conn.cursor,
           Elements(conn.sent) \cup Passed(conn, 1) \subseteq Elements(new.sent),
           mine \cup fresh \subseteq mine2,
           NewerRefs(table2, conn.cursor) \subseteq NewerRefs(table, conn.cursor) \cup fresh,
           GapOK(conn, table, mine)
    PROVE  GapOK(new, table2, mine2)
<1>1. AllPassed(conn) \subseteq Passed(conn, 1) \cup AllPassed(new)
      BY PassedPopped
<1> QED
    BY <1>1 DEF GapOK

(* What it sends, if anything, is what was due.                            *)
SentParentsFirst(q, known) ==
    \A n \in DOMAIN q : ParentsOf(q[n]) \subseteq Before(q, n) \cup known

LEMMA SendsOrder ==
    ASSUME NEW sent, IsQueue(sent), NEW commits, IsQueue(commits), NEW known,
           SentParentsFirst(sent, known),
           \A n \in DOMAIN commits :
               ParentsOf(commits[n]) \subseteq Before(commits, n) \cup Elements(sent) \cup known,
           NEW all, all = sent \o commits
    PROVE  SentParentsFirst(all, known)
<1>1. /\ Len(sent) \in Nat /\ DOMAIN sent = 1 .. Len(sent)
      /\ Len(commits) \in Nat /\ DOMAIN commits = 1 .. Len(commits)
      BY QueueDomain
<1>2. /\ IsQueue(all) /\ Len(all) = Len(sent) + Len(commits)
      /\ \A n \in 1 .. Len(sent) : all[n] = sent[n]
      /\ \A n \in 1 .. Len(commits) : all[Len(sent) + n] = commits[n]
      /\ Elements(all) = Elements(sent) \cup Elements(commits)
      BY QueueConcat
<1>3. DOMAIN all = 1 .. Len(sent) + Len(commits)
      BY <1>2, QueueDomain
<1>4. ASSUME NEW n \in DOMAIN sent PROVE Before(sent, n) \subseteq Before(all, n)
  <2>1. \A m \in DOMAIN sent : m \in DOMAIN all /\ all[m] = sent[m]
        BY <1>1, <1>2, <1>3
  <2> QED
      BY <2>1 DEF Before
<1>5. ASSUME NEW k \in DOMAIN commits
      PROVE  Before(commits, k) \cup Elements(sent) \subseteq Before(all, Len(sent) + k)
  <2>1. ASSUME NEW m \in DOMAIN commits, m < k
        PROVE  commits[m] \in Before(all, Len(sent) + k)
    <3>1. Len(sent) + m \in DOMAIN all /\ Len(sent) + m < Len(sent) + k
          BY <1>1, <1>3, <2>1
    <3>2. all[Len(sent) + m] = commits[m]
          BY <1>1, <1>2
    <3> QED
        BY <3>1, <3>2 DEF Before
  <2>2. ASSUME NEW m \in DOMAIN sent PROVE sent[m] \in Before(all, Len(sent) + k)
    <3>1. m \in DOMAIN all /\ m < Len(sent) + k /\ all[m] = sent[m]
          BY <1>1, <1>2, <1>3
    <3> QED
        BY <3>1 DEF Before
  <2> QED
      BY <2>1, <2>2 DEF Before, Elements
<1>6. ASSUME NEW n \in DOMAIN all
      PROVE  ParentsOf(all[n]) \subseteq Before(all, n) \cup known
  <2>1. CASE n \in DOMAIN sent
        BY <1>1, <1>2, <1>4, <2>1 DEF SentParentsFirst
  <2>2. CASE n \notin DOMAIN sent
    <3>1. n - Len(sent) \in DOMAIN commits /\ n = Len(sent) + (n - Len(sent))
          BY <1>1, <1>3, <2>2
    <3>2. PICK k \in DOMAIN commits : n = Len(sent) + k
          BY <3>1
    <3>3. all[n] = commits[k]
          BY <1>1, <1>2, <3>2
    <3>4. Before(commits, k) \cup Elements(sent) \subseteq Before(all, n)
          BY <1>5, <3>2
    <3> QED
        BY <3>3, <3>4
  <2> QED
      BY <2>1, <2>2
<1> QED
    BY <1>6 DEF SentParentsFirst

LEMMA PopOrder ==
    ASSUME NEW conn, ConnOK(conn), conn.queue # <<>>, NEW new,
           NEW table, NEW table2, NEW mine, NEW mine2,
           new.queue = Tail(conn.queue), new.store = conn.store,
           new.authenticated = conn.authenticated, new.cursor = conn.cursor,
           \/ ~Passes(conn, Head(conn.queue)) /\ new.sent = conn.sent
           \/ /\ Passes(conn, Head(conn.queue))
              /\ new.sent = conn.sent \o Head(conn.queue).event.commits,
           mine \subseteq mine2,
           OldRefs(table, conn.cursor) \subseteq OldRefs(table2, conn.cursor),
           RefsOf(table) \subseteq RefsOf(table2),
           OrderOK(conn, table, mine)
    PROVE  OrderOK(new, table2, mine2)
<1> DEFINE known == mine \cup OldRefs(table, conn.cursor)
           known2 == mine2 \cup OldRefs(table2, conn.cursor)
           q == conn.queue
<1>1. known \subseteq known2
      OBVIOUS
<1>2. Head(q) = q[1] /\ 1 \in DOMAIN q /\ PassedBefore(conn, 1) = {}
  <2>1. Head(q) = q[1]
        BY PassedPopped
  <2>2. 1 \in DOMAIN q
        BY PassedPopped
  <2>3. PassedBefore(conn, 1) = {}
        BY PassedPopped
  <2> QED
      BY <2>1, <2>2, <2>3
<1>3. /\ \A n \in DOMAIN new.sent :
             ParentsOf(new.sent[n]) \subseteq Before(new.sent, n) \cup known
      /\ Elements(new.sent) = Elements(conn.sent) \cup Passed(conn, 1)
  <2>1. CASE ~Passes(conn, q[1])
    <3>1. new.sent = conn.sent
          BY <1>2, <2>1
    <3> QED
        BY <2>1, <3>1 DEF OrderOK, Passed
  <2>2. CASE Passes(conn, q[1])
    <3> DEFINE commits == q[1].event.commits
    <3>1. new.sent = conn.sent \o commits
          BY <1>2, <2>2
    <3>2. IsQueue(commits) /\ IsQueue(conn.sent)
      <4>1. JobOK(q[1]) /\ q[1].op = "broadcast" /\ q[1].event.op = "commits"
            BY <1>2, <2>2 DEF ConnOK, QueueOK, Passes, Carries
      <4>2. EventOK(q[1].event)
            BY <4>1 DEF JobOK
      <4> QED
          BY <4>1, <4>2 DEF EventOK, ConnOK
    <3>3. \A n \in DOMAIN commits :
              ParentsOf(commits[n]) \subseteq Before(commits, n) \cup Elements(conn.sent) \cup known
          BY <1>2, <2>2 DEF OrderOK
    <3>4. SentParentsFirst(conn.sent, known)
          BY DEF OrderOK, SentParentsFirst
    <3>5. Passed(conn, 1) = Elements(commits)
          BY <2>2 DEF Passed
    <3> HIDE DEF commits, known
    <3>6. SentParentsFirst(new.sent, known)
          BY <3>1, <3>2, <3>3, <3>4, SendsOrder
    <3>7. Elements(new.sent) = Elements(conn.sent) \cup Elements(commits)
          BY <3>1, <3>2, QueueConcat
    <3> QED
        BY <3>5, <3>6, <3>7 DEF known, SentParentsFirst
  <2> QED
      BY <2>1, <2>2
<1>4. \A n \in DOMAIN new.sent :
          ParentsOf(new.sent[n]) \subseteq Before(new.sent, n) \cup known2
      BY <1>1, <1>3
<1>5. ASSUME NEW n \in DOMAIN new.queue
      PROVE  /\ n + 1 \in DOMAIN q /\ new.queue[n] = q[n + 1]
             /\ (Passes(new, new.queue[n]) <=> Passes(conn, q[n + 1]))
             /\ PassedBefore(conn, n + 1) \subseteq Passed(conn, 1) \cup PassedBefore(new, n)
  <2>1. n + 1 \in DOMAIN q
        BY PassedPopped
  <2>2. new.queue[n] = q[n + 1]
        BY PassedPopped
  <2>3. Passes(new, new.queue[n]) <=> Passes(conn, q[n + 1])
        BY PassedPopped
  <2>4. PassedBefore(conn, n + 1) \subseteq Passed(conn, 1) \cup PassedBefore(new, n)
        BY PassedPopped
  <2> QED
      BY <2>1, <2>2, <2>3, <2>4
<1>6. ASSUME NEW n \in DOMAIN new.queue, Carries(new.queue[n]),
             NEW i \in DOMAIN new.queue[n].event.commits
      PROVE  ParentsOf(new.queue[n].event.commits[i]) \subseteq RefsOf(table2)
  <2>1. n + 1 \in DOMAIN q /\ new.queue[n] = q[n + 1]
        BY <1>5
  <2>2. ParentsOf(q[n + 1].event.commits[i]) \subseteq RefsOf(table)
        BY <1>6, <2>1 DEF OrderOK
  <2> QED
      BY <2>1, <2>2
<1>7. ASSUME NEW n \in DOMAIN new.queue, Passes(new, new.queue[n]),
             NEW i \in DOMAIN new.queue[n].event.commits
      PROVE  ParentsOf(new.queue[n].event.commits[i]) \subseteq
                 Before(new.queue[n].event.commits, i)
                     \cup Elements(new.sent) \cup known2 \cup PassedBefore(new, n)
  <2>1. n + 1 \in DOMAIN q /\ new.queue[n] = q[n + 1] /\ Passes(conn, q[n + 1])
        BY <1>5, <1>7
  <2>2. ParentsOf(q[n + 1].event.commits[i]) \subseteq
            Before(q[n + 1].event.commits, i) \cup Elements(conn.sent) \cup known
                \cup PassedBefore(conn, n + 1)
        BY <1>7, <2>1 DEF OrderOK
  <2>3. PassedBefore(conn, n + 1) \subseteq Passed(conn, 1) \cup PassedBefore(new, n)
        BY <1>5
  <2> QED
      BY <1>1, <1>3, <2>1, <2>2, <2>3
<1> QED
    BY <1>4, <1>6, <1>7 DEF OrderOK

-----------------------------------------------------------------------------
(* The table.                                                              *)

LEMMA RefsSplit ==
    ASSUME NEW table, NEW time, RowsOK(table, time), NEW cursor \in Nat
    PROVE  RefsOf(table) \subseteq OldRefs(table, cursor) \cup NewerRefs(table, cursor)
<1>1. ASSUME NEW n \in DOMAIN table
      PROVE  table[n].remoteSyncId <= cursor \/ table[n].remoteSyncId > cursor
  <2>1. table[n].remoteSyncId \in 1 .. MaxClock
        BY DEF RowsOK, Row
  <2>2. table[n].remoteSyncId \in Int
        BY <2>1, BoundAssumption
  <2> QED
      BY <2>2
<1> QED
    BY <1>1 DEF RefsOf, OldRefs, NewerRefs

LEMMA ServedBeforeOnce ==
    ASSUME NEW table, NEW time, RowsOK(table, time), NEW m \in DOMAIN table, NEW n \in DOMAIN table,
           ServedBefore(table, m, n)
    PROVE  ~ServedBefore(table, n, m)
<1>1. /\ table[m] \in Row /\ table[n] \in Row
      /\ m \in Nat /\ n \in Nat
      BY QueueDomain DEF RowsOK
<1>2. /\ table[m].remoteSyncId \in Nat /\ table[n].remoteSyncId \in Nat
      /\ table[m].remoteSyncIndex \in Nat /\ table[n].remoteSyncIndex \in Nat
      BY <1>1, BoundAssumption DEF Row
<1> QED
    BY <1>1, <1>2 DEF ServedBefore

(* init: what is read from the store is complete and in order.             *)
LEMMA ServedGap ==
    ASSUME NEW table, NEW time, RowsOK(table, time), NEW conn, NEW mine, NEW cursor,
           conn.cursor = cursor, conn.sent = GetCommitsEvent(table, cursor)
    PROVE  GapOK(conn, table, mine)
<1>1. ServesOK(table, cursor, conn.sent)
  <2>1. \A n \in DOMAIN table :
            table[n].remoteSyncId \in Nat /\ table[n].remoteSyncIndex \in Nat
        BY BoundAssumption DEF RowsOK, Row
  <2> QED
      BY <2>1, ServesRows DEF RowsOK
<1>2. Elements(conn.sent) = NewerRefs(table, cursor)
      BY <1>1 DEF ServesOK, NewerRefs, Selected, After
<1> QED
    BY <1>2 DEF GapOK

LEMMA ServedOrder ==
    ASSUME NEW table, NEW time, RowsOK(table, time), Unique(table),
           NEW conn, ConnOK(conn), conn.queue # <<>>, NEW mine, NEW mine2, NEW cursor \in Nat, NEW new,
           new.queue = Tail(conn.queue), new.cursor = cursor,
           new.sent = GetCommitsEvent(table, cursor),
           OrderOK(conn, table, mine2)
    PROVE  OrderOK(new, table, mine)
<1> DEFINE known == mine \cup OldRefs(table, cursor)
           q == conn.queue
           sent == new.sent
<1>1. ServesOK(table, cursor, sent)
  <2>1. \A n \in DOMAIN table :
            table[n].remoteSyncId \in Nat /\ table[n].remoteSyncIndex \in Nat
        BY BoundAssumption DEF RowsOK, Row
  <2> QED
      BY <2>1, ServesRows DEF RowsOK
<1>2. Elements(sent) = NewerRefs(table, cursor)
      BY <1>1 DEF ServesOK, NewerRefs, Selected, After
<1>3. RefsOf(table) \subseteq known \cup Elements(sent)
      BY <1>2, RefsSplit
<1>4. ASSUME NEW n \in DOMAIN new.queue, Carries(new.queue[n]),
             NEW i \in DOMAIN new.queue[n].event.commits
      PROVE  ParentsOf(new.queue[n].event.commits[i]) \subseteq RefsOf(table)
  <2>1. /\ QueueOK(q) /\ q # <<>>
        /\ DOMAIN Tail(q) = 1 .. Len(q) - 1 /\ DOMAIN q = 1 .. Len(q) /\ Len(q) \in Nat \ {0}
        /\ \A m \in 1 .. Len(q) - 1 : Tail(q)[m] = q[m + 1]
        BY TailQueue DEF ConnOK
  <2>2. n + 1 \in DOMAIN q /\ new.queue[n] = q[n + 1]
        BY <2>1
  <2> QED
      BY <1>4, <2>2 DEF OrderOK
<1>5. ASSUME NEW i \in DOMAIN sent
      PROVE  ParentsOf(sent[i]) \subseteq Before(sent, i) \cup known
  <2>1. PICK at \in [DOMAIN sent -> Selected(table, cursor)] :
            /\ \A k \in DOMAIN sent : sent[k] = table[at[k]].ref
            /\ \A n \in Selected(table, cursor) : \E k \in DOMAIN sent : at[k] = n
            /\ \A k, j \in DOMAIN sent : k < j => ServedBefore(table, at[k], at[j])
        BY <1>1 DEF ServesOK
  <2>2. at[i] \in DOMAIN table /\ DOMAIN table \subseteq Nat /\ DOMAIN sent \subseteq Nat
    <3>1. IsQueue(table) /\ IsQueue(sent)
          BY <1>1 DEF RowsOK, ServesOK
    <3>2. DOMAIN table \subseteq Nat
          BY <3>1, QueueDomain
    <3>3. DOMAIN sent \subseteq Nat
          BY <3>1, QueueDomain
    <3> QED
        BY <3>2, <3>3 DEF Selected
  <2>3. ASSUME NEW r \in ParentsOf(sent[i]), r \notin known
        PROVE  r \in Before(sent, i)
    <3>0. ParentsOf(table[at[i]].ref) \subseteq RefsBefore(table, at[i])
          BY <2>2 DEF RowsOK
    <3>1. PICK m \in DOMAIN table : m < at[i] /\ r = table[m].ref
          BY <2>1, <2>3, <3>0 DEF RefsBefore
    <3>2. m \in Selected(table, cursor)
      <4>1. ~(table[m].remoteSyncId <= cursor)
            BY <2>3, <3>1 DEF OldRefs
      <4>2. table[m].remoteSyncId \in 1 .. MaxClock
            BY DEF RowsOK, Row
      <4>3. table[m].remoteSyncId \in Int
            BY <4>2, BoundAssumption
      <4> QED
          BY <4>1, <4>3 DEF Selected, After
    <3>3. PICK j \in DOMAIN sent : at[j] = m
          BY <2>1, <3>2
    <3>4. sent[j] = r
          BY <2>1, <3>1, <3>3
    <3>5. ServedBefore(table, m, at[i])
          BY <2>2, <3>1 DEF RowsOK
    <3>6. j # i
          BY <2>2, <3>1, <3>3
    <3>7. ~(i < j)
      <4> SUFFICES ASSUME i < j PROVE FALSE
          OBVIOUS
      <4>1. ServedBefore(table, at[i], m)
            BY <2>1, <3>3
      <4> QED
          BY <2>2, <3>5, <4>1, ServedBeforeOnce
    <3>8. j < i
          BY <2>2, <3>6, <3>7
    <3> QED
        BY <3>4, <3>8 DEF Before
  <2> QED
      BY <2>3
<1>6. ASSUME NEW n \in DOMAIN new.queue, Passes(new, new.queue[n]),
             NEW i \in DOMAIN new.queue[n].event.commits
      PROVE  ParentsOf(new.queue[n].event.commits[i]) \subseteq
                 Before(new.queue[n].event.commits, i)
                     \cup Elements(new.sent) \cup known \cup PassedBefore(new, n)
  <2>1. Carries(new.queue[n])
        BY <1>6 DEF Passes
  <2> QED
      BY <1>3, <1>4, <1>6, <2>1
<1> QED
    BY <1>4, <1>5, <1>6 DEF OrderOK

-----------------------------------------------------------------------------
(* Adding commits.                                                         *)

(* The table has the same rows, and perhaps more.                          *)
Grows(table, table2) ==
    /\ IsQueue(table) /\ IsQueue(table2)
    /\ Len(table) <= Len(table2)
    /\ \A n \in 1 .. Len(table) : table2[n] = table[n]

LEMMA GrowsRows ==
    ASSUME NEW table, NEW table2, Grows(table, table2)
    PROVE  /\ Len(table) \in Nat /\ DOMAIN table = 1 .. Len(table)
           /\ Len(table2) \in Nat /\ DOMAIN table2 = 1 .. Len(table2)
           /\ \A n \in DOMAIN table : n \in DOMAIN table2 /\ table2[n] = table[n]
           /\ \A n \in DOMAIN table2 : n \notin DOMAIN table => n \in Later(table2, Len(table))
<1>1. /\ Len(table) \in Nat /\ DOMAIN table = 1 .. Len(table)
      /\ Len(table2) \in Nat /\ DOMAIN table2 = 1 .. Len(table2)
      BY QueueDomain DEF Grows
<1> QED
    BY <1>1 DEF Grows, Later

LEMMA GrowsRefs ==
    ASSUME NEW table, NEW table2, Grows(table, table2), NEW cursor
    PROVE  /\ RefsOf(table) \subseteq RefsOf(table2)
           /\ OldRefs(table, cursor) \subseteq OldRefs(table2, cursor)
           /\ NewerRefs(table2, cursor) \subseteq
                  NewerRefs(table, cursor) \cup NewRefs(table2, Len(table))
           /\ RefsOf(table2) = RefsOf(table) \cup NewRefs(table2, Len(table))
<1>1. /\ \A n \in DOMAIN table : n \in DOMAIN table2 /\ table2[n] = table[n]
      /\ \A n \in DOMAIN table2 : n \notin DOMAIN table => n \in Later(table2, Len(table))
      /\ \A n \in Later(table2, Len(table)) : n \in DOMAIN table2
  <2>1. /\ Len(table) \in Nat /\ DOMAIN table = 1 .. Len(table)
        /\ Len(table2) \in Nat /\ DOMAIN table2 = 1 .. Len(table2)
        BY GrowsRows
  <2> QED
      BY <2>1, GrowsRows DEF Later
<1>2. RefsOf(table) \subseteq RefsOf(table2)
      BY <1>1 DEF RefsOf
<1>3. OldRefs(table, cursor) \subseteq OldRefs(table2, cursor)
      BY <1>1 DEF OldRefs
<1>4. NewerRefs(table2, cursor) \subseteq NewerRefs(table, cursor) \cup NewRefs(table2, Len(table))
      BY <1>1 DEF NewerRefs, NewRefs
<1>5. RefsOf(table2) = RefsOf(table) \cup NewRefs(table2, Len(table))
      BY <1>1 DEF RefsOf, NewRefs
<1> QED
    BY <1>2, <1>3, <1>4, <1>5

LEMMA UniqueBefore ==
    ASSUME NEW table, NEW table2, Grows(table, table2), Unique(table2)
    PROVE  Unique(table)
<1>1. \A n \in DOMAIN table : n \in DOMAIN table2 /\ table2[n] = table[n]
      BY GrowsRows
<1> QED
    BY <1>1 DEF Unique

(* A new row is not a parent of itself.                                    *)
LEMMA NewRowsNotOwnParents ==
    ASSUME NEW old, IsQueue(old), NEW seen, NEW new, NEW refs, NEW acks, NEW id,
           TableOK(old, seen, new, refs, acks, id),
           NEW r \in NewRefs(new, Len(old)), r \notin seen
    PROVE  r \notin ParentsOf(r)
<1> SUFFICES ASSUME r \in ParentsOf(r) PROVE FALSE
    OBVIOUS
<1> DEFINE T == {m \in Later(new, Len(old)) : new[m].ref = r}
<1>1. Len(old) \in Nat /\ Len(new) \in Nat
      BY QueueDomain DEF TableOK
<1>2. T \subseteq Nat /\ T # {}
      BY <1>1 DEF Later, NewRefs
<1>3. PICK m \in T : \A n \in T : m <= n
      BY <1>2, Least
<1>4. RowOK(new, Len(old), m, seen, refs, acks, id) /\ m \in Later(new, Len(old))
      BY <1>3 DEF TableOK
<1>5. PICK k \in Later(new, Len(old)) : k < m /\ new[k].ref = r
      BY <1>3, <1>4 DEF RowOK
<1>6. k \in T /\ m <= k
      BY <1>3, <1>5
<1> QED
    BY <1>1, <1>5, <1>6 DEF Later

(* The commits that are broadcast: the acknowledged ones, of which those   *)
(* that are new come after their parents.                                  *)
EventOrder(commits, table, table2) ==
    \A i \in DOMAIN commits :
        /\ ParentsOf(commits[i]) \subseteq RefsOf(table2)
        /\ ParentsOf(commits[i]) \subseteq Before(commits, i) \cup RefsOf(table)

LEMMA BroadcastOrder ==
    ASSUME NEW table, IsQueue(table), NEW memory, memory.seenRefs \subseteq RefsOf(table),
           NEW batch, IsQueue(batch), NEW id, NEW added,
           AddsOK(table, memory, batch, id, added)
    PROVE  /\ IsQueue(added.broadcast)
           /\ Elements(added.broadcast) \subseteq Elements(batch)
           /\ added.acks \subseteq Elements(batch)
           /\ NewRefs(added.rows, Len(table)) \subseteq Elements(added.broadcast) \cap added.acks
           /\ Grows(table, added.rows)
           /\ added.memory.seenRefs \subseteq RefsOf(added.rows)
           /\ EventOrder(added.broadcast, table, added.rows)
<1> DEFINE kept == {n \in DOMAIN batch : batch[n] \in added.acks}
           b == Among(batch, kept)
           N == Elements(ValidateCommitOrder(batch).newCommits)
           fresh == NewRefs(added.rows, Len(table))
<1>1. added.broadcast = b
      BY DEF AddsOK
<1>2. kept \subseteq DOMAIN batch
      OBVIOUS
<1>3. /\ IsQueue(b) /\ Cardinality(kept) \in Nat /\ Len(b) = Cardinality(kept)
      /\ \A i \in 1 .. Cardinality(kept) : Nth(kept, i) \in kept /\ b[i] = batch[Nth(kept, i)]
      /\ \A m \in kept : \E i \in 1 .. Cardinality(kept) : Nth(kept, i) = m
      /\ \A i, j \in 1 .. Cardinality(kept) : i < j => Nth(kept, i) < Nth(kept, j)
      /\ Elements(b) = {batch[m] : m \in kept}
  <2> HIDE DEF kept
  <2> QED
      BY <1>2, AmongQueue
<1>4. N \subseteq Elements(batch)
      BY ValidCommits
<1>5. added.acks \subseteq N
      BY DEF AddsOK
<1>6. Elements(b) = added.acks
  <2>1. added.acks \subseteq Elements(batch)
        BY <1>4, <1>5
  <2>2. {batch[m] : m \in kept} = added.acks
        BY <2>1 DEF Elements
  <2> QED
      BY <1>3, <2>2
<1>7. Grows(table, added.rows)
      BY DEF AddsOK, TableOK, Grows
<1>8. /\ added.memory.seenRefs = memory.seenRefs \cup fresh
      /\ \A r \in added.acks : ParentsOf(r) \subseteq added.memory.seenRefs
      BY DEF AddsOK
<1>9. RefsOf(table) \cup fresh = RefsOf(added.rows)
      BY <1>7, GrowsRefs
<1>10. fresh \subseteq added.acks
       BY DEF AddsOK, TableOK, RowOK, NewRefs
<1>11. DOMAIN b = 1 .. Cardinality(kept) /\ DOMAIN batch \subseteq Nat
       BY <1>3, QueueDomain
<1>12. ParentsBefore(batch, N)
       BY ValidOrder
<1> HIDE DEF b, N, fresh
<1>13. ASSUME NEW i \in DOMAIN b
       PROVE  /\ ParentsOf(b[i]) \subseteq RefsOf(added.rows)
              /\ ParentsOf(b[i]) \subseteq Before(b, i) \cup RefsOf(table)
  <2>1. b[i] \in added.acks
        BY <1>6 DEF Elements
  <2>2. ParentsOf(b[i]) \subseteq memory.seenRefs \cup fresh
        BY <1>8, <2>1
  <2>3. ASSUME NEW q \in ParentsOf(b[i]), q \notin RefsOf(table)
        PROVE  q \in Before(b, i)
    <3>1. q \in fresh /\ q \notin memory.seenRefs
          BY <2>2, <2>3
    <3>2. q \notin ParentsOf(q)
      <4>1. TableOK(table, memory.seenRefs, added.rows, Elements(batch), added.acks, id)
            BY DEF AddsOK
      <4> QED
          BY <3>1, <4>1, NewRowsNotOwnParents DEF fresh
    <3> DEFINE n == Nth(kept, i)
    <3>3. n \in kept /\ b[i] = batch[n]
          BY <1>3, <1>11
    <3> HIDE DEF n
    <3>4. batch[n] \in N /\ q \in N /\ n \in DOMAIN batch
          BY <1>5, <1>10, <2>1, <3>1, <3>3
    <3>5. PICK m \in DOMAIN batch : m < n /\ batch[m] = q
          BY <1>12, <2>3, <3>2, <3>3, <3>4 DEF ParentsBefore
    <3>6. m \in kept
          BY <1>10, <3>1, <3>5
    <3>7. PICK j \in DOMAIN b : Nth(kept, j) = m
          BY <1>3, <1>11, <3>6
    <3>8. b[j] = q
          BY <1>3, <1>11, <3>5, <3>7
    <3>9. j # i /\ ~(i < j)
      <4>1. m \in Nat /\ n \in Nat /\ ~(n < m) /\ m # n
            BY <1>11, <3>4, <3>5
      <4>2. i < j => Nth(kept, i) < Nth(kept, j)
            BY <1>3, <1>11
      <4> QED
          BY <3>7, <4>1, <4>2 DEF n
    <3>10. j < i
           BY <1>3, <1>11, <3>9
    <3> QED
        BY <3>8, <3>10 DEF Before
  <2> QED
      BY <1>9, <2>2, <2>3
<1>14. EventOrder(b, table, added.rows)
       BY <1>13 DEF EventOrder
<1> QED
    BY <1>1, <1>3, <1>4, <1>5, <1>6, <1>7, <1>8, <1>9, <1>10, <1>14 DEF fresh, N

(* The table stays in order.                                               *)
LEMMA RowsStayOK ==
    ASSUME NEW table, NEW time, NEW t \in 1 .. MaxClock, RowsOK(table, time), time \in Nat, t >= time,
           NEW memory, memory.seenRefs \subseteq RefsOf(table),
           NEW batch, NEW added, IsQueue(batch), Elements(batch) \subseteq Ref,
           AddsOK(table, memory, batch, t, added)
    PROVE  RowsOK(added.rows, t)
<1> DEFINE new == added.rows
           old == Len(table)
<1>1. TableOK(table, memory.seenRefs, new, Elements(batch), added.acks, t)
      BY DEF AddsOK
<1>2. Grows(table, new)
      BY <1>1 DEF TableOK, Grows, RowsOK
<1> HIDE DEF new
<1>3. /\ old \in Nat /\ DOMAIN table = 1 .. old
      /\ Len(new) \in Nat /\ DOMAIN new = 1 .. Len(new)
      /\ \A n \in DOMAIN table : n \in DOMAIN new /\ new[n] = table[n]
      /\ \A n \in DOMAIN new : n \notin DOMAIN table => n \in Later(new, old)
      BY <1>2, GrowsRows
<1>4. \A n \in Later(new, old) : RowOK(new, old, n, memory.seenRefs, Elements(batch), added.acks, t)
      BY <1>1 DEF TableOK
<1>5. MaxClock \in Nat /\ t \in Nat
      BY BoundAssumption
<1>6. ASSUME NEW n \in Later(new, old)
      PROVE  /\ new[n].remoteSyncId = t /\ new[n].remoteSyncIndex = n - old - 1
             /\ new[n].ref \in Ref /\ new[n] \in Row
             /\ n \in DOMAIN new /\ n > old /\ n - old - 1 \in Nat
  <2>1. RowOK(new, old, n, memory.seenRefs, Elements(batch), added.acks, t)
        BY <1>4
  <2>2. n \in DOMAIN new /\ n > old /\ n - old - 1 \in Nat
        BY <1>3 DEF Later
  <2>3. new[n] = [ref |-> new[n].ref, remoteSyncId |-> t,
                  remoteSyncIndex |-> n - old - 1, main |-> new[n].main]
        BY <2>1 DEF RowOK
  <2>4. new[n].ref \in Ref /\ new[n].main \in BOOLEAN
        BY <2>1 DEF RowOK
  <2>5. new[n].remoteSyncId = t
        BY <2>3
  <2>6. new[n].remoteSyncIndex = n - old - 1
        BY <2>3
  <2>7. PICK rf \in Ref, mn \in BOOLEAN :
            new[n] = [ref |-> rf, remoteSyncId |-> t, remoteSyncIndex |-> n - old - 1, main |-> mn]
        BY <2>3, <2>4
  <2>8. new[n] \in Row
        BY <2>2, <2>7 DEF Row
  <2> QED
      BY <2>2, <2>4, <2>5, <2>6, <2>8
<1>7. \A n \in DOMAIN table : /\ table[n] \in Row /\ table[n].remoteSyncId <= time
                              /\ table[n].remoteSyncId \in Nat
      BY BoundAssumption DEF RowsOK, Row
<1>8. \A n \in DOMAIN new : new[n] \in Row /\ new[n].remoteSyncId <= t
  <2> TAKE n \in DOMAIN new
  <2>1. CASE n \in DOMAIN table
        BY <1>3, <1>5, <1>7, <2>1
  <2>2. CASE n \notin DOMAIN table
        BY <1>3, <1>5, <1>6, <2>2
  <2> QED
      BY <2>1, <2>2
<1>9. ASSUME NEW n \in DOMAIN new
      PROVE  ParentsOf(new[n].ref) \subseteq RefsBefore(new, n)
  <2>1. CASE n \in DOMAIN table
    <3>1. ParentsOf(table[n].ref) \subseteq RefsBefore(table, n)
          BY <2>1 DEF RowsOK
    <3>2. RefsBefore(table, n) \subseteq RefsBefore(new, n)
          BY <1>3 DEF RefsBefore
    <3> QED
        BY <1>3, <2>1, <3>1, <3>2
  <2>2. CASE n \notin DOMAIN table
    <3>1. n \in Later(new, old)
          BY <1>3, <2>2
    <3>2. ParentsOf(new[n].ref) \subseteq
              memory.seenRefs \cup {new[k].ref : k \in {x \in Later(new, old) : x < n}}
          BY <1>4, <3>1 DEF RowOK
    <3>3. {new[k].ref : k \in {x \in Later(new, old) : x < n}} \subseteq RefsBefore(new, n)
          BY <1>6 DEF RefsBefore
    <3>4. RefsOf(table) \subseteq RefsBefore(new, n)
      <4>1. \A k \in DOMAIN table : k < n /\ k \in DOMAIN new /\ new[k] = table[k]
            BY <1>3, <1>6, <3>1
      <4> QED
          BY <4>1 DEF RefsOf, RefsBefore
    <3> QED
        BY <3>2, <3>3, <3>4
  <2> QED
      BY <2>1, <2>2
<1>10. ASSUME NEW n \in Later(new, old)
       PROVE  /\ old + 1 \in Later(new, old)
              /\ new[old + 1].remoteSyncId = t /\ new[old + 1].remoteSyncIndex = 0
  <2>1. old + 1 \in Later(new, old)
        BY <1>3 DEF Later
  <2>2. new[old + 1].remoteSyncId = t /\ new[old + 1].remoteSyncIndex = old + 1 - old - 1
        BY <1>6, <2>1
  <2> QED
      BY <1>3, <2>1, <2>2
<1>11. ASSUME NEW n \in DOMAIN new
       PROVE  \E m \in DOMAIN new : /\ new[m].remoteSyncId = new[n].remoteSyncId
                                    /\ new[m].remoteSyncIndex = 0
  <2>1. CASE n \in DOMAIN table
    <3>1. PICK m \in DOMAIN table : /\ table[m].remoteSyncId = table[n].remoteSyncId
                                    /\ table[m].remoteSyncIndex = 0
          BY <2>1 DEF RowsOK
    <3> QED
        BY <1>3, <2>1, <3>1
  <2>2. CASE n \notin DOMAIN table
    <3>1. n \in Later(new, old)
          BY <1>3, <2>2
    <3> QED
        BY <1>6, <1>10, <3>1
  <2> QED
      BY <2>1, <2>2
<1>12. ASSUME Unique(new), NEW m \in DOMAIN new, NEW n \in DOMAIN new, m < n
       PROVE  ServedBefore(new, m, n)
  <2>1. CASE n \in DOMAIN table
    <3>1. m \in DOMAIN table
          BY <1>3, <1>12, <2>1
    <3>2. Unique(table)
          BY <1>2, <1>12, UniqueBefore
    <3>3. ServedBefore(table, m, n)
          BY <1>12, <2>1, <3>1, <3>2 DEF RowsOK
    <3>4. new[m] = table[m] /\ new[n] = table[n]
          BY <1>3, <2>1, <3>1
    <3> QED
        BY <3>3, <3>4 DEF ServedBefore
  <2>2. CASE n \notin DOMAIN table /\ m \notin DOMAIN table
    <3>1. m \in Later(new, old) /\ n \in Later(new, old)
          BY <1>3, <2>2
    <3>2. /\ new[m].remoteSyncId = t /\ new[n].remoteSyncId = t
          /\ new[m].remoteSyncIndex = m - old - 1 /\ new[n].remoteSyncIndex = n - old - 1
          BY <1>6, <3>1
    <3>3. m - old - 1 < n - old - 1
          BY <1>3, <1>12
    <3> QED
        BY <3>2, <3>3 DEF ServedBefore
  <2>3. CASE n \notin DOMAIN table /\ m \in DOMAIN table
    <3>1. n \in Later(new, old)
          BY <1>3, <2>3
    <3>2. new[n].remoteSyncId = t /\ new[m] = table[m]
          BY <1>3, <1>6, <2>3, <3>1
    <3>3. table[m].remoteSyncId <= time /\ table[m].remoteSyncId \in Nat
          BY <1>7, <2>3
    <3>4. table[m].remoteSyncId # t
      <4> SUFFICES ASSUME table[m].remoteSyncId = t PROVE FALSE
          OBVIOUS
      <4>1. PICK k \in DOMAIN table : table[k].remoteSyncId = t /\ table[k].remoteSyncIndex = 0
            BY <2>3 DEF RowsOK
      <4>2. new[k].remoteSyncId = t /\ new[k].remoteSyncIndex = 0 /\ k \in DOMAIN new
            BY <1>3, <4>1
      <4>3. /\ old + 1 \in DOMAIN new
            /\ new[old + 1].remoteSyncId = t /\ new[old + 1].remoteSyncIndex = 0
            BY <1>6, <1>10, <3>1
      <4>4. k = old + 1
            BY <1>12, <4>2, <4>3 DEF Unique
      <4> QED
          BY <1>3, <4>1, <4>4
    <3>5. new[m].remoteSyncId < new[n].remoteSyncId
          BY <1>5, <3>2, <3>3, <3>4
    <3> QED
        BY <3>5 DEF ServedBefore
  <2>4. n \in DOMAIN table \/ n \notin DOMAIN table
        OBVIOUS
  <2> QED
      BY <2>1, <2>2, <2>3, <2>4
<1>13. IsQueue(new)
       BY <1>2 DEF Grows
<1> QED
    BY <1>8, <1>9, <1>11, <1>12, <1>13 DEF RowsOK, new

-----------------------------------------------------------------------------
(* A step of a connection.                                                 *)

(* Connection c becomes conn, the connections of M get jobs.               *)
Moves(c, conn, jobs, M) ==
    /\ conns' = [o \in Conn |-> conns'[o]]
    /\ conns'[c] = conn
    /\ \A o \in Conn \ {c} :
          conns'[o] = IF o \in M THEN [conns[o] EXCEPT !.queue = @ \o jobs] ELSE conns[o]

JobsFrom(s, jobs) ==
    /\ QueueOK(jobs)
    /\ \A n \in DOMAIN jobs : jobs[n].op = "broadcast" /\ jobs[n].from = s

(* The jobs are broadcast: the other connections of the document get them. *)
Turn(c, conn, jobs, M) ==
    /\ Moves(c, conn, jobs, M)
    /\ conns[c].doc \in Conn
    /\ ConnOK(conn) /\ conn.store = conns[c].store /\ conn.doc = conns[c].doc
    /\ JobsFrom(conns[c].store, jobs)
    /\ M \subseteq docs[conns[c].doc].connections \ {c}
    /\ jobs # <<>> => M = docs[conns[c].doc].connections \ {c}
    /\ \A d \in Conn : docs'[d].connections \subseteq docs[d].connections

LEMMA MemberFacts ==
    ASSUME BaseInv, NEW d \in Conn, NEW o \in docs[d].connections
    PROVE  /\ o \in Conn /\ ConnOK(conns[o]) /\ conns[o].doc = d /\ d # NoDoc
           /\ conns[o].store \in Store /\ docs[d].open
<1>1. docs[d].connections \subseteq Conn
      BY DEF BaseInv, IInv, Shape, DocShape
<1>2. o \in Conn /\ ConnOK(conns[o]) /\ conns[o].doc = d
      BY <1>1 DEF BaseInv, LocalInv, LinkInv
<1>3. d # NoDoc
      BY NoDocAssumption
<1>4. docs[d].open
      BY DEF BaseInv, IInv, DocOpenWhileUsed
<1> QED
    BY <1>1, <1>2, <1>3, <1>4 DEF ConnOK

LEMMA TurnOthers ==
    ASSUME BaseInv, NEW c \in Conn, NEW conn, NEW jobs, NEW M, Turn(c, conn, jobs, M),
           NEW o \in Conn \ {c}
    PROVE  /\ ConnOK(conns[o]) /\ ConnOK(conns'[o])
           /\ conns'[o].store = conns[o].store /\ conns'[o].doc = conns[o].doc
           /\ conns'[o].status = conns[o].status /\ conns'[o].clients = conns[o].clients
           /\ conns'[o].peers = conns[o].peers /\ conns'[o].sent = conns[o].sent
           /\ conns'[o].cursor = conns[o].cursor
           /\ conns'[o].authenticated = conns[o].authenticated
           /\ o \in M => conns'[o].queue = conns[o].queue \o jobs
           /\ o \notin M => conns'[o] = conns[o]
<1>1. ConnOK(conns[o])
      BY DEF BaseInv, LocalInv
<1>2. CASE o \notin M
  <2>1. conns'[o] = conns[o]
        BY <1>2 DEF Turn, Moves
  <2> QED
      BY <1>1, <1>2, <2>1
<1>3. CASE o \in M
  <2> DEFINE new == [conns[o] EXCEPT !.queue = @ \o jobs]
  <2>1. conns'[o] = new
        BY <1>3 DEF Turn, Moves
  <2>2. conns[o].doc # NoDoc
        BY <1>3, MemberFacts DEF Turn
  <2>3. QueueOK(jobs) /\ \A n \in DOMAIN jobs : jobs[n].op = "broadcast"
        BY DEF Turn, JobsFrom
  <2>4. /\ new = Becomes(conns[o], conns[o].status, conns[o].authenticated, conns[o].cursor,
                         conns[o].clients, conns[o].queue \o jobs, conns[o].sent, conns[o].peers)
        /\ ConnOK(new)
    <3>1. ConnOK(new)
          BY <1>1, <2>2, <2>3, PushConn
    <3>2. new = Becomes(conns[o], conns[o].status, conns[o].authenticated, conns[o].cursor,
                        conns[o].clients, conns[o].queue \o jobs, conns[o].sent, conns[o].peers)
          BY <1>1, <2>2, <2>3, PushConn
    <3> QED
        BY <3>1, <3>2
  <2> HIDE DEF new
  <2>5. /\ new.store = conns[o].store /\ new.doc = conns[o].doc
        /\ new.status = conns[o].status /\ new.clients = conns[o].clients
        /\ new.peers = conns[o].peers /\ new.sent = conns[o].sent
        /\ new.cursor = conns[o].cursor /\ new.authenticated = conns[o].authenticated
        /\ new.queue = conns[o].queue \o jobs
        BY <2>4 DEF Becomes
  <2> QED
      BY <1>1, <1>3, <2>1, <2>4, <2>5
<1> QED
    BY <1>2, <1>3

LEMMA TurnLocal ==
    ASSUME BaseInv, NEW c \in Conn, NEW conn, NEW jobs, NEW M, Turn(c, conn, jobs, M)
    PROVE  LocalInv' /\ LinkInv'
<1>1. conns' = [o \in Conn |-> conns'[o]] /\ conns'[c] = conn
      BY DEF Turn, Moves
<1>2. ASSUME NEW o \in Conn PROVE ConnOK(conns'[o]) /\ conns'[o].doc = conns[o].doc
  <2>1. CASE o = c
        BY <1>1, <2>1 DEF Turn
  <2>2. CASE o # c
    <3>1. ConnOK(conns'[o])
          BY <2>2, TurnOthers
    <3>2. conns'[o].doc = conns[o].doc
          BY <2>2, TurnOthers
    <3> QED
        BY <3>1, <3>2
  <2> QED
      BY <2>1, <2>2
<1>3. LocalInv'
      BY <1>1, <1>2 DEF LocalInv
<1>4. LinkInv'
  <2>1. ASSUME NEW d \in Conn, NEW o \in docs'[d].connections
        PROVE  conns'[o].doc = d
    <3>1. o \in docs[d].connections
          BY DEF Turn
    <3>2. o \in Conn /\ conns[o].doc = d
          BY <3>1, MemberFacts
    <3> QED
        BY <1>2, <3>2
  <2> QED
      BY <2>1 DEF LinkInv
<1> QED
    BY <1>3, <1>4

-----------------------------------------------------------------------------
(* Clients that are gone.                                                  *)

KeepsGhost(old, new) ==
    \A living, living2 : living \subseteq living2 /\ GhostOK(old, living) => GhostOK(new, living2)

JoinsLive(conn, jobs) ==
    \A n \in DOMAIN jobs, p \in ClientId :
        jobs[n].event = [op |-> "client-join", client |-> p] =>
            p \in conn.clients /\ WillClose(conn)

LossesAnnounced(old, new, jobs) ==
    \A p \in old.clients :
        WillClose(old) /\ ~(p \in new.clients /\ WillClose(new)) =>
            \E n \in DOMAIN jobs : jobs[n].event = [op |-> "client-leave", client |-> p]

LEMMA MoreLiving ==
    ASSUME NEW conn, NEW living, NEW living2, living \subseteq living2, GhostOK(conn, living)
    PROVE  GhostOK(conn, living2)
BY DEF GhostOK

LEMMA TurnLives ==
    ASSUME BaseInv, NEW c \in Conn, NEW conn, NEW jobs, NEW M, Turn(c, conn, jobs, M),
           NEW o \in Conn \ {c}, NEW x \in Conn
    PROVE  LivesFor(conns[o], conns[x]) \subseteq LivesFor(conns'[o], conns'[x])
<1>1. conns'[x].doc = conns[x].doc /\ conns'[x].store = conns[x].store
  <2>1. CASE x = c
        BY <2>1 DEF Turn, Moves
  <2>2. CASE x # c
        BY <2>2, TurnOthers
  <2> QED
      BY <2>1, <2>2
<1>2. /\ conns'[o].doc = conns[o].doc /\ conns'[o].store = conns[o].store
      /\ conns'[o].clients = conns[o].clients /\ conns'[o].status = conns[o].status
  <2>1. conns'[o].doc = conns[o].doc
        BY TurnOthers
  <2>2. conns'[o].store = conns[o].store
        BY TurnOthers
  <2>3. conns'[o].clients = conns[o].clients
        BY TurnOthers
  <2>4. conns'[o].status = conns[o].status
        BY TurnOthers
  <2> QED
      BY <2>1, <2>2, <2>3, <2>4
<1>3. ASSUME NEW n \in DOMAIN conns[o].queue
      PROVE  n \in DOMAIN conns'[o].queue /\ conns'[o].queue[n] = conns[o].queue[n]
  <2>1. CASE o \notin M
    <3>1. conns'[o] = conns[o]
          BY <2>1, TurnOthers
    <3> QED
        BY <3>1
  <2>2. CASE o \in M
    <3>1. conns'[o].queue = conns[o].queue \o jobs
          BY <2>2, TurnOthers
    <3>2. ConnOK(conns[o])
          BY TurnOthers
    <3>3. IsQueue(conns[o].queue) /\ IsQueue(jobs)
          BY <3>2 DEF ConnOK, QueueOK, Turn, JobsFrom
    <3> DEFINE q == conns[o].queue
    <3> HIDE DEF q
    <3>4. /\ IsQueue(q \o jobs) /\ Len(q \o jobs) = Len(q) + Len(jobs)
          /\ \A i \in 1 .. Len(q) : (q \o jobs)[i] = q[i]
          BY <3>3, QueueConcat DEF q
    <3>5. /\ Len(q) \in Nat /\ Len(jobs) \in Nat /\ DOMAIN q = 1 .. Len(q)
          /\ DOMAIN (q \o jobs) = 1 .. Len(q \o jobs)
          BY <3>3, <3>4, QueueDomain DEF q
    <3>6. \A i \in DOMAIN q : i \in DOMAIN (q \o jobs) /\ (q \o jobs)[i] = q[i]
          BY <3>4, <3>5
    <3> QED
        BY <3>1, <3>6 DEF q
  <2> QED
      BY <2>1, <2>2
<1>4. WillClose(conns[o]) => WillClose(conns'[o])
      BY <1>2, <1>3 DEF WillClose
<1> QED
    BY <1>1, <1>2, <1>4 DEF LivesFor

LEMMA TurnGhost ==
    ASSUME BaseInv, GhostInv, NEW c \in Conn, NEW conn, NEW jobs, NEW M, Turn(c, conn, jobs, M),
           JoinsLive(conn, jobs), LossesAnnounced(conns[c], conn, jobs),
           c \in docs'[conn.doc].connections => KeepsGhost(conns[c], conn)
    PROVE  GhostInv'
<1> DEFINE Alive(x) == {p \in ClientId : \E o \in Conn : p \in LivesFor(conns[o], conns[x])}
           Alive2(x) == {p \in ClientId : \E o \in Conn : p \in LivesFor(conns'[o], conns'[x])}
<1>0. conns'[c] = conn
      BY DEF Turn, Moves
<1>1. ASSUME NEW x \in Conn, NEW p \in Alive(x) \ Alive2(x)
      PROVE  /\ conns[c].doc = conns[x].doc /\ conns[c].store # conns[x].store
             /\ x # c
             /\ \E n \in DOMAIN jobs : jobs[n].event = [op |-> "client-leave", client |-> p]
  <2>1. PICK o \in Conn : p \in LivesFor(conns[o], conns[x])
        OBVIOUS
  <2>2. o = c
    <3> SUFFICES ASSUME o # c PROVE FALSE
        OBVIOUS
    <3>1. p \in LivesFor(conns'[o], conns'[x])
          BY <2>1, TurnLives
    <3> QED
        BY <1>1, <3>1
  <2>3. /\ conns[c].doc = conns[x].doc /\ conns[c].store # conns[x].store
        /\ WillClose(conns[c]) /\ p \in conns[c].clients
        BY <2>1, <2>2 DEF LivesFor
  <2>4. x # c
        BY <2>3
  <2>5. conns'[x].doc = conns[x].doc /\ conns'[x].store = conns[x].store
        BY <2>4, TurnOthers
  <2>6. p \notin LivesFor(conn, conns'[x])
        BY <1>0, <1>1
  <2>7. conn.doc = conns[c].doc /\ conn.store = conns[c].store
        BY DEF Turn
  <2>8. ~(p \in conn.clients /\ WillClose(conn))
        BY <2>3, <2>5, <2>6, <2>7 DEF LivesFor
  <2> QED
      BY <2>3, <2>4, <2>8 DEF LossesAnnounced
<1>2. ASSUME NEW d \in Conn, NEW x \in docs'[d].connections
      PROVE  GhostOK(conns'[x], Alive2(x))
  <2>1. x \in docs[d].connections
        BY DEF Turn
  <2>2. x \in Conn /\ ConnOK(conns[x]) /\ conns[x].doc = d
        BY <2>1, MemberFacts
  <2>3. GhostOK(conns[x], Alive(x))
        BY <2>1 DEF GhostInv, Living
  <2>4. CASE x = c
    <3>1. Alive(c) \subseteq Alive2(c)
          BY <1>1
    <3>2. conn.doc = d
          BY <2>2, <2>4 DEF Turn
    <3>3. KeepsGhost(conns[c], conn)
          BY <2>4, <3>2
    <3> HIDE DEF Alive, Alive2
    <3> QED
        BY <1>0, <2>3, <2>4, <3>1, <3>3 DEF KeepsGhost
  <2>5. CASE x \in M /\ x # c
    <3>1. /\ conns'[x].queue = conns[x].queue \o jobs
          /\ conns'[x].store = conns[x].store /\ conns'[x].peers = conns[x].peers
          BY <2>2, <2>5, TurnOthers
    <3> DEFINE s == conns[c].store
    <3>2. QueueOK(jobs) /\ \A n \in DOMAIN jobs : jobs[n].from = s /\ jobs[n].op = "broadcast"
          BY DEF Turn, JobsFrom
    <3>3. \A p \in Alive(x) \ Alive2(x) :
              s # conns[x].store
                  /\ \E n \in DOMAIN jobs : jobs[n].event = [op |-> "client-leave", client |-> p]
          BY <1>1, <2>2
    <3>4. ASSUME s # conns[x].store, NEW n \in DOMAIN jobs, NEW p \in ClientId,
                 jobs[n].event = [op |-> "client-join", client |-> p]
          PROVE  p \in Alive2(x)
      <4>1. p \in conn.clients /\ WillClose(conn)
            BY <3>4 DEF JoinsLive
      <4>2. conns'[x].doc = conn.doc /\ conns'[x].store # conn.store
        <5>1. conns'[x].doc = conns[x].doc
              BY <2>2, <2>5, TurnOthers
        <5>2. conns[x].doc = conns[c].doc
              BY <2>5, MemberFacts DEF Turn
        <5> QED
            BY <3>1, <3>4, <5>1, <5>2 DEF Turn
      <4>3. p \in LivesFor(conns'[c], conns'[x])
            BY <1>0, <4>1, <4>2 DEF LivesFor
      <4> QED
          BY <4>3
    <3>5. s # conns[x].store => \A n \in DOMAIN jobs, p \in ClientId :
              jobs[n].event = [op |-> "client-join", client |-> p] => p \in Alive2(x)
          BY <3>4
    <3> DEFINE new == conns'[x]
               old == conns[x]
               living == Alive(x)
               living2 == Alive2(x)
    <3>6. /\ ConnOK(old) /\ QueueOK(jobs) /\ GhostOK(old, living)
          /\ new.queue = old.queue \o jobs /\ new.store = old.store /\ new.peers = old.peers
          BY <2>2, <2>3, <3>1, <3>2
    <3>7. \A p \in living \ living2 :
              s # old.store
                  /\ \E n \in DOMAIN jobs : jobs[n].event = [op |-> "client-leave", client |-> p]
          BY <3>3
    <3>8. s # old.store => \A n \in DOMAIN jobs, p \in ClientId :
              jobs[n].event = [op |-> "client-join", client |-> p] => p \in living2
          BY <3>5
    <3> HIDE DEF Alive, Alive2, s, new, old, living, living2
    <3>9. Announces(jobs, s, old.store, living, living2)
          BY <3>7, <3>8 DEF Announces
    <3>10. GhostOK(new, living2)
           BY <3>2, <3>6, <3>9, PushGhost
    <3> QED
        BY <3>10 DEF new, living2
  <2>6. CASE x \notin M /\ x # c
    <3>1. conns'[x] = conns[x]
          BY <2>2, <2>6, TurnOthers
    <3>2. Alive(x) \subseteq Alive2(x)
      <4> SUFFICES ASSUME NEW p \in Alive(x) \ Alive2(x) PROVE FALSE
          OBVIOUS
      <4>1. conns[c].doc = d /\ \E n \in DOMAIN jobs : TRUE
            BY <1>1, <2>2
      <4>2. jobs # <<>>
            BY <4>1
      <4> QED
          BY <2>1, <2>6, <4>1, <4>2 DEF Turn
    <3> HIDE DEF Alive, Alive2
    <3> QED
        BY <2>3, <3>1, <3>2, MoreLiving
  <2> QED
      BY <2>4, <2>5, <2>6
<1> QED
    BY <1>2 DEF GhostInv, Living

-----------------------------------------------------------------------------
(* What clients are sent, after a step of a connection.                    *)

LEMMA GapMore ==
    ASSUME NEW conn, NEW table, NEW table2, NEW mine, NEW mine2, mine \subseteq mine2,
           NewerRefs(table2, conn.cursor) \subseteq NewerRefs(table, conn.cursor),
           GapOK(conn, table, mine)
    PROVE  GapOK(conn, table2, mine2)
BY DEF GapOK

LEMMA OrderMore ==
    ASSUME NEW conn, NEW table, NEW table2, NEW mine, NEW mine2, mine \subseteq mine2,
           OldRefs(table, conn.cursor) \subseteq OldRefs(table2, conn.cursor),
           RefsOf(table) \subseteq RefsOf(table2),
           OrderOK(conn, table, mine)
    PROVE  OrderOK(conn, table2, mine2)
<1> DEFINE known == mine \cup OldRefs(table, conn.cursor)
           known2 == mine2 \cup OldRefs(table2, conn.cursor)
<1>1. known \subseteq known2
      OBVIOUS
<1>2. ASSUME NEW n \in DOMAIN conn.sent
      PROVE  ParentsOf(conn.sent[n]) \subseteq Before(conn.sent, n) \cup known2
      BY <1>1 DEF OrderOK
<1>3. ASSUME NEW n \in DOMAIN conn.queue, Carries(conn.queue[n]),
             NEW i \in DOMAIN conn.queue[n].event.commits
      PROVE  ParentsOf(conn.queue[n].event.commits[i]) \subseteq RefsOf(table2)
      BY <1>3 DEF OrderOK
<1>4. ASSUME NEW n \in DOMAIN conn.queue, Passes(conn, conn.queue[n]),
             NEW i \in DOMAIN conn.queue[n].event.commits
      PROVE  ParentsOf(conn.queue[n].event.commits[i]) \subseteq
                 Before(conn.queue[n].event.commits, i)
                     \cup Elements(conn.sent) \cup known2 \cup PassedBefore(conn, n)
  <2>1. ParentsOf(conn.queue[n].event.commits[i]) \subseteq
            Before(conn.queue[n].event.commits, i)
                \cup Elements(conn.sent) \cup known \cup PassedBefore(conn, n)
        BY <1>4 DEF OrderOK
  <2> QED
      BY <1>1, <2>1
<1> QED
    BY <1>2, <1>3, <1>4 DEF OrderOK

(* What the step adds to the table is told to everybody else.              *)
Adds(c, jobs) ==
    LET fresh == NewRefs(rows', Len(rows))
    IN  /\ Grows(rows, rows')
        /\ \A s \in Store : offered[s] \subseteq offered'[s]
        /\ fresh \subseteq offered'[conns[c].store]
        /\ \A n \in DOMAIN jobs : Carries(jobs[n]) =>
              EventOrder(jobs[n].event.commits, rows, rows')
        /\ \/ fresh = {}
           \/ /\ docs[conns[c].doc].open
              /\ \E n \in DOMAIN jobs : Carries(jobs[n]) /\ fresh \subseteq Elements(jobs[n].event.commits)
        /\ dropped \in BOOLEAN /\ dropped' \in BOOLEAN /\ (dropped => dropped')

(* c itself is still served all, and in order.                             *)
KeepsServed(old, new, table, table2, mine, mine2) ==
    /\ GapOK(old, table, mine) => GapOK(new, table2, mine2)
    /\ Unique(table2) /\ GapOK(old, table, mine) /\ OrderOK(old, table, mine) =>
           OrderOK(new, table2, mine2)

LEMMA TurnServed ==
    ASSUME BaseInv, GapInv, OrderInv,
           NEW c \in Conn, NEW conn, NEW jobs, NEW M, Turn(c, conn, jobs, M), Adds(c, jobs),
           c \in docs'[conn.doc].connections =>
               \A s \in Store : s = conns[c].store =>
                   KeepsServed(conns[c], conn, rows, rows', offered[s], offered'[s])
    PROVE  GapInv' /\ OrderInv'
<1> DEFINE table2 == rows'
           fresh == NewRefs(table2, Len(rows))
<1>0. conns'[c] = conn
      BY DEF Turn, Moves
<1>1. /\ Grows(rows, table2)
      /\ \A s \in Store : offered[s] \subseteq offered'[s]
      /\ fresh \subseteq offered'[conns[c].store]
      /\ \A n \in DOMAIN jobs : Carries(jobs[n]) =>
            EventOrder(jobs[n].event.commits, rows, table2)
      /\ \/ fresh = {}
         \/ /\ docs[conns[c].doc].open
            /\ \E n \in DOMAIN jobs : Carries(jobs[n]) /\ fresh \subseteq Elements(jobs[n].event.commits)
      /\ dropped \in BOOLEAN /\ dropped' \in BOOLEAN /\ (dropped => dropped')
      BY DEF Adds
<1> HIDE DEF table2, fresh
<1>2. Unique(table2) => Unique(rows)
      BY <1>1, UniqueBefore
<1>3. RowsOK(rows, clock)
      BY DEF BaseInv
<1>4. ASSUME ~dropped', NEW d \in Conn, NEW x \in docs'[d].connections, NEW s \in Store,
             conns'[x].store = s
      PROVE  /\ GapOK(conns'[x], table2, offered'[s])
             /\ Unique(table2) => OrderOK(conns'[x], table2, offered'[s])
  <2>1. x \in docs[d].connections /\ ~dropped
        BY <1>1, <1>4 DEF Turn
  <2>2. x \in Conn /\ ConnOK(conns[x]) /\ conns[x].doc = d /\ docs[d].open
        BY <2>1, MemberFacts
  <2>3. conns[x].store = s
    <3>1. CASE x = c
          BY <1>0, <1>4, <3>1 DEF Turn
    <3>2. CASE x # c
          BY <1>4, <2>2, <3>2, TurnOthers
    <3> QED
        BY <3>1, <3>2
  <2> DEFINE old == conns[x]
             new == conns'[x]
             cursor == old.cursor
             mine == offered[s]
             mine2 == offered'[s]
  <2>4. GapOK(old, rows, mine) /\ (Unique(rows) => OrderOK(old, rows, mine))
        BY <2>1, <2>3 DEF GapInv, OrderInv
  <2>5. CASE x = c
    <3>1. conn.doc = d
          BY <2>2, <2>5 DEF Turn
    <3>2. KeepsServed(old, conn, rows, table2, mine, mine2)
          BY <1>4, <2>3, <2>5, <3>1 DEF table2
    <3> QED
        BY <1>0, <1>2, <2>4, <2>5, <3>2 DEF KeepsServed
  <2>6. CASE x # c
    <3>1. /\ new.store = old.store /\ new.authenticated = old.authenticated
          /\ new.cursor = old.cursor /\ new.sent = old.sent
          /\ (x \in M => new.queue = old.queue \o jobs)
          /\ (x \notin M => new = old)
      <4>1. new.store = old.store /\ new.authenticated = old.authenticated
            BY <2>2, <2>6, TurnOthers
      <4>2. new.cursor = old.cursor /\ new.sent = old.sent
            BY <2>2, <2>6, TurnOthers
      <4>3. x \in M => new.queue = old.queue \o jobs
            BY <2>2, <2>6, TurnOthers
      <4>4. x \notin M => new = old
            BY <2>2, <2>6, TurnOthers
      <4> QED
          BY <4>1, <4>2, <4>3, <4>4
    <3>2. /\ RefsOf(rows) \subseteq RefsOf(table2)
          /\ OldRefs(rows, cursor) \subseteq OldRefs(table2, cursor)
          /\ NewerRefs(table2, cursor) \subseteq NewerRefs(rows, cursor) \cup fresh
      <4>1. RefsOf(rows) \subseteq RefsOf(table2)
            BY <1>1, GrowsRefs
      <4>2. OldRefs(rows, cursor) \subseteq OldRefs(table2, cursor)
            BY <1>1, GrowsRefs
      <4>3. NewerRefs(table2, cursor) \subseteq NewerRefs(rows, cursor) \cup fresh
            BY <1>1, GrowsRefs DEF fresh
      <4> QED
          BY <4>1, <4>2, <4>3
    <3>3. mine \subseteq mine2
          BY <1>1
    <3>4. cursor \in Nat
          BY <2>2 DEF ConnOK
    <3>5. RefsOf(rows) \subseteq OldRefs(rows, cursor) \cup NewerRefs(rows, cursor)
          BY <1>3, <3>4, RefsSplit
    <3>6. CASE x \in M
      <4>1. QueueOK(jobs) /\ \A n \in DOMAIN jobs : jobs[n].from = conns[c].store
            BY DEF Turn, JobsFrom
      <4>2. conns[c].store = old.store => fresh \subseteq mine2
            BY <1>1, <2>3
      <4>3. TellsAll(jobs, fresh)
            BY <1>1 DEF TellsAll
      <4>4. \A n \in DOMAIN jobs : Carries(jobs[n]) =>
               \A i \in DOMAIN jobs[n].event.commits :
                   /\ ParentsOf(jobs[n].event.commits[i]) \subseteq RefsOf(table2)
                   /\ ParentsOf(jobs[n].event.commits[i]) \subseteq
                          Before(jobs[n].event.commits, i) \cup RefsOf(rows)
            BY <1>1 DEF EventOrder
      <4>5. ConnOK(old) /\ new.queue = old.queue \o jobs
            BY <2>2, <3>1, <3>6
      <4> HIDE DEF old, new, mine, mine2, cursor
      <4>6. cursor = old.cursor
            BY DEF cursor
      <4> DEFINE s0 == conns[c].store
      <4>7. \A n \in DOMAIN jobs : jobs[n].from = s0
            BY <4>1
      <4>8. s0 = old.store => fresh \subseteq mine2
            BY <4>2
      <4> HIDE DEF s0
      <4>9. GapOK(new, table2, mine2)
        <5>1. ComeFrom(jobs, s0, old.store, fresh, mine2)
              BY <4>7, <4>8 DEF ComeFrom
        <5>2. QueueOK(jobs) /\ new.queue = old.queue \o jobs /\ new.sent = old.sent
              BY <4>1, <4>5, <3>1
        <5>3. /\ new.store = old.store /\ new.authenticated = old.authenticated
              /\ new.cursor = old.cursor
              BY <3>1
        <5>4. NewerRefs(table2, old.cursor) \subseteq NewerRefs(rows, old.cursor) \cup fresh
              BY <3>2, <4>6
        <5>5. GapOK(old, rows, mine) /\ ConnOK(old)
              BY <2>4, <4>5
        <5> QED
            BY <3>3, <4>3, <5>1, <5>2, <5>3, <5>4, <5>5, PushGap
      <4>10. Unique(table2) => OrderOK(new, table2, mine2)
        <5> SUFFICES ASSUME Unique(table2) PROVE OrderOK(new, table2, mine2)
            OBVIOUS
        <5>1. OrderOK(old, rows, mine)
              BY <1>2, <2>4
        <5> QED
            BY <2>4, <3>1, <3>2, <3>3, <3>5, <4>1, <4>4, <4>5, <4>6, <5>1, PushOrder
      <4> QED
          BY <4>9, <4>10 DEF new, mine2
    <3>7. CASE x \notin M
      <4>1. new = old
            BY <3>1, <3>7
      <4>2. fresh = {}
        <5> SUFFICES ASSUME fresh # {} PROVE FALSE
            OBVIOUS
        <5>1. docs[conns[c].doc].open /\ \E n \in DOMAIN jobs : TRUE
              BY <1>1
        <5>2. jobs # <<>>
              BY <5>1
        <5>3. conns[c].doc \in Conn /\ M = docs[conns[c].doc].connections \ {c}
              BY <5>2 DEF Turn
        <5>4. conns[c].doc = liveDocs /\ d = liveDocs
              BY <2>1, <2>2, <5>1, <5>3 DEF BaseInv, LiveInv
        <5> QED
            BY <2>1, <2>6, <3>7, <5>3, <5>4
      <4> HIDE DEF old, new, mine, mine2, cursor
      <4>3. cursor = old.cursor
            BY DEF cursor
      <4>4. NewerRefs(table2, old.cursor) \subseteq NewerRefs(rows, old.cursor)
            BY <3>2, <4>2, <4>3
      <4>5. GapOK(old, table2, mine2)
            BY <2>4, <3>3, <4>4, GapMore
      <4>6. Unique(table2) => OrderOK(old, table2, mine2)
        <5> SUFFICES ASSUME Unique(table2) PROVE OrderOK(old, table2, mine2)
            OBVIOUS
        <5>1. OrderOK(old, rows, mine)
              BY <1>2, <2>4
        <5> QED
            BY <3>2, <3>3, <4>3, <5>1, OrderMore
      <4> QED
          BY <4>1, <4>5, <4>6 DEF new, mine2
    <3> QED
        BY <3>6, <3>7
  <2> QED
      BY <2>5, <2>6
<1>5. GapInv'
      BY <1>4 DEF GapInv, table2
<1>6. OrderInv'
      BY <1>4 DEF OrderInv, table2
<1> QED
    BY <1>5, <1>6

-----------------------------------------------------------------------------
(* Broadcasts.                                                             *)

JobsOf(s, events) ==
    [n \in DOMAIN events |-> [op |-> "broadcast", from |-> s, event |-> events[n]]]

EventsOK(events) == IsQueue(events) /\ \A n \in DOMAIN events : EventOK(events[n])

LEMMA JobsOfEvents ==
    ASSUME NEW s, NEW events, EventsOK(events), NEW jobs, jobs = JobsOf(s, events)
    PROVE  /\ JobsFrom(s, jobs) /\ DOMAIN jobs = DOMAIN events
           /\ \A n \in DOMAIN jobs : /\ jobs[n].event = events[n]
                                     /\ jobs[n].op = "broadcast" /\ jobs[n].from = s
<1>1. /\ DOMAIN jobs = DOMAIN events
      /\ \A n \in DOMAIN jobs : jobs[n] = [op |-> "broadcast", from |-> s, event |-> events[n]]
      BY DEF JobsOf
<1>2. Len(events) \in Nat /\ DOMAIN events = 1 .. Len(events)
      BY QueueDomain DEF EventsOK
<1>3. IsQueue(jobs)
  <2> DEFINE T == {[op |-> "broadcast", from |-> s, event |-> events[n]] : n \in DOMAIN events}
  <2>1. jobs \in [1 .. Len(events) -> T]
        BY <1>2 DEF JobsOf
  <2>2. jobs \in Seq(T)
        BY <1>2, <2>1
  <2> QED
      BY <2>2 DEF IsQueue
<1>4. \A n \in DOMAIN jobs : /\ jobs[n].event = events[n]
                             /\ jobs[n].op = "broadcast" /\ jobs[n].from = s
      BY <1>1
<1>5. \A n \in DOMAIN jobs : JobOK(jobs[n])
      BY <1>1, <1>4 DEF JobOK, EventsOK
<1> QED
    BY <1>1, <1>3, <1>4, <1>5 DEF JobsFrom, QueueOK

LEMMA BroadcastMoves ==
    ASSUME LocalInv, NEW c \in Conn, NEW conn, NEW events,
           conn.store = conns[c].store, conn.doc = conns[c].doc,
           \/ conns' = Broadcast([conns EXCEPT ![c] = conn], c, events)
           \/ conns' = [Broadcast(conns, c, events) EXCEPT ![c] = conn]
    PROVE  Moves(c, conn, JobsOf(conns[c].store, events), docs[conns[c].doc].connections \ {c})
<1> DEFINE M == docs[conns[c].doc].connections \ {c}
           jobs == JobsOf(conns[c].store, events)
<1>0. conns = [o \in Conn |-> conns[o]]
      BY DEF LocalInv
<1>1. CASE conns' = Broadcast([conns EXCEPT ![c] = conn], c, events)
  <2> DEFINE cs == [conns EXCEPT ![c] = conn]
  <2>1. cs[c] = conn /\ \A o \in Conn \ {c} : cs[o] = conns[o]
        BY <1>0
  <2> DEFINE sent == JobsOf(cs[c].store, events)
             others == docs[cs[c].doc].connections \ {c}
             all == [o \in Conn |->
                        IF o \in others THEN [cs[o] EXCEPT !.queue = @ \o sent] ELSE cs[o]]
  <2>2. conns' = all
        BY <1>1 DEF Broadcast, JobsOf
  <2>3. sent = jobs /\ others = M
        BY <2>1
  <2> HIDE DEF cs, jobs, sent, others, M
  <2>4. conns' = [o \in Conn |-> conns'[o]] /\ conns'[c] = cs[c]
    <3>1. c \notin others
          BY DEF others
    <3> QED
        BY <2>2, <3>1
  <2>5. \A o \in Conn \ {c} :
            conns'[o] = IF o \in M THEN [conns[o] EXCEPT !.queue = @ \o jobs] ELSE conns[o]
    <3> TAKE o \in Conn \ {c}
    <3>1. conns'[o] = IF o \in others THEN [cs[o] EXCEPT !.queue = @ \o sent] ELSE cs[o]
          BY <2>2
    <3>2. cs[o] = conns[o]
          BY <2>1
    <3> QED
        BY <2>3, <3>1, <3>2
  <2>6. Moves(c, conn, jobs, M)
        BY <2>1, <2>4, <2>5 DEF Moves
  <2> QED
      BY <2>6 DEF jobs, M
<1>2. CASE conns' = [Broadcast(conns, c, events) EXCEPT ![c] = conn]
  <2> DEFINE cs == [o \in Conn |-> IF o \in M THEN [conns[o] EXCEPT !.queue = @ \o jobs]
                                   ELSE conns[o]]
  <2>1. conns' = [cs EXCEPT ![c] = conn]
        BY <1>2 DEF Broadcast, JobsOf
  <2> HIDE DEF jobs, M
  <2>2. conns' = [o \in Conn |-> conns'[o]] /\ conns'[c] = conn
        BY <2>1
  <2>3. \A o \in Conn \ {c} :
            conns'[o] = IF o \in M THEN [conns[o] EXCEPT !.queue = @ \o jobs] ELSE conns[o]
        BY <2>1
  <2>4. Moves(c, conn, jobs, M)
        BY <2>2, <2>3 DEF Moves
  <2> QED
      BY <2>4 DEF jobs, M
<1> QED
    BY <1>1, <1>2

LEMMA AloneMoves ==
    ASSUME LocalInv, NEW c \in Conn, NEW conn, conns' = [conns EXCEPT ![c] = conn]
    PROVE  Moves(c, conn, <<>>, {})
<1>0. conns = [o \in Conn |-> conns[o]]
      BY DEF LocalInv
<1>1. /\ conns' = [o \in Conn |-> conns'[o]] /\ conns'[c] = conn
      /\ \A o \in Conn \ {c} : conns'[o] = conns[o]
      BY <1>0
<1> QED
    BY <1>1 DEF Moves

-----------------------------------------------------------------------------
(* The client-leave events of a connection that closes.                    *)

LEMMA SetToQueue ==
    ASSUME NEW S, IsFiniteSet(S)
    PROVE  IsQueue(SetToSeq(S)) /\ Elements(SetToSeq(S)) = S
<1> DEFINE n == Cardinality(S)
           D == 1 .. n
<1>1. n \in Nat /\ ExistsBijection(D, S)
      BY FS_CardinalityType
<1>2. PICK g : g \in Bijection(D, S)
      BY <1>1 DEF ExistsBijection
<1>3. g \in [D -> S] /\ IsInjective(g)
      BY <1>2 DEF Bijection, Injection
<1> HIDE DEF D
<1> DEFINE f == SetToSeq(S)
<1>4. f \in [D -> S] /\ IsInjective(f)
      BY <1>3 DEF SetToSeq, D
<1> HIDE DEF f
<1>5. f \in Injection(D, S)
      BY <1>4 DEF Injection
<1>6. Cardinality(D) = Cardinality(S)
      BY <1>1, FS_Interval DEF D
<1>7. f \in Surjection(D, S)
      BY <1>5, <1>6, FS_Injection
<1>8. \A t \in S : \E s \in D : f[s] = t
      BY <1>7 DEF Surjection
<1>9. Elements(f) = S
      BY <1>4, <1>8 DEF Elements
<1>10. f \in Seq(S)
       BY <1>1, <1>4 DEF D
<1> QED
    BY <1>9, <1>10 DEF IsQueue, f

LEMMA LeavesEvents ==
    ASSUME NEW c \in Conn, ConnOK(conns[c])
    PROVE  /\ EventsOK(Leaves(c))
           /\ \A n \in DOMAIN Leaves(c) :
                 Leaves(c)[n] \in [op : {"client-leave"}, client : ClientId]
           /\ \A p \in conns[c].clients :
                 \E n \in DOMAIN Leaves(c) : Leaves(c)[n] = [op |-> "client-leave", client |-> p]
<1> DEFINE P == conns[c].clients
           S == {[op |-> "client-leave", client |-> p] : p \in P}
           events == Leaves(c)
<1>0. P \subseteq ClientId /\ IsFiniteSet(P) /\ (P # {} => conns[c].authenticated)
      BY DEF ConnOK
<1>1. CASE ~conns[c].authenticated
  <2>1. events = <<>> /\ P = {}
        BY <1>0, <1>1 DEF Leaves
  <2>2. EventsOK(events)
        BY <2>1, EmptyQueue DEF EventsOK
  <2> QED
      BY <2>1, <2>2
<1>2. CASE conns[c].authenticated
  <2>1. events = SetToSeq(S)
        BY <1>2 DEF Leaves
  <2>2. IsFiniteSet(S)
    <3> DEFINE f == [p \in P |-> [op |-> "client-leave", client |-> p]]
    <3>1. f \in [P -> S] /\ \A t \in S : \E p \in P : f[p] = t
          OBVIOUS
    <3>2. f \in Surjection(P, S)
          BY <3>1 DEF Surjection
    <3> HIDE DEF f, S, P
    <3> QED
        BY <1>0, <3>2, FS_Surjection
  <2>3. IsQueue(events) /\ Elements(events) = S
        BY <2>1, <2>2, SetToQueue
  <2> HIDE DEF events
  <2>4. \A n \in DOMAIN events : events[n] \in S
        BY <2>3 DEF Elements
  <2>5. \A e \in S : e \in [op : {"client-leave"}, client : ClientId]
        BY <1>0
  <2>6. \A e \in S : EventOK(e)
        BY <1>0 DEF EventOK
  <2>7. \A p \in P : \E n \in DOMAIN events : events[n] = [op |-> "client-leave", client |-> p]
        BY <2>3 DEF Elements
  <2> HIDE DEF S
  <2>8. EventsOK(events)
        BY <2>3, <2>4, <2>6 DEF EventsOK
  <2> QED
      BY <2>4, <2>5, <2>7, <2>8 DEF events
<1> QED
    BY <1>1, <1>2

-----------------------------------------------------------------------------
(* The steps that leave the table alone.                                   *)

LEMMA OnCloseDocs ==
    ASSUME BaseInv, NEW c \in Conn, conns[c].doc \in Conn, OnClose(c)
    PROVE  /\ \A d \in Conn : /\ docs'[d].connections \subseteq docs[d].connections
                              /\ docs'[d].memory = docs[d].memory
           /\ c \notin docs'[conns[c].doc].connections
           /\ dropped' \in BOOLEAN /\ (dropped => dropped')
           /\ LiveInv'
<1> DEFINE e == conns[c].doc
           doc == [docs[e] EXCEPT !.connections = @ \ {c}, !.open = @ /\ ~Empties(e, c)]
<1>0. docs = [d \in Conn |-> docs[d]] /\ \A d \in Conn : DocShape(docs[d])
      BY DEF BaseInv, IInv, Shape
<1>1. docs' = [docs EXCEPT ![e] = doc]
      BY <1>0 DEF OnClose
<1>2. /\ doc.connections = docs[e].connections \ {c} /\ doc.memory = docs[e].memory
      /\ doc.open => docs[e].open /\ ~Empties(e, c)
  <2>1. DocShape(docs[e])
        BY <1>0
  <2> QED
      BY <2>1 DEF DocShape
<1> HIDE DEF doc
<1>3. docs'[e] = doc /\ \A d \in Conn \ {e} : docs'[d] = docs[d]
      BY <1>0, <1>1
<1>4. \A d \in Conn : /\ docs'[d].connections \subseteq docs[d].connections
                      /\ docs'[d].memory = docs[d].memory
                      /\ docs'[d].open => docs[d].open
                      /\ d = e /\ docs'[d].open => ~Empties(e, c)
      BY <1>2, <1>3
<1>5. c \notin docs'[e].connections
      BY <1>2, <1>3
<1>6. /\ liveDocs' = IF Empties(e, c) THEN NoDoc ELSE liveDocs
      /\ dropped' = (dropped \/ (Empties(e, c) /\ liveDocs \notin {e, NoDoc}))
      BY DEF OnClose
<1>7. dropped \in BOOLEAN
      BY DEF BaseInv, CountInv
<1>8. dropped' \in BOOLEAN /\ (dropped => dropped')
      BY <1>6, <1>7
<1>9. LiveInv'
  <2> SUFFICES ASSUME ~dropped', NEW d \in Conn, docs'[d].open
               PROVE  d = liveDocs'
      BY DEF LiveInv
  <2>1. ~dropped /\ ~(Empties(e, c) /\ liveDocs \notin {e, NoDoc})
        BY <1>6
  <2>2. d = liveDocs
        BY <1>4, <2>1 DEF BaseInv, LiveInv
  <2>3. d # NoDoc
        BY NoDocAssumption
  <2>4. ~Empties(e, c)
        BY <1>4, <2>1, <2>2, <2>3
  <2> QED
      BY <1>6, <2>2, <2>4
<1> QED
    BY <1>4, <1>5, <1>8, <1>9

Quiet(c) ==
    /\ rows' = rows /\ clock' = clock /\ offered' = offered
    /\ \/ docs' = docs /\ liveDocs' = liveDocs /\ dropped' = dropped
       \/ OnClose(c)
    /\ messages' \in 0 .. MaxMessages /\ faults' \in 0 .. MaxFaults

LEMMA QuietDocs ==
    ASSUME BaseInv, NEW c \in Conn, conns[c].doc \in Conn, Quiet(c)
    PROVE  /\ \A d \in Conn : /\ docs'[d].connections \subseteq docs[d].connections
                              /\ docs'[d].memory = docs[d].memory
           /\ dropped' \in BOOLEAN /\ (dropped => dropped')
           /\ LiveInv'
<1>1. CASE OnClose(c)
  <2>1. \A d \in Conn : /\ docs'[d].connections \subseteq docs[d].connections
                        /\ docs'[d].memory = docs[d].memory
        BY <1>1, OnCloseDocs
  <2>2. dropped' \in BOOLEAN /\ (dropped => dropped')
        BY <1>1, OnCloseDocs
  <2>3. LiveInv'
        BY <1>1, OnCloseDocs
  <2> QED
      BY <2>1, <2>2, <2>3
<1>2. CASE docs' = docs /\ liveDocs' = liveDocs /\ dropped' = dropped
  <2>1. dropped \in BOOLEAN
        BY DEF BaseInv, CountInv
  <2>2. LiveInv'
        BY <1>2 DEF BaseInv, LiveInv
  <2> QED
      BY <1>2, <2>1, <2>2
<1> QED
    BY <1>1, <1>2 DEF Quiet

LEMMA QuietRest ==
    ASSUME BaseInv, NEW c \in Conn, conns[c].doc \in Conn, Quiet(c)
    PROVE  MemoryInv' /\ CountInv' /\ RowsOK(rows', clock')
<1>1. rows' = rows /\ clock' = clock /\ offered' = offered
      BY DEF Quiet
<1>2. \A d \in Conn : docs'[d].memory = docs[d].memory
      BY QuietDocs
<1>3. dropped' \in BOOLEAN
      BY QuietDocs
<1>4. MemoryInv'
      BY <1>1, <1>2 DEF BaseInv, MemoryInv
<1>5. CountInv'
      BY <1>1, <1>3 DEF BaseInv, CountInv, Quiet
<1>6. RowsOK(rows', clock')
      BY <1>1 DEF BaseInv
<1> QED
    BY <1>4, <1>5, <1>6

(* The connection keeps what it owes its client, as the table is.          *)
Keeps(old, new) ==
    /\ KeepsGhost(old, new)
    /\ \A mine : KeepsServed(old, new, rows, rows, mine, mine)

NoneCarry(jobs) == \A n \in DOMAIN jobs : ~Carries(jobs[n])

LEMMA NothingNew ==
    ASSUME NEW table, IsQueue(table)
    PROVE  Grows(table, table) /\ NewRefs(table, Len(table)) = {}
<1>1. Len(table) \in Nat /\ DOMAIN table = 1 .. Len(table)
      BY QueueDomain
<1>2. Grows(table, table)
      BY <1>1 DEF Grows
<1>3. Later(table, Len(table)) = {}
      BY <1>1 DEF Later
<1>4. NewRefs(table, Len(table)) = {}
      BY <1>3 DEF NewRefs
<1> QED
    BY <1>2, <1>4

LEMMA QuietTurn ==
    ASSUME ServerInv, IInv', NEW c \in Conn, NEW conn, NEW jobs, NEW M,
           Turn(c, conn, jobs, M), Quiet(c), NoneCarry(jobs),
           JoinsLive(conn, jobs), LossesAnnounced(conns[c], conn, jobs),
           c \in docs'[conn.doc].connections => Keeps(conns[c], conn)
    PROVE  ServerInv'
<1>0. BaseInv /\ GhostInv /\ GapInv /\ OrderInv /\ conns[c].doc \in Conn
      BY DEF ServerInv, Turn
<1>1. LocalInv' /\ LinkInv'
      BY <1>0, TurnLocal
<1>2. LiveInv' /\ dropped' \in BOOLEAN /\ (dropped => dropped')
  <2>1. LiveInv'
        BY <1>0, QuietDocs
  <2>2. dropped' \in BOOLEAN /\ (dropped => dropped')
        BY <1>0, QuietDocs
  <2> QED
      BY <2>1, <2>2
<1>3. MemoryInv' /\ CountInv' /\ RowsOK(rows', clock')
      BY <1>0, QuietRest
<1>4. GhostInv'
  <2>1. c \in docs'[conn.doc].connections => KeepsGhost(conns[c], conn)
        BY DEF Keeps
  <2> QED
      BY <1>0, <2>1, TurnGhost
<1>5. GapInv' /\ OrderInv'
  <2>1. rows' = rows /\ offered' = offered
        BY DEF Quiet
  <2>2. Grows(rows, rows) /\ NewRefs(rows, Len(rows)) = {}
        BY <1>0, NothingNew DEF BaseInv, RowsOK
  <2>3. dropped \in BOOLEAN
        BY <1>0 DEF BaseInv, CountInv
  <2>4. Adds(c, jobs)
        BY <1>2, <2>1, <2>2, <2>3 DEF Adds, NoneCarry
  <2>5. c \in docs'[conn.doc].connections =>
            \A s \in Store : s = conns[c].store =>
                KeepsServed(conns[c], conn, rows, rows', offered[s], offered'[s])
        BY <2>1 DEF Keeps
  <2> QED
      BY <1>0, <2>4, <2>5, TurnServed
<1>6. BaseInv'
      BY <1>1, <1>2, <1>3 DEF BaseInv
<1> QED
    BY <1>4, <1>5, <1>6 DEF ServerInv

-----------------------------------------------------------------------------
(* A job is appended to the connection's own queue, or is taken from it.   *)

LEMMA AppendKeeps ==
    ASSUME NEW conn, NEW job, NEW new,
           ConnOK(conn), JobOK(job), job.op # "broadcast",
           new.queue = Append(conn.queue, job), new.store = conn.store,
           new.authenticated = conn.authenticated, new.cursor = conn.cursor,
           new.sent = conn.sent, new.peers = conn.peers
    PROVE  Keeps(conn, new)
<1>1. KeepsGhost(conn, new)
  <2> SUFFICES ASSUME NEW living, NEW living2, living \subseteq living2, GhostOK(conn, living)
               PROVE  GhostOK(new, living2)
      BY DEF KeepsGhost
  <2> QED
      BY AppendGhost
<1> DEFINE jobs == <<job>>
<1>2. /\ new.queue = conn.queue \o jobs
      /\ QueueOK(jobs) /\ DOMAIN jobs = {1} /\ ~Carries(jobs[1])
      BY AppendAsPush DEF ConnOK
<1>3. jobs[1] = job
      OBVIOUS
<1> HIDE DEF jobs
<1>4. ASSUME NEW table, NEW mine, GapOK(conn, table, mine)
      PROVE  GapOK(new, table, mine)
  <2> DEFINE s == job.from
             fresh == {}
  <2>1. ComeFrom(jobs, s, conn.store, fresh, mine)
        BY <1>2, <1>3 DEF ComeFrom
  <2>2. TellsAll(jobs, fresh)
        BY DEF TellsAll
  <2>3. NewerRefs(table, conn.cursor) \subseteq NewerRefs(table, conn.cursor) \cup fresh
        OBVIOUS
  <2>4. mine \subseteq mine
        OBVIOUS
  <2> HIDE DEF s, fresh
  <2> QED
      BY <1>2, <1>4, <2>1, <2>2, <2>3, <2>4, PushGap
<1>5. ASSUME NEW table, NEW mine, OrderOK(conn, table, mine)
      PROVE  OrderOK(new, table, mine)
  <2>1. /\ \A n \in DOMAIN new.queue : Carries(new.queue[n]) =>
              n \in DOMAIN conn.queue /\ new.queue[n] = conn.queue[n]
        /\ \A n \in DOMAIN conn.queue : /\ n \in DOMAIN new.queue /\ new.queue[n] = conn.queue[n]
                                        /\ PassedBefore(conn, n) \subseteq PassedBefore(new, n)
    <3> DEFINE q == conn.queue
               all == new.queue
    <3>1. /\ Len(q) \in Nat /\ DOMAIN q = 1 .. Len(q) /\ DOMAIN all = 1 .. Len(q) + 1
          /\ \A n \in 1 .. Len(q) : all[n] = q[n]
          /\ all[Len(q) + 1] = job
          BY QueueDomain, QueueAppend DEF ConnOK, QueueOK
    <3>2. ~Carries(job)
          BY DEF Carries
    <3>3. \A n \in DOMAIN all : Carries(all[n]) => n \in DOMAIN q /\ all[n] = q[n]
          BY <3>1, <3>2
    <3>4. \A n \in DOMAIN q : PassedBefore(conn, n) \subseteq PassedBefore(new, n)
      <4>1. Pushed(conn, jobs, new)
            BY <1>2, PassedPushed
      <4> QED
          BY <4>1 DEF Pushed
    <3> QED
        BY <3>1, <3>3, <3>4
  <2>2. \A n \in DOMAIN new.queue : Passes(new, new.queue[n]) => Passes(conn, new.queue[n])
        BY DEF Passes
  <2>3. \A n \in DOMAIN new.queue : Passes(new, new.queue[n]) => Carries(new.queue[n])
        BY DEF Passes
  <2> DEFINE known == mine \cup OldRefs(table, conn.cursor)
  <2>4. \A n \in DOMAIN new.sent :
            ParentsOf(new.sent[n]) \subseteq Before(new.sent, n) \cup known
        BY <1>5 DEF OrderOK
  <2>5. ASSUME NEW n \in DOMAIN new.queue, Carries(new.queue[n]),
               NEW i \in DOMAIN new.queue[n].event.commits
        PROVE  ParentsOf(new.queue[n].event.commits[i]) \subseteq RefsOf(table)
        BY <1>5, <2>1, <2>5 DEF OrderOK
  <2>6. ASSUME NEW n \in DOMAIN new.queue, Passes(new, new.queue[n]),
               NEW i \in DOMAIN new.queue[n].event.commits
        PROVE  ParentsOf(new.queue[n].event.commits[i]) \subseteq
                   Before(new.queue[n].event.commits, i)
                       \cup Elements(new.sent) \cup known \cup PassedBefore(new, n)
    <3>1. n \in DOMAIN conn.queue /\ new.queue[n] = conn.queue[n] /\ Passes(conn, conn.queue[n])
          BY <2>1, <2>2, <2>3, <2>6
    <3>2. PassedBefore(conn, n) \subseteq PassedBefore(new, n)
          BY <2>1, <3>1
    <3>3. ParentsOf(conn.queue[n].event.commits[i]) \subseteq
              Before(conn.queue[n].event.commits, i)
                  \cup Elements(conn.sent) \cup known \cup PassedBefore(conn, n)
          BY <1>5, <2>6, <3>1 DEF OrderOK
    <3> QED
        BY <3>1, <3>2, <3>3
  <2> QED
      BY <2>4, <2>5, <2>6 DEF OrderOK
<1>6. \A table, mine : KeepsServed(conn, new, table, table, mine, mine)
      BY <1>4, <1>5 DEF KeepsServed
<1> QED
    BY <1>1, <1>6 DEF Keeps

LEMMA PopKeeps ==
    ASSUME NEW conn, NEW new,
           ConnOK(conn), conn.queue # <<>>, Head(conn.queue).op # "broadcast",
           new.queue = Tail(conn.queue), new.store = conn.store,
           new.authenticated = conn.authenticated, new.cursor = conn.cursor,
           new.sent = conn.sent, new.peers = conn.peers
    PROVE  Keeps(conn, new)
<1>1. KeepsGhost(conn, new)
  <2> SUFFICES ASSUME NEW living, NEW living2, living \subseteq living2, GhostOK(conn, living)
               PROVE  GhostOK(new, living2)
      BY DEF KeepsGhost
  <2>1. new.peers \subseteq ClientId
        BY DEF ConnOK
  <2>2. \A p \in ClientId :
            IsAbout(Head(conn.queue), "client-leave", conn.store, p) => p \notin new.peers
        BY DEF IsAbout
  <2>3. \A p \in new.peers :
            p \in conn.peers \/ IsAbout(Head(conn.queue), "client-join", conn.store, p)
        OBVIOUS
  <2> QED
      BY <2>1, <2>2, <2>3, PopGhost
<1>2. /\ ~Passes(conn, Head(conn.queue)) /\ Passed(conn, 1) = {}
  <2>1. Head(conn.queue) = conn.queue[1]
        BY TailQueue DEF ConnOK
  <2> QED
      BY <2>1, NotCarried
<1>3. ASSUME NEW table, NEW mine, GapOK(conn, table, mine)
      PROVE  GapOK(new, table, mine)
  <2> DEFINE fresh == {}
  <2>1. /\ Elements(conn.sent) \cup Passed(conn, 1) \subseteq Elements(new.sent)
        /\ mine \cup fresh \subseteq mine
        /\ NewerRefs(table, conn.cursor) \subseteq NewerRefs(table, conn.cursor) \cup fresh
        BY <1>2
  <2> HIDE DEF fresh
  <2> QED
      BY <1>3, <2>1, PopGap
<1>4. ASSUME NEW table, NEW mine, OrderOK(conn, table, mine)
      PROVE  OrderOK(new, table, mine)
  <2>1. /\ mine \subseteq mine /\ RefsOf(table) \subseteq RefsOf(table)
        /\ OldRefs(table, conn.cursor) \subseteq OldRefs(table, conn.cursor)
        OBVIOUS
  <2> QED
      BY <1>2, <1>4, <2>1, PopOrder
<1>5. \A table, mine : KeepsServed(conn, new, table, table, mine, mine)
      BY <1>3, <1>4 DEF KeepsServed
<1> QED
    BY <1>1, <1>5 DEF Keeps

-----------------------------------------------------------------------------
(* What is known of a connection that something happens to.                *)

LEMMA ActiveConn ==
    ASSUME ServerInv, NEW c \in Conn, conns[c].queue # <<>> \/ conns[c].status \in {"open", "closing"}
    PROVE  /\ LocalInv /\ ConnOK(conns[c]) /\ conns[c].doc \in Conn /\ conns[c].doc # NoDoc
           /\ conns[c].store \in Store /\ conns[c].status \in {"open", "closing", "closed"}
           /\ messages \in 0 .. MaxMessages /\ faults \in 0 .. MaxFaults
<1>1. LocalInv /\ ConnOK(conns[c]) /\ messages \in 0 .. MaxMessages /\ faults \in 0 .. MaxFaults
      BY DEF ServerInv, BaseInv, LocalInv, CountInv
<1>2. conns[c].doc # NoDoc
      BY <1>1 DEF ConnOK
<1>3. conns[c].doc \in Conn /\ conns[c].status \in {"none", "open", "closing", "closed"}
      BY <1>1, <1>2 DEF ConnOK
<1>4. conns[c].status # "none" /\ conns[c].store \in Store
      BY <1>1, <1>2 DEF ConnOK
<1> QED
    BY <1>1, <1>2, <1>3, <1>4

(* A connection whose first job has been taken from the queue.             *)
LEMMA PopOK ==
    ASSUME NEW conn, NEW status, NEW authenticated, NEW cursor, NEW clients, NEW sent, NEW peers,
           ConnOK(conn), conn.doc # NoDoc, conn.queue # <<>>,
           status \in {"open", "closing", "closed"},
           status = "closed" => conn.status = "closed",
           authenticated \in BOOLEAN, cursor \in Nat,
           clients \subseteq ClientId, IsFiniteSet(clients), peers \subseteq ClientId,
           clients # {} => authenticated, peers # {} => authenticated,
           IsQueue(sent), Elements(sent) \subseteq Ref
    PROVE  ConnOK(Becomes(conn, status, authenticated, cursor, clients, Tail(conn.queue), sent, peers))
<1>1. QueueOK(conn.queue) /\ (conn.status = "closed" => Closes(conn.queue))
      BY DEF ConnOK
<1>2. QueueOK(Tail(conn.queue))
      BY <1>1, TailQueue
<1>3. status = "closed" => Closes(Tail(conn.queue))
      BY <1>1, TailCloses
<1> QED
    BY <1>2, <1>3, BecomesOK

(* The connection as a job leaves it that changes little else.             *)
Rested(c, status, clients) ==
    Becomes(conns[c], status, conns[c].authenticated, conns[c].cursor, clients,
            Tail(conns[c].queue), conns[c].sent, conns[c].peers)

LEMMA PopIs ==
    ASSUME NEW conn, ConnOK(conn)
    PROVE  [conn EXCEPT !.queue = Tail(@)] =
               Becomes(conn, conn.status, conn.authenticated, conn.cursor, conn.clients,
                       Tail(conn.queue), conn.sent, conn.peers)
<1> DEFINE q == Tail(conn.queue)
<1>1. [conn EXCEPT !.queue = Tail(@)] = [conn EXCEPT !.queue = q]
      OBVIOUS
<1> HIDE DEF q
<1>2. [conn EXCEPT !.queue = q] =
          Becomes(conn, conn.status, conn.authenticated, conn.cursor, conn.clients,
                  q, conn.sent, conn.peers)
      BY DEF ConnOK, Becomes
<1> QED
    BY <1>1, <1>2 DEF q

LEMMA BecomesStatus ==
    ASSUME NEW conn, NEW status, NEW authenticated, NEW cursor, NEW clients, NEW queue,
           NEW sent, NEW peers, NEW x
    PROVE  [Becomes(conn, status, authenticated, cursor, clients, queue, sent, peers)
                EXCEPT !.status = x] =
               Becomes(conn, x, authenticated, cursor, clients, queue, sent, peers)
BY DEF Becomes

LEMMA BecomesClients ==
    ASSUME NEW conn, NEW status, NEW authenticated, NEW cursor, NEW clients, NEW queue,
           NEW sent, NEW peers, NEW x
    PROVE  [Becomes(conn, status, authenticated, cursor, clients, queue, sent, peers)
                EXCEPT !.clients = x] =
               Becomes(conn, status, authenticated, cursor, x, queue, sent, peers)
BY DEF Becomes

LEMMA RestIs ==
    ASSUME NEW c \in Conn, ConnOK(conns[c])
    PROVE  Rest(c) = Rested(c, conns[c].status, conns[c].clients)
BY PopIs DEF Rest, Rested

LEMMA RestMore ==
    ASSUME NEW c \in Conn, ConnOK(conns[c]), NEW x
    PROVE  /\ [Rest(c) EXCEPT !.status = x] = Rested(c, x, conns[c].clients)
           /\ [Rest(c) EXCEPT !.clients = x] = Rested(c, conns[c].status, x)
<1>1. Rest(c) = Rested(c, conns[c].status, conns[c].clients)
      BY RestIs
<1>2. [Rested(c, conns[c].status, conns[c].clients) EXCEPT !.status = x] =
          Rested(c, x, conns[c].clients)
      BY BecomesStatus DEF Rested
<1>3. [Rested(c, conns[c].status, conns[c].clients) EXCEPT !.clients = x] =
          Rested(c, conns[c].status, x)
      BY BecomesClients DEF Rested
<1> QED
    BY <1>1, <1>2, <1>3

LEMMA RestFields ==
    ASSUME NEW c, NEW status, NEW clients, NEW new, new = Rested(c, status, clients)
    PROVE  /\ new.store = conns[c].store /\ new.doc = conns[c].doc
           /\ new.queue = Tail(conns[c].queue) /\ new.status = status /\ new.clients = clients
           /\ new.authenticated = conns[c].authenticated /\ new.cursor = conns[c].cursor
           /\ new.sent = conns[c].sent /\ new.peers = conns[c].peers
BY DEF Rested, Becomes

LEMMA RestOK ==
    ASSUME NEW c \in Conn, NEW status, NEW clients,
           ConnOK(conns[c]), conns[c].doc # NoDoc, conns[c].queue # <<>>,
           status \in {"open", "closing", "closed"},
           status = "closed" => conns[c].status = "closed",
           clients \subseteq ClientId, IsFiniteSet(clients),
           clients # {} => conns[c].authenticated
    PROVE  ConnOK(Rested(c, status, clients))
<1>1. /\ conns[c].authenticated \in BOOLEAN /\ conns[c].cursor \in Nat
      /\ conns[c].peers \subseteq ClientId
      /\ (conns[c].peers # {} => conns[c].authenticated)
      /\ IsQueue(conns[c].sent) /\ Elements(conns[c].sent) \subseteq Ref
      BY DEF ConnOK
<1> QED
    BY <1>1, PopOK DEF Rested

-----------------------------------------------------------------------------
(* Connections are closed.                                                 *)

LEMMA ClosedTurn ==
    ASSUME ServerInv, IInv', NEW c \in Conn, NEW conn,
           conns[c].doc \in Conn,
           ConnOK(conn), conn.store = conns[c].store, conn.doc = conns[c].doc,
           OnClosed(c, conn), rows' = rows, clock' = clock, offered' = offered,
           messages' \in 0 .. MaxMessages, faults' \in 0 .. MaxFaults
    PROVE  ServerInv'
<1> DEFINE events == Leaves(c)
           s == conns[c].store
           jobs == JobsOf(s, events)
           M == docs[conns[c].doc].connections \ {c}
<1>0. BaseInv /\ LocalInv /\ ConnOK(conns[c])
      BY DEF ServerInv, BaseInv, LocalInv
<1>1. OnClose(c) /\ conns' = [Broadcast(conns, c, events) EXCEPT ![c] = conn]
      BY DEF OnClosed
<1>2. Moves(c, conn, jobs, M)
      BY <1>0, <1>1, BroadcastMoves
<1>3. /\ EventsOK(events)
      /\ \A n \in DOMAIN events : events[n] \in [op : {"client-leave"}, client : ClientId]
      /\ \A p \in conns[c].clients :
            \E n \in DOMAIN events : events[n] = [op |-> "client-leave", client |-> p]
  <2>1. EventsOK(events)
        BY <1>0, LeavesEvents
  <2>2. \A n \in DOMAIN events : events[n] \in [op : {"client-leave"}, client : ClientId]
        BY <1>0, LeavesEvents
  <2>3. \A p \in conns[c].clients :
            \E n \in DOMAIN events : events[n] = [op |-> "client-leave", client |-> p]
        BY <1>0, LeavesEvents
  <2> QED
      BY <2>1, <2>2, <2>3
<1> HIDE DEF events
<1>4. /\ JobsFrom(s, jobs) /\ DOMAIN jobs = DOMAIN events
      /\ \A n \in DOMAIN jobs : jobs[n].event = events[n]
  <2>1. JobsFrom(s, jobs) /\ DOMAIN jobs = DOMAIN events
        BY <1>3, JobsOfEvents
  <2>2. \A n \in DOMAIN jobs : jobs[n].event = events[n]
        BY <1>3, JobsOfEvents
  <2> QED
      BY <2>1, <2>2
<1>5. \A d \in Conn : docs'[d].connections \subseteq docs[d].connections
      BY <1>0, <1>1, OnCloseDocs
<1>6. c \notin docs'[conns[c].doc].connections
      BY <1>0, <1>1, OnCloseDocs
<1>7. Quiet(c)
      BY <1>1 DEF Quiet
<1> HIDE DEF jobs
<1>8. Turn(c, conn, jobs, M)
      BY <1>2, <1>4, <1>5 DEF Turn
<1>9. \A n \in DOMAIN jobs : jobs[n].event.op = "client-leave"
      BY <1>3, <1>4
<1>10. NoneCarry(jobs)
       BY <1>9 DEF NoneCarry, Carries
<1>11. JoinsLive(conn, jobs)
       BY <1>9 DEF JoinsLive
<1>12. LossesAnnounced(conns[c], conn, jobs)
       BY <1>3, <1>4 DEF LossesAnnounced
<1> QED
    BY <1>6, <1>7, <1>8, <1>10, <1>11, <1>12, QuietTurn

(* closeWithCode, with the connection that takes a job from its queue.     *)
LEMMA RestClosed ==
    ASSUME ServerInv, IInv', NEW c \in Conn, conns[c].queue # <<>>,
           CloseWithCode(c, Rest(c)), rows' = rows, clock' = clock, offered' = offered,
           messages' \in 0 .. MaxMessages, faults' \in 0 .. MaxFaults
    PROVE  ServerInv'
<1> DEFINE status == IF conns[c].status = "open" THEN "closing" ELSE conns[c].status
           clients == conns[c].clients
           new == Rested(c, status, clients)
<1>1. /\ ConnOK(conns[c]) /\ conns[c].doc \in Conn /\ conns[c].doc # NoDoc
      /\ conns[c].status \in {"open", "closing", "closed"}
      BY ActiveConn
<1>2. clients \subseteq ClientId /\ IsFiniteSet(clients) /\ (clients # {} => conns[c].authenticated)
      BY <1>1 DEF ConnOK
<1>3. Rest(c).status = conns[c].status
  <2> DEFINE rest == Rest(c)
             old == conns[c].status
  <2>1. rest = Rested(c, old, clients)
        BY <1>1, RestIs
  <2> HIDE DEF rest, old, clients
  <2>2. rest.status = old
        BY <2>1, RestFields
  <2> QED
      BY <2>2 DEF rest, old
<1>4. OnClosed(c, [Rest(c) EXCEPT !.status = status])
      BY <1>3 DEF CloseWithCode
<1>5. status \in {"open", "closing", "closed"} /\ (status = "closed" => conns[c].status = "closed")
      BY <1>1
<1> HIDE DEF status
<1>6. OnClosed(c, new)
      BY <1>1, <1>4, RestMore
<1>7. ConnOK(new)
      BY <1>1, <1>2, <1>5, RestOK
<1> HIDE DEF clients, new
<1>8. new.store = conns[c].store /\ new.doc = conns[c].doc
      BY RestFields DEF new
<1> QED
    BY <1>1, <1>6, <1>7, <1>8, ClosedTurn

LEMMA ReceiveBadFrameKeeps ==
    ASSUME ServerInv, IInv', NEW c \in Conn, ReceiveBadFrame(c)
    PROVE  ServerInv'
<1> DEFINE new == [conns[c] EXCEPT !.status = IF @ = "open" THEN "closing" ELSE @]
           status == IF conns[c].status = "open" THEN "closing" ELSE conns[c].status
           conn == conns[c]
<1>1. /\ ConnOK(conn) /\ conn.doc \in Conn /\ conn.doc # NoDoc
      /\ messages \in 0 .. MaxMessages /\ faults \in 0 .. MaxFaults
      BY ActiveConn DEF ReceiveBadFrame
<1>2. conn = Becomes(conn, conn.status, conn.authenticated, conn.cursor, conn.clients,
                     conn.queue, conn.sent, conn.peers)
      BY <1>1, ConnFields
<1>3. new = Becomes(conn, status, conn.authenticated, conn.cursor, conn.clients,
                    conn.queue, conn.sent, conn.peers)
      BY <1>2 DEF Becomes
<1>4. status = "closing"
      BY DEF ReceiveBadFrame
<1>5. OnClosed(c, new)
      BY DEF ReceiveBadFrame, CloseWithCode
<1>6. faults' \in 0 .. MaxFaults /\ messages' = messages
      BY <1>1, BoundAssumption DEF ReceiveBadFrame, Fault
<1>7. rows' = rows /\ clock' = clock /\ offered' = offered
      BY DEF ReceiveBadFrame
<1> HIDE DEF new, status, conn
<1>8. ConnOK(new)
      BY <1>1, <1>3, <1>4, BecomesOK DEF ConnOK
<1>9. new.store = conn.store /\ new.doc = conn.doc
      BY <1>3 DEF Becomes
<1> QED
    BY <1>1, <1>5, <1>6, <1>7, <1>8, <1>9, ClosedTurn DEF conn

LEMMA UnauthorizedKeeps ==
    ASSUME ServerInv, IInv', NEW c \in Conn, Unauthorized(c)
    PROVE  ServerInv'
<1>1. conns[c].queue # <<>>
      BY DEF Unauthorized, NextJob
<1>2. messages \in 0 .. MaxMessages /\ faults \in 0 .. MaxFaults
      BY <1>1, ActiveConn
<1>3. faults' \in 0 .. MaxFaults /\ messages' \in 0 .. MaxMessages
      BY <1>2, BoundAssumption DEF Unauthorized, Fault
<1>4. CloseWithCode(c, Rest(c)) /\ rows' = rows /\ clock' = clock /\ offered' = offered
      BY DEF Unauthorized
<1> QED
    BY <1>1, <1>3, <1>4, RestClosed

LEMMA RefuseKeeps ==
    ASSUME ServerInv, IInv', NEW c \in Conn, Refuse(c)
    PROVE  ServerInv'
<1>1. conns[c].queue # <<>>
      BY DEF Refuse, NextJob
<1>2. messages \in 0 .. MaxMessages /\ faults \in 0 .. MaxFaults
      BY <1>1, ActiveConn
<1>3. faults' \in 0 .. MaxFaults /\ messages' \in 0 .. MaxMessages
      BY <1>2 DEF Refuse
<1>4. CloseWithCode(c, Rest(c)) /\ rows' = rows /\ clock' = clock /\ offered' = offered
      BY DEF Refuse
<1> QED
    BY <1>1, <1>3, <1>4, RestClosed

LEMMA FinishCloseKeeps ==
    ASSUME ServerInv, IInv', NEW c \in Conn, FinishClose(c)
    PROVE  ServerInv'
<1> DEFINE status == conns[c].status
           clients == conns[c].clients
           new == Rested(c, status, clients)
<1>1. conns[c].queue # <<>>
      BY DEF FinishClose, NextJob
<1>2. /\ ConnOK(conns[c]) /\ conns[c].doc \in Conn /\ conns[c].doc # NoDoc
      /\ conns[c].status \in {"open", "closing", "closed"}
      /\ messages \in 0 .. MaxMessages /\ faults \in 0 .. MaxFaults
      BY <1>1, ActiveConn
<1>3. faults' \in 0 .. MaxFaults /\ messages' \in 0 .. MaxMessages
      BY <1>2 DEF FinishClose
<1>4. OnClosed(c, Rest(c)) /\ rows' = rows /\ clock' = clock /\ offered' = offered
      BY DEF FinishClose
<1>5. OnClosed(c, new)
      BY <1>2, <1>4, RestIs
<1>6. clients \subseteq ClientId /\ IsFiniteSet(clients) /\ (clients # {} => conns[c].authenticated)
      BY <1>2 DEF ConnOK
<1>7. ConnOK(new)
      BY <1>1, <1>2, <1>6, RestOK
<1> HIDE DEF clients, new
<1>8. new.store = conns[c].store /\ new.doc = conns[c].doc
      BY RestFields DEF new
<1> QED
    BY <1>2, <1>3, <1>4, <1>5, <1>7, <1>8, ClosedTurn

LEMMA SocketErrorKeeps ==
    ASSUME ServerInv, IInv', NEW c \in Conn, SocketError(c)
    PROVE  ServerInv'
<1> DEFINE conn == conns[c]
           new == [conns[c] EXCEPT !.status = "closing"]
           jobs == <<>>
           M == {}
<1>1. /\ ConnOK(conn) /\ conn.doc \in Conn /\ conn.doc # NoDoc /\ LocalInv
      /\ messages \in 0 .. MaxMessages /\ faults \in 0 .. MaxFaults
      BY ActiveConn DEF SocketError
<1>2. conn = Becomes(conn, conn.status, conn.authenticated, conn.cursor, conn.clients,
                     conn.queue, conn.sent, conn.peers)
      BY <1>1, ConnFields
<1>3. new = Becomes(conn, "closing", conn.authenticated, conn.cursor, conn.clients,
                    conn.queue, conn.sent, conn.peers)
      BY <1>2 DEF Becomes
<1>4. conns' = [conns EXCEPT ![c] = new] /\ OnClose(c)
      BY DEF SocketError
<1>5. Quiet(c)
      BY <1>1, BoundAssumption DEF SocketError, Fault, Quiet
<1> HIDE DEF new
<1>6. Moves(c, new, jobs, M)
      BY <1>1, <1>4, AloneMoves
<1>7. ConnOK(new)
      BY <1>1, <1>3, BecomesOK DEF ConnOK
<1>8. /\ new.store = conn.store /\ new.doc = conn.doc /\ new.clients = conn.clients
      /\ new.status = "closing"
      BY <1>3 DEF Becomes
<1>9. BaseInv
      BY DEF ServerInv
<1>10. \A d \in Conn : docs'[d].connections \subseteq docs[d].connections
       BY <1>1, <1>4, <1>9, OnCloseDocs
<1>11. c \notin docs'[conns[c].doc].connections
       BY <1>1, <1>4, <1>9, OnCloseDocs
<1>12. JobsFrom(conn.store, jobs)
       BY EmptyQueue DEF JobsFrom, QueueOK
<1>13. Turn(c, new, jobs, M)
       BY <1>1, <1>6, <1>7, <1>8, <1>10, <1>12 DEF Turn
<1>14. LossesAnnounced(conn, new, jobs)
       BY <1>8 DEF LossesAnnounced, WillClose
<1>15. JoinsLive(new, jobs) /\ NoneCarry(jobs)
       BY DEF JoinsLive, NoneCarry
<1> QED
    BY <1>5, <1>8, <1>11, <1>13, <1>14, <1>15, QuietTurn

-----------------------------------------------------------------------------
(* Something is queued for the connection itself.                          *)

LEMMA QuietSame ==
    ASSUME ServerInv, NEW c \in Conn,
           rows' = rows, clock' = clock, offered' = offered,
           docs' = docs, liveDocs' = liveDocs, dropped' = dropped,
           messages' \in 0 .. MaxMessages, faults' \in 0 .. MaxFaults
    PROVE  Quiet(c) /\ \A d \in Conn : docs'[d].connections \subseteq docs[d].connections
BY DEF Quiet

LEMMA NoJobs ==
    ASSUME NEW s, NEW conn
    PROVE  JobsFrom(s, <<>>) /\ NoneCarry(<<>>) /\ JoinsLive(conn, <<>>)
<1>1. JobsFrom(s, <<>>)
      BY EmptyQueue DEF JobsFrom, QueueOK
<1>2. NoneCarry(<<>>) /\ JoinsLive(conn, <<>>)
      BY DEF NoneCarry, JoinsLive
<1> QED
    BY <1>1, <1>2

(* The connection changes without telling anyone.                          *)
LEMMA AloneTurn ==
    ASSUME ServerInv, IInv', NEW c \in Conn, NEW conn,
           conns[c].doc \in Conn, conns' = [conns EXCEPT ![c] = conn],
           ConnOK(conn), conn.store = conns[c].store, conn.doc = conns[c].doc,
           conns[c].clients \subseteq conn.clients, WillClose(conns[c]) => WillClose(conn),
           Keeps(conns[c], conn),
           rows' = rows, clock' = clock, offered' = offered,
           docs' = docs, liveDocs' = liveDocs, dropped' = dropped,
           messages' \in 0 .. MaxMessages, faults' \in 0 .. MaxFaults
    PROVE  ServerInv'
<1> DEFINE jobs == <<>>
           M == {}
<1>1. Moves(c, conn, jobs, M)
      BY AloneMoves DEF ServerInv, BaseInv
<1>2. Quiet(c) /\ \A d \in Conn : docs'[d].connections \subseteq docs[d].connections
      BY QuietSame
<1>3. JobsFrom(conns[c].store, jobs) /\ NoneCarry(jobs) /\ JoinsLive(conn, jobs)
      BY NoJobs
<1>4. Turn(c, conn, jobs, M)
      BY <1>1, <1>2, <1>3 DEF Turn
<1>5. LossesAnnounced(conns[c], conn, jobs)
      BY DEF LossesAnnounced
<1> QED
    BY <1>2, <1>3, <1>4, <1>5, QuietTurn

LEMMA Appended ==
    ASSUME NEW conn, NEW status, NEW job, NEW new,
           ConnOK(conn), conn.doc # NoDoc, JobOK(job), job.op # "broadcast",
           status \in {"open", "closing", "closed"},
           status = "closed" => job.op = "closed",
           new = Becomes(conn, status, conn.authenticated, conn.cursor, conn.clients,
                         Append(conn.queue, job), conn.sent, conn.peers)
    PROVE  /\ ConnOK(new) /\ new.store = conn.store /\ new.doc = conn.doc
           /\ new.clients = conn.clients /\ WillClose(new) /\ Keeps(conn, new)
<1> DEFINE q == Append(conn.queue, job)
<1>0. QueueOK(conn.queue) /\ IsQueue(conn.queue)
      BY DEF ConnOK, QueueOK
<1>1. QueueOK(q)
      BY <1>0, AppendedQueue
<1>2. status = "closed" => Closes(q)
      BY <1>0, ClosingCloses
<1>3. new.status = status /\ new.queue = q
  <2> HIDE DEF q
  <2>1. new = Becomes(conn, status, conn.authenticated, conn.cursor, conn.clients,
                      q, conn.sent, conn.peers)
        BY DEF q
  <2> QED
      BY <2>1, BecomesFields
<1>4. /\ new.store = conn.store /\ new.doc = conn.doc /\ new.clients = conn.clients
      /\ new.authenticated = conn.authenticated /\ new.cursor = conn.cursor
      /\ new.sent = conn.sent /\ new.peers = conn.peers
      BY BecomesFields
<1> HIDE DEF q
<1>5. /\ conn.authenticated \in BOOLEAN /\ conn.cursor \in Nat
      /\ conn.clients \subseteq ClientId /\ IsFiniteSet(conn.clients)
      /\ conn.peers \subseteq ClientId
      /\ (conn.clients # {} => conn.authenticated) /\ (conn.peers # {} => conn.authenticated)
      /\ IsQueue(conn.sent) /\ Elements(conn.sent) \subseteq Ref
      BY DEF ConnOK
<1>6. ConnOK(new)
      BY <1>1, <1>2, <1>5, BecomesOK DEF q
<1>7. WillClose(new)
  <2>1. CASE status = "closed"
    <3>1. /\ Len(q) = Len(conn.queue) + 1 /\ q[Len(conn.queue) + 1] = job
          /\ Len(conn.queue) \in Nat /\ DOMAIN q = 1 .. Len(q)
          BY <1>0, <1>1, QueueAppend, QueueDomain DEF q, QueueOK
    <3>2. Len(conn.queue) + 1 \in DOMAIN q
          BY <3>1
    <3> QED
        BY <1>3, <2>1, <3>1, <3>2 DEF WillClose
  <2>2. CASE status # "closed"
        BY <1>3, <2>2 DEF WillClose
  <2> QED
      BY <2>1, <2>2
<1>8. Keeps(conn, new)
      BY <1>3, <1>4, AppendKeeps DEF q
<1> QED
    BY <1>4, <1>6, <1>7, <1>8

LEMMA MessageOK ==
    ASSUME NEW m \in Message
    PROVE  JobOK(m) /\ m.op # "broadcast"
<1>1. CASE m = InitMessage(0)
  <2>1. m.op = "init" /\ m.cursor = 0
        BY <1>1 DEF InitMessage
  <2> QED
      BY <2>1 DEF JobOK
<1>2. CASE m \in [op : {"commits"}, commits : Batch]
      BY <1>2 DEF JobOK
<1>3. CASE m \in [op : {"client-join", "client-leave"}, client : ClientId]
      BY <1>3 DEF JobOK
<1> QED
    BY <1>1, <1>2, <1>3 DEF Message

LEMMA ReceiveKeeps ==
    ASSUME ServerInv, IInv', NEW c \in Conn, NEW m \in Message, Receive(c, m)
    PROVE  ServerInv'
<1> DEFINE conn == conns[c]
           q == Append(conn.queue, m)
           new == Becomes(conn, conn.status, conn.authenticated, conn.cursor, conn.clients,
                          q, conn.sent, conn.peers)
<1>1. /\ ConnOK(conn) /\ conn.doc \in Conn /\ conn.doc # NoDoc
      /\ messages \in 0 .. MaxMessages /\ faults \in 0 .. MaxFaults
      /\ conn.status \in {"open", "closing"}
      BY ActiveConn DEF Receive
<1>2. JobOK(m) /\ m.op # "broadcast"
      BY MessageOK
<1>3. conns' = [conns EXCEPT ![c] = new]
  <2>1. conns' = [conns EXCEPT ![c] = [conns[c] EXCEPT !.queue = q]]
        BY DEF Receive
  <2> HIDE DEF conn, q
  <2>2. [conn EXCEPT !.queue = q] = new
        BY <1>1 DEF ConnOK, Becomes
  <2> QED
      BY <2>1, <2>2 DEF conn
<1>4. messages' \in 0 .. MaxMessages /\ faults' \in 0 .. MaxFaults
      BY <1>1, BoundAssumption DEF Receive
<1> DEFINE status == conn.status
<1>5. new = Becomes(conn, status, conn.authenticated, conn.cursor, conn.clients,
                    Append(conn.queue, m), conn.sent, conn.peers)
      OBVIOUS
<1>6. status \in {"open", "closing", "closed"} /\ (status = "closed" => m.op = "closed")
      BY <1>1
<1> HIDE DEF status, conn, new
<1>7. ConnOK(new) /\ WillClose(new) /\ Keeps(conn, new)
  <2>1. ConnOK(new)
        BY <1>1, <1>2, <1>5, <1>6, Appended
  <2>2. WillClose(new)
        BY <1>1, <1>2, <1>5, <1>6, Appended
  <2>3. Keeps(conn, new)
        BY <1>1, <1>2, <1>5, <1>6, Appended
  <2> QED
      BY <2>1, <2>2, <2>3
<1>8. new.store = conn.store /\ new.doc = conn.doc /\ new.clients = conn.clients
      BY <1>5, BecomesFields
<1>9. /\ rows' = rows /\ clock' = clock /\ offered' = offered
      /\ docs' = docs /\ liveDocs' = liveDocs /\ dropped' = dropped
      BY DEF Receive
<1>10. conn.clients \subseteq new.clients
       BY <1>8
<1> QED
    BY <1>1, <1>3, <1>4, <1>7, <1>8, <1>9, <1>10, AloneTurn DEF conn

LEMMA ClosedConn ==
    ASSUME NEW conn, ConnOK(conn), NEW queue
    PROVE  [conn EXCEPT !.status = "closed", !.queue = queue] =
               Becomes(conn, "closed", conn.authenticated, conn.cursor, conn.clients,
                       queue, conn.sent, conn.peers)
<1>1. conn \in [status : {"none", "open", "closing", "closed"}, store : {conn.store},
                doc : Conn \cup {NoDoc}, authenticated : BOOLEAN, cursor : Nat,
                clients : SUBSET ClientId, queue : {conn.queue}, sent : {conn.sent},
                peers : SUBSET ClientId]
      BY DEF ConnOK
<1>2. [conn EXCEPT !.status = "closed"] =
          Becomes(conn, "closed", conn.authenticated, conn.cursor, conn.clients,
                  conn.queue, conn.sent, conn.peers)
      BY <1>1 DEF Becomes
<1>3. [conn EXCEPT !.status = "closed", !.queue = queue] =
          [[conn EXCEPT !.status = "closed"] EXCEPT !.queue = queue]
      BY <1>1
<1>4. [Becomes(conn, "closed", conn.authenticated, conn.cursor, conn.clients,
               conn.queue, conn.sent, conn.peers) EXCEPT !.queue = queue] =
          Becomes(conn, "closed", conn.authenticated, conn.cursor, conn.clients,
                  queue, conn.sent, conn.peers)
      BY DEF Becomes
<1> QED
    BY <1>2, <1>3, <1>4

LEMMA SocketClosesKeeps ==
    ASSUME ServerInv, IInv', NEW c \in Conn, SocketCloses(c)
    PROVE  ServerInv'
<1> DEFINE conn == conns[c]
           m == [op |-> "closed"]
           q == Append(conn.queue, m)
           status == "closed"
           new == Becomes(conn, status, conn.authenticated, conn.cursor, conn.clients,
                          q, conn.sent, conn.peers)
<1>1. /\ ConnOK(conn) /\ conn.doc \in Conn /\ conn.doc # NoDoc
      /\ messages \in 0 .. MaxMessages /\ faults \in 0 .. MaxFaults
      BY ActiveConn DEF SocketCloses
<1>2. JobOK(m) /\ m.op # "broadcast" /\ m.op = "closed"
      BY DEF JobOK
<1> HIDE DEF m
<1>3. conns' = [conns EXCEPT ![c] = new]
  <2>1. conns' = [conns EXCEPT ![c] = [conns[c] EXCEPT !.status = status, !.queue = q]]
    <3>1. conns = [o \in Conn |-> conns[o]]
          BY DEF ServerInv, BaseInv, LocalInv
    <3>2. conns' = [conns EXCEPT ![c].status = "closed", ![c].queue = Append(@, m)]
          BY DEF SocketCloses, m
    <3>3. conns' = [conns EXCEPT ![c] = [[conns[c] EXCEPT !.status = "closed"]
                                             EXCEPT !.queue = Append(@, m)]]
          BY <3>1, <3>2
    <3>4. [[conns[c] EXCEPT !.status = "closed"] EXCEPT !.queue = Append(@, m)] =
              [conns[c] EXCEPT !.status = status, !.queue = q]
          BY <1>1 DEF ConnOK
    <3> QED
        BY <3>3, <3>4
  <2> HIDE DEF conn, q
  <2>2. [conn EXCEPT !.status = status, !.queue = q] = new
        BY <1>1, ClosedConn
  <2> QED
      BY <2>1, <2>2 DEF conn
<1>4. messages' \in 0 .. MaxMessages /\ faults' \in 0 .. MaxFaults
      BY <1>1, BoundAssumption DEF SocketCloses, Fault
<1>5. new = Becomes(conn, status, conn.authenticated, conn.cursor, conn.clients,
                    Append(conn.queue, m), conn.sent, conn.peers)
      OBVIOUS
<1>6. status \in {"open", "closing", "closed"} /\ (status = "closed" => m.op = "closed")
      BY <1>2
<1> HIDE DEF status, conn, new
<1>7. ConnOK(new) /\ WillClose(new) /\ Keeps(conn, new)
  <2>1. ConnOK(new)
        BY <1>1, <1>2, <1>5, <1>6, Appended
  <2>2. WillClose(new)
        BY <1>1, <1>2, <1>5, <1>6, Appended
  <2>3. Keeps(conn, new)
        BY <1>1, <1>2, <1>5, <1>6, Appended
  <2> QED
      BY <2>1, <2>2, <2>3
<1>8. new.store = conn.store /\ new.doc = conn.doc /\ new.clients = conn.clients
      BY <1>5, BecomesFields
<1>9. /\ rows' = rows /\ clock' = clock /\ offered' = offered
      /\ docs' = docs /\ liveDocs' = liveDocs /\ dropped' = dropped
      BY DEF SocketCloses
<1>10. conn.clients \subseteq new.clients
       BY <1>8
<1> QED
    BY <1>1, <1>3, <1>4, <1>7, <1>8, <1>9, <1>10, AloneTurn DEF conn

-----------------------------------------------------------------------------
(* Messages of the client that the table has nothing to do with.           *)

LEMMA RestWillClose ==
    ASSUME NEW c, NEW clients, NEW new, ConnOK(conns[c]), conns[c].doc # NoDoc, conns[c].queue # <<>>,
           Head(conns[c].queue).op \notin {"broadcast", "closed"},
           new = Rested(c, conns[c].status, clients)
    PROVE  WillClose(new)
<1> DEFINE conn == conns[c]
           status == conn.status
           q == Tail(conn.queue)
<1>1. status \in {"open", "closing"} \/ \E n \in DOMAIN q : q[n].op = "closed"
      BY JobWillClose
<1>2. new.status = status
  <2> HIDE DEF status
  <2>1. new = Rested(c, status, clients)
        BY DEF status
  <2> QED
      BY <2>1, RestFields
<1>3. new.queue = q
      BY RestFields
<1> QED
    BY <1>1, <1>2, <1>3 DEF WillClose

LEMMA RestKeeps ==
    ASSUME NEW c, NEW clients, NEW new, ConnOK(conns[c]), conns[c].queue # <<>>,
           Head(conns[c].queue).op # "broadcast",
           new = Rested(c, conns[c].status, clients)
    PROVE  Keeps(conns[c], new)
<1>1. /\ new.store = conns[c].store /\ new.queue = Tail(conns[c].queue)
      /\ new.authenticated = conns[c].authenticated /\ new.cursor = conns[c].cursor
      /\ new.sent = conns[c].sent /\ new.peers = conns[c].peers
      BY RestFields
<1> QED
    BY <1>1, PopKeeps

LEMMA InitializeAgainKeeps ==
    ASSUME ServerInv, IInv', NEW c \in Conn, InitializeAgain(c)
    PROVE  ServerInv'
<1> DEFINE conn == conns[c]
           status == conn.status
           clients == conn.clients
           new == Rested(c, status, clients)
<1>0. conn.queue # <<>> /\ Head(conn.queue).op = "init"
      BY DEF InitializeAgain, NextJob
<1>1. /\ ConnOK(conn) /\ conn.doc \in Conn /\ conn.doc # NoDoc
      /\ status \in {"open", "closing", "closed"}
      /\ messages \in 0 .. MaxMessages /\ faults \in 0 .. MaxFaults
      BY <1>0, ActiveConn
<1>2. clients \subseteq ClientId /\ IsFiniteSet(clients) /\ (clients # {} => conn.authenticated)
      BY <1>1 DEF ConnOK
<1>3. conns' = [conns EXCEPT ![c] = new]
      BY <1>1, RestIs DEF InitializeAgain
<1>4. ConnOK(new)
      BY <1>0, <1>1, <1>2, RestOK
<1>5. WillClose(new) /\ Keeps(conn, new)
      BY <1>0, <1>1, RestWillClose, RestKeeps
<1>6. new.store = conn.store /\ new.doc = conn.doc /\ new.clients = clients
  <2> HIDE DEF clients, status
  <2> QED
      BY RestFields
<1>7. /\ rows' = rows /\ clock' = clock /\ offered' = offered
      /\ docs' = docs /\ liveDocs' = liveDocs /\ dropped' = dropped
      /\ messages' \in 0 .. MaxMessages /\ faults' \in 0 .. MaxFaults
      BY <1>1 DEF InitializeAgain
<1>8. conn.clients \subseteq new.clients
      BY <1>6
<1> HIDE DEF new
<1> QED
    BY <1>1, <1>3, <1>4, <1>5, <1>6, <1>7, <1>8, AloneTurn

-----------------------------------------------------------------------------
(* Clients join and leave.                                                 *)

(* The connection tells the others one event, not one of commits.          *)
LEMMA TellTurn ==
    ASSUME ServerInv, IInv', NEW c \in Conn, NEW conn, NEW event,
           conns[c].doc \in Conn,
           conns' = Broadcast([conns EXCEPT ![c] = conn], c, <<event>>),
           ConnOK(conn), conn.store = conns[c].store, conn.doc = conns[c].doc,
           event \in [op : {"client-join", "client-leave"}, client : ClientId],
           WillClose(conn), Keeps(conns[c], conn),
           event.op = "client-join" => event.client \in conn.clients,
           conns[c].clients \ conn.clients \subseteq
               {p \in {event.client} : event.op = "client-leave"},
           rows' = rows, clock' = clock, offered' = offered,
           docs' = docs, liveDocs' = liveDocs, dropped' = dropped,
           messages' \in 0 .. MaxMessages, faults' \in 0 .. MaxFaults
    PROVE  ServerInv'
<1> DEFINE events == <<event>>
           s == conns[c].store
           jobs == JobsOf(s, events)
           M == docs[conns[c].doc].connections \ {c}
<1>1. LocalInv
      BY DEF ServerInv, BaseInv
<1>2. Quiet(c) /\ \A d \in Conn : docs'[d].connections \subseteq docs[d].connections
      BY QuietSame
<1>3. EventsOK(events) /\ DOMAIN events = {1} /\ events[1] = event
  <2>1. events \in Seq({event}) /\ DOMAIN events = 1 .. 1
        OBVIOUS
  <2>2. DOMAIN events = {1} /\ events[1] = event
        BY <2>1
  <2> HIDE DEF events
  <2>3. EventOK(event)
        BY DEF EventOK
  <2> QED
      BY <2>1, <2>2, <2>3 DEF EventsOK, IsQueue
<1> HIDE DEF events
<1>4. Moves(c, conn, jobs, M)
      BY <1>1, BroadcastMoves DEF events
<1>5. JobsFrom(s, jobs) /\ DOMAIN jobs = {1} /\ jobs[1].event = event
  <2>1. JobsFrom(s, jobs) /\ DOMAIN jobs = DOMAIN events
        BY <1>3, JobsOfEvents
  <2>2. \A n \in DOMAIN jobs : jobs[n].event = events[n]
        BY <1>3, JobsOfEvents
  <2> QED
      BY <1>3, <2>1, <2>2
<1> HIDE DEF jobs
<1>6. Turn(c, conn, jobs, M)
      BY <1>2, <1>4, <1>5 DEF Turn
<1>7. NoneCarry(jobs)
      BY <1>5 DEF NoneCarry, Carries
<1>8. JoinsLive(conn, jobs)
      BY <1>5 DEF JoinsLive
<1>9. LossesAnnounced(conns[c], conn, jobs)
  <2> SUFFICES ASSUME NEW p \in conns[c].clients, p \notin conn.clients
               PROVE  \E n \in DOMAIN jobs : jobs[n].event = [op |-> "client-leave", client |-> p]
      BY DEF LossesAnnounced
  <2>1. p = event.client /\ event.op = "client-leave"
        OBVIOUS
  <2>2. event = [op |-> "client-leave", client |-> p]
        BY <2>1
  <2> QED
      BY <1>5, <2>2
<1> QED
    BY <1>2, <1>6, <1>7, <1>8, <1>9, QuietTurn

SameClient(new, old, clients) ==
    new.store = old.store /\ new.doc = old.doc /\ new.clients = clients

LEMMA RestSame ==
    ASSUME NEW c, NEW status, NEW clients
    PROVE  SameClient(Rested(c, status, clients), conns[c], clients)
BY DEF Rested, Becomes, SameClient

LEMMA JoinedOrLeft ==
    ASSUME ServerInv, NEW c \in Conn, NEW op \in {"client-join", "client-leave"}, NextJob(c, op),
           conns[c].authenticated, NEW clients, NEW new,
           clients \subseteq conns[c].clients \cup {Head(conns[c].queue).client},
           new = [Rest(c) EXCEPT !.clients = clients]
    PROVE  /\ Head(conns[c].queue) \in [op : {op}, client : ClientId]
           /\ ConnOK(new) /\ SameClient(new, conns[c], clients)
           /\ WillClose(new) /\ Keeps(conns[c], new)
<1> DEFINE conn == conns[c]
           m == Head(conn.queue)
           status == conn.status
           rested == Rested(c, status, clients)
<1>0. conn.queue # <<>> /\ m.op = op
      BY DEF NextJob
<1>1. /\ ConnOK(conn) /\ conn.doc \in Conn /\ conn.doc # NoDoc
      /\ status \in {"open", "closing", "closed"}
      BY <1>0, ActiveConn
<1>2. JobOK(m)
      BY <1>0, <1>1, TailQueue DEF ConnOK
<1>3. m \in [op : {op}, client : ClientId]
      BY <1>0, <1>2 DEF JobOK
<1>4. clients \subseteq ClientId /\ IsFiniteSet(clients)
  <2>1. conn.clients \subseteq ClientId /\ IsFiniteSet(conn.clients)
        BY <1>1 DEF ConnOK
  <2>2. IsFiniteSet(conn.clients \cup {m.client})
        BY <2>1, FS_AddElement
  <2>3. IsFiniteSet(clients)
        BY <2>2, FS_Subset
  <2> QED
      BY <1>3, <2>1, <2>3
<1>5. new = rested
      BY <1>1, RestMore
<1>6. ConnOK(rested)
      BY <1>0, <1>1, <1>4, RestOK
<1>7. WillClose(new)
      BY <1>0, <1>1, <1>5, RestWillClose
<1>8. Keeps(conn, new)
      BY <1>0, <1>1, <1>5, RestKeeps
<1>9. SameClient(rested, conns[c], clients)
      BY RestSame
<1> HIDE DEF rested, conn, m
<1> QED
    BY <1>3, <1>5, <1>6, <1>7, <1>8, <1>9 DEF conn, m

LEMMA OnClientJoinKeeps ==
    ASSUME ServerInv, IInv', NEW c \in Conn, OnClientJoin(c)
    PROVE  ServerInv'
<1> DEFINE m == Head(conns[c].queue)
           clients == conns[c].clients \cup {m.client}
           new == [Rest(c) EXCEPT !.clients = clients]
           op == "client-join"
<1>0. NextJob(c, op) /\ conns[c].authenticated /\ op \in {"client-join", "client-leave"}
      BY DEF OnClientJoin
<1>1. conns[c].queue # <<>>
      BY <1>0 DEF NextJob
<1>2. conns[c].doc \in Conn /\ messages \in 0 .. MaxMessages /\ faults \in 0 .. MaxFaults
      BY <1>1, ActiveConn
<1>3. conns' = Broadcast([conns EXCEPT ![c] = new], c, <<m>>)
  <2>1. Rest(c).clients = conns[c].clients
        BY <1>1, ActiveConn DEF Rest, ConnOK
  <2> QED
      BY <2>1 DEF OnClientJoin
<1>4. clients \subseteq conns[c].clients \cup {m.client}
      OBVIOUS
<1>5. /\ rows' = rows /\ clock' = clock /\ offered' = offered
      /\ docs' = docs /\ liveDocs' = liveDocs /\ dropped' = dropped
      /\ messages' \in 0 .. MaxMessages /\ faults' \in 0 .. MaxFaults
      BY <1>2 DEF OnClientJoin
<1>6. m.client \in clients /\ conns[c].clients \subseteq clients
      OBVIOUS
<1>7. new = [Rest(c) EXCEPT !.clients = clients]
      OBVIOUS
<1> HIDE DEF new, clients, op
<1>8. m \in [op : {op}, client : ClientId]
      BY <1>0, <1>4, <1>7, JoinedOrLeft
<1>9. ConnOK(new) /\ WillClose(new) /\ Keeps(conns[c], new)
  <2>1. ConnOK(new)
        BY <1>0, <1>4, <1>7, JoinedOrLeft
  <2>2. WillClose(new)
        BY <1>0, <1>4, <1>7, JoinedOrLeft
  <2>3. Keeps(conns[c], new)
        BY <1>0, <1>4, <1>7, JoinedOrLeft
  <2> QED
      BY <2>1, <2>2, <2>3
<1>10. new.store = conns[c].store /\ new.doc = conns[c].doc /\ new.clients = clients
  <2>1. SameClient(new, conns[c], clients)
        BY <1>0, <1>4, <1>7, JoinedOrLeft
  <2> QED
      BY <2>1 DEF SameClient
<1>11. /\ m \in [op : {"client-join", "client-leave"}, client : ClientId]
       /\ (m.op = "client-join" => m.client \in new.clients)
       /\ conns[c].clients \ new.clients \subseteq {p \in {m.client} : m.op = "client-leave"}
       BY <1>6, <1>8, <1>10 DEF op
<1> HIDE DEF m
<1> QED
    BY <1>2, <1>3, <1>5, <1>9, <1>10, <1>11, TellTurn

LEMMA OnClientLeaveKeeps ==
    ASSUME ServerInv, IInv', NEW c \in Conn, OnClientLeave(c)
    PROVE  ServerInv'
<1> DEFINE m == Head(conns[c].queue)
           clients == conns[c].clients \ {m.client}
           new == [Rest(c) EXCEPT !.clients = clients]
           op == "client-leave"
<1>0. NextJob(c, op) /\ conns[c].authenticated /\ op \in {"client-join", "client-leave"}
      BY DEF OnClientLeave
<1>1. conns[c].queue # <<>>
      BY <1>0 DEF NextJob
<1>2. conns[c].doc \in Conn /\ messages \in 0 .. MaxMessages /\ faults \in 0 .. MaxFaults
      BY <1>1, ActiveConn
<1>3. conns' = Broadcast([conns EXCEPT ![c] = new], c, <<m>>)
  <2>1. Rest(c).clients = conns[c].clients
        BY <1>1, ActiveConn DEF Rest, ConnOK
  <2> QED
      BY <2>1 DEF OnClientLeave
<1>4. clients \subseteq conns[c].clients \cup {m.client}
      OBVIOUS
<1>5. /\ rows' = rows /\ clock' = clock /\ offered' = offered
      /\ docs' = docs /\ liveDocs' = liveDocs /\ dropped' = dropped
      /\ messages' \in 0 .. MaxMessages /\ faults' \in 0 .. MaxFaults
      BY <1>2 DEF OnClientLeave
<1>6. conns[c].clients \ clients \subseteq {m.client}
      OBVIOUS
<1>7. new = [Rest(c) EXCEPT !.clients = clients]
      OBVIOUS
<1> HIDE DEF new, clients, op
<1>8. m \in [op : {op}, client : ClientId]
      BY <1>0, <1>4, <1>7, JoinedOrLeft
<1>9. ConnOK(new) /\ WillClose(new) /\ Keeps(conns[c], new)
  <2>1. ConnOK(new)
        BY <1>0, <1>4, <1>7, JoinedOrLeft
  <2>2. WillClose(new)
        BY <1>0, <1>4, <1>7, JoinedOrLeft
  <2>3. Keeps(conns[c], new)
        BY <1>0, <1>4, <1>7, JoinedOrLeft
  <2> QED
      BY <2>1, <2>2, <2>3
<1>10. new.store = conns[c].store /\ new.doc = conns[c].doc /\ new.clients = clients
  <2>1. SameClient(new, conns[c], clients)
        BY <1>0, <1>4, <1>7, JoinedOrLeft
  <2> QED
      BY <2>1 DEF SameClient
<1>11. /\ m \in [op : {"client-join", "client-leave"}, client : ClientId]
       /\ (m.op = "client-join" => m.client \in new.clients)
       /\ conns[c].clients \ new.clients \subseteq {p \in {m.client} : m.op = "client-leave"}
       BY <1>6, <1>8, <1>10 DEF op
<1> HIDE DEF m
<1> QED
    BY <1>2, <1>3, <1>5, <1>9, <1>10, <1>11, TellTurn

-----------------------------------------------------------------------------
(* What a connection sends on.                                             *)

LEMMA TailWillClose ==
    ASSUME NEW conn, NEW new, ConnOK(conn), conn.queue # <<>>, Head(conn.queue).op # "closed",
           new.queue = Tail(conn.queue), new.status = conn.status, WillClose(conn)
    PROVE  WillClose(new)
<1> DEFINE q == conn.queue
<1>1. /\ DOMAIN Tail(q) = 1 .. Len(q) - 1 /\ DOMAIN q = 1 .. Len(q) /\ Len(q) \in Nat \ {0}
      /\ \A n \in 1 .. Len(q) - 1 : Tail(q)[n] = q[n + 1]
      /\ Head(q) = q[1]
      BY TailQueue DEF ConnOK
<1>2. CASE \E n \in DOMAIN q : q[n].op = "closed"
  <2>1. PICK n \in DOMAIN q : q[n].op = "closed"
        BY <1>2
  <2>2. n # 1
        BY <1>1, <2>1
  <2>3. PICK m \in DOMAIN Tail(q) : m + 1 = n
    <3>1. n - 1 \in DOMAIN Tail(q) /\ (n - 1) + 1 = n
          BY <1>1, <2>2
    <3> QED
        BY <3>1
  <2>4. Tail(q)[m].op = "closed"
        BY <1>1, <2>1, <2>3
  <2> QED
      BY <2>3, <2>4 DEF WillClose
<1>3. CASE conn.status \in {"open", "closing"}
      BY <1>3 DEF WillClose
<1> QED
    BY <1>2, <1>3 DEF WillClose

(* What it does with a broadcast.                                          *)
Sending(conn, job, sent, peers) ==
    \/ /\ ~(conn.authenticated /\ job.from # conn.store)
       /\ sent = conn.sent /\ peers = conn.peers
    \/ /\ conn.authenticated /\ job.from # conn.store
       /\ \/ job.event.op = "commits" /\ sent = conn.sent \o job.event.commits /\ peers = conn.peers
          \/ /\ job.event.op = "client-join"
             /\ sent = conn.sent /\ peers = conn.peers \cup {job.event.client}
          \/ /\ job.event.op = "client-leave"
             /\ sent = conn.sent /\ peers = conn.peers \ {job.event.client}

LEMMA SendingOK ==
    ASSUME NEW conn, NEW job, NEW sent, NEW peers,
           ConnOK(conn), JobOK(job), job.op = "broadcast", Sending(conn, job, sent, peers)
    PROVE  /\ IsQueue(sent) /\ Elements(sent) \subseteq Ref
           /\ peers \subseteq ClientId /\ (peers # {} => conn.authenticated)
           /\ Elements(conn.sent) \cup (IF Passes(conn, job) THEN Elements(job.event.commits) ELSE {})
                  \subseteq Elements(sent)
           /\ \/ ~Passes(conn, job) /\ sent = conn.sent
              \/ Passes(conn, job) /\ sent = conn.sent \o job.event.commits
           /\ \A p \in ClientId : IsAbout(job, "client-leave", conn.store, p) => p \notin peers
           /\ \A p \in peers : p \in conn.peers \/ IsAbout(job, "client-join", conn.store, p)
<1>1. /\ IsQueue(conn.sent) /\ Elements(conn.sent) \subseteq Ref /\ conn.peers \subseteq ClientId
      /\ (conn.peers # {} => conn.authenticated)
      BY DEF ConnOK
<1>2. EventOK(job.event)
      BY DEF JobOK
<1>3. CASE ~(conn.authenticated /\ job.from # conn.store)
  <2>1. sent = conn.sent /\ peers = conn.peers /\ ~Passes(conn, job)
        BY <1>3 DEF Sending, Passes
  <2>2. \A p \in ClientId : IsAbout(job, "client-leave", conn.store, p) => p \notin peers
        BY <1>1, <1>3, <2>1 DEF IsAbout
  <2> QED
      BY <1>1, <2>1, <2>2
<1>4. CASE conn.authenticated /\ job.from # conn.store /\ job.event.op = "commits"
  <2>1. sent = conn.sent \o job.event.commits /\ peers = conn.peers /\ Passes(conn, job)
        BY <1>4 DEF Sending, Passes, Carries
  <2>2. IsQueue(job.event.commits) /\ Elements(job.event.commits) \subseteq Ref
        BY <1>2, <1>4 DEF EventOK
  <2>3. IsQueue(sent) /\ Elements(sent) = Elements(conn.sent) \cup Elements(job.event.commits)
        BY <1>1, <2>1, <2>2, QueueConcat
  <2>4. \A p \in ClientId : ~IsAbout(job, "client-leave", conn.store, p)
        BY <1>4 DEF IsAbout
  <2> QED
      BY <1>1, <1>4, <2>1, <2>2, <2>3, <2>4
<1>5. CASE conn.authenticated /\ job.from # conn.store /\ job.event.op = "client-join"
  <2>1. /\ sent = conn.sent /\ peers = conn.peers \cup {job.event.client} /\ ~Passes(conn, job)
        BY <1>5 DEF Sending, Passes, Carries
  <2>2. job.event \in [op : {"client-join"}, client : ClientId]
        BY <1>2, <1>5 DEF EventOK
  <2>3. \A p \in ClientId : ~IsAbout(job, "client-leave", conn.store, p)
        BY <1>5 DEF IsAbout
  <2>4. IsAbout(job, "client-join", conn.store, job.event.client)
        BY <1>5, <2>2 DEF IsAbout
  <2> QED
      BY <1>1, <1>5, <2>1, <2>2, <2>3, <2>4
<1>6. CASE conn.authenticated /\ job.from # conn.store /\ job.event.op = "client-leave"
  <2>1. /\ sent = conn.sent /\ peers = conn.peers \ {job.event.client} /\ ~Passes(conn, job)
        BY <1>6 DEF Sending, Passes, Carries
  <2>2. \A p \in ClientId : IsAbout(job, "client-leave", conn.store, p) => p \notin peers
        BY <1>6, <2>1 DEF IsAbout
  <2> QED
      BY <1>1, <1>6, <2>1, <2>2
<1> QED
    BY <1>3, <1>4, <1>5, <1>6 DEF Sending

LEMMA PassOnKeeps ==
    ASSUME BaseInv, NEW conn, NEW sent, NEW peers, NEW new,
           ConnOK(conn), conn.doc # NoDoc, conn.queue # <<>>, Head(conn.queue).op = "broadcast",
           Sending(conn, Head(conn.queue), sent, peers),
           new = Becomes(conn, conn.status, conn.authenticated, conn.cursor, conn.clients,
                         Tail(conn.queue), sent, peers)
    PROVE  ConnOK(new) /\ Keeps(conn, new) /\ (WillClose(conn) => WillClose(new))
<1> DEFINE job == Head(conn.queue)
           q == Tail(conn.queue)
<1>1. JobOK(job) /\ job = conn.queue[1]
      BY TailQueue DEF ConnOK
<1>2. /\ IsQueue(sent) /\ Elements(sent) \subseteq Ref
      /\ peers \subseteq ClientId /\ (peers # {} => conn.authenticated)
      BY <1>1, SendingOK
<1>3. Elements(conn.sent) \cup Passed(conn, 1) \subseteq Elements(sent)
      BY <1>1, SendingOK DEF Passed
<1>4. \/ ~Passes(conn, job) /\ sent = conn.sent
      \/ Passes(conn, job) /\ sent = conn.sent \o job.event.commits
      BY <1>1, SendingOK
<1>5. \A p \in ClientId : IsAbout(job, "client-leave", conn.store, p) => p \notin peers
      BY <1>1, SendingOK
<1>6. \A p \in peers : p \in conn.peers \/ IsAbout(job, "client-join", conn.store, p)
      BY <1>1, SendingOK
<1>7. /\ conn.authenticated \in BOOLEAN /\ conn.cursor \in Nat
      /\ conn.clients \subseteq ClientId /\ IsFiniteSet(conn.clients)
      /\ (conn.clients # {} => conn.authenticated)
      /\ conn.status \in {"open", "closing", "closed"}
      BY DEF ConnOK
<1>8. ConnOK(new)
      BY <1>2, <1>7, PopOK
<1>9. /\ new.queue = q /\ new.status = conn.status /\ new.store = conn.store
      /\ new.authenticated = conn.authenticated /\ new.cursor = conn.cursor
      /\ new.sent = sent /\ new.peers = peers
  <2> HIDE DEF q
  <2>1. new = Becomes(conn, conn.status, conn.authenticated, conn.cursor, conn.clients,
                      q, sent, peers)
        BY DEF q
  <2> QED
      BY <2>1 DEF Becomes
<1>10. WillClose(conn) => WillClose(new)
       BY <1>9, TailWillClose
<1>11. KeepsGhost(conn, new)
  <2> SUFFICES ASSUME NEW living, NEW living2, living \subseteq living2, GhostOK(conn, living)
               PROVE  GhostOK(new, living2)
      BY DEF KeepsGhost
  <2> HIDE DEF job
  <2>1. \A p \in ClientId :
            IsAbout(Head(conn.queue), "client-leave", conn.store, p) => p \notin new.peers
        BY <1>5, <1>9 DEF job
  <2>2. \A p \in new.peers :
            p \in conn.peers \/ IsAbout(Head(conn.queue), "client-join", conn.store, p)
        BY <1>6, <1>9 DEF job
  <2>3. new.peers \subseteq ClientId
        BY <1>2, <1>9
  <2> QED
      BY <1>9, <2>1, <2>2, <2>3, PopGhost
<1>12. ASSUME NEW mine, GapOK(conn, rows, mine)
       PROVE  GapOK(new, rows, mine)
  <2> DEFINE fresh == {}
  <2>1. /\ mine \cup fresh \subseteq mine
        /\ NewerRefs(rows, conn.cursor) \subseteq NewerRefs(rows, conn.cursor) \cup fresh
        OBVIOUS
  <2>2. Elements(conn.sent) \cup Passed(conn, 1) \subseteq Elements(new.sent)
        BY <1>3, <1>9
  <2> HIDE DEF fresh
  <2> QED
      BY <1>9, <1>12, <2>1, <2>2, PopGap
<1>13. ASSUME NEW mine, OrderOK(conn, rows, mine)
       PROVE  OrderOK(new, rows, mine)
  <2>1. /\ mine \subseteq mine /\ RefsOf(rows) \subseteq RefsOf(rows)
        /\ OldRefs(rows, conn.cursor) \subseteq OldRefs(rows, conn.cursor)
        OBVIOUS
  <2>2. \/ ~Passes(conn, Head(conn.queue)) /\ new.sent = conn.sent
        \/ Passes(conn, Head(conn.queue)) /\ new.sent = conn.sent \o Head(conn.queue).event.commits
        BY <1>4, <1>9
  <2> QED
      BY <1>9, <1>13, <2>1, <2>2, PopOrder
<1>14. \A mine : KeepsServed(conn, new, rows, rows, mine, mine)
       BY <1>12, <1>13 DEF KeepsServed
<1> QED
    BY <1>8, <1>10, <1>11, <1>14 DEF Keeps

LEMMA SentOn ==
    ASSUME NEW conn, ConnOK(conn), NEW sent, NEW peers
    PROVE  /\ [[conn EXCEPT !.queue = Tail(@)] EXCEPT !.sent = sent] =
                  Becomes(conn, conn.status, conn.authenticated, conn.cursor, conn.clients,
                          Tail(conn.queue), sent, conn.peers)
           /\ [[conn EXCEPT !.queue = Tail(@)] EXCEPT !.peers = peers] =
                  Becomes(conn, conn.status, conn.authenticated, conn.cursor, conn.clients,
                          Tail(conn.queue), conn.sent, peers)
<1> DEFINE q == Tail(conn.queue)
           popped == Becomes(conn, conn.status, conn.authenticated, conn.cursor, conn.clients,
                             q, conn.sent, conn.peers)
<1>1. [conn EXCEPT !.queue = Tail(@)] = popped
      BY PopIs
<1> HIDE DEF q
<1>2. [popped EXCEPT !.sent = sent] =
          Becomes(conn, conn.status, conn.authenticated, conn.cursor, conn.clients,
                  q, sent, conn.peers)
      BY DEF Becomes
<1>3. [popped EXCEPT !.peers = peers] =
          Becomes(conn, conn.status, conn.authenticated, conn.cursor, conn.clients,
                  q, conn.sent, peers)
      BY DEF Becomes
<1> HIDE DEF popped
<1> QED
    BY <1>1, <1>2, <1>3 DEF q

LEMMA ReceiveBroadcastSends ==
    ASSUME ServerInv, NEW c \in Conn, ReceiveBroadcast(c)
    PROVE  \E sent, peers :
               /\ Sending(conns[c], Head(conns[c].queue), sent, peers)
               /\ conns' = [conns EXCEPT ![c] =
                     Becomes(conns[c], conns[c].status, conns[c].authenticated, conns[c].cursor,
                             conns[c].clients, Tail(conns[c].queue), sent, peers)]
<1> DEFINE conn == conns[c]
           job == Head(conn.queue)
           event == job.event
           Popped(sent, peers) ==
               Becomes(conn, conn.status, conn.authenticated, conn.cursor,
                       conn.clients, Tail(conn.queue), sent, peers)
           Result(new) == conns' = [conns EXCEPT ![c] = new]
<1>0. conn.queue # <<>> /\ job.op = "broadcast"
      BY DEF ReceiveBroadcast, NextJob
<1>1. ConnOK(conn)
      BY <1>0, ActiveConn
<1>2. JobOK(job)
      BY <1>0, <1>1, TailQueue DEF ConnOK
<1>3. EventOK(event)
      BY <1>0, <1>2 DEF JobOK
<1>4. event.op \in {"commits", "client-join", "client-leave"}
      BY <1>3 DEF EventOK
<1>5. /\ Rest(c) = Popped(conn.sent, conn.peers)
      /\ \A sent : [Rest(c) EXCEPT !.sent = sent] = Popped(sent, conn.peers)
      /\ \A peers : [Rest(c) EXCEPT !.peers = peers] = Popped(conn.sent, peers)
  <2>1. Rest(c) = Popped(conn.sent, conn.peers)
        BY <1>1, PopIs DEF Rest
  <2>2. \A sent : [Rest(c) EXCEPT !.sent = sent] = Popped(sent, conn.peers)
        BY <1>1, SentOn DEF Rest
  <2>3. \A peers : [Rest(c) EXCEPT !.peers = peers] = Popped(conn.sent, peers)
        BY <1>1, SentOn DEF Rest
  <2> QED
      BY <2>1, <2>2, <2>3
<1>6. Rest(c).sent = conn.sent /\ Rest(c).peers = conn.peers
      BY <1>1 DEF Rest, ConnOK
<1>7. Result(CASE ~SendsOn(c, job) -> Rest(c)
                [] SendsOn(c, job) /\ event.op = "commits" ->
                      [Rest(c) EXCEPT !.sent = @ \o event.commits]
                [] SendsOn(c, job) /\ event.op = "client-join" ->
                      [Rest(c) EXCEPT !.peers = @ \cup {event.client}]
                [] SendsOn(c, job) /\ event.op = "client-leave" ->
                      [Rest(c) EXCEPT !.peers = @ \ {event.client}])
      BY DEF ReceiveBroadcast
<1> HIDE DEF Popped, Result, event
<1>8. CASE ~SendsOn(c, job)
  <2>1. Result(Popped(conn.sent, conn.peers))
        BY <1>5, <1>7, <1>8
  <2>2. Sending(conn, job, conn.sent, conn.peers)
        BY <1>8 DEF SendsOn, Sending
  <2> QED
      BY <2>1, <2>2 DEF Result, Popped
<1>9. CASE SendsOn(c, job) /\ event.op = "commits"
  <2> DEFINE sent == conn.sent \o event.commits
  <2>1. Result([Rest(c) EXCEPT !.sent = sent])
        BY <1>6, <1>7, <1>9
  <2>2. Result(Popped(sent, conn.peers))
        BY <1>5, <2>1
  <2>3. Sending(conn, job, sent, conn.peers)
        BY <1>9 DEF SendsOn, Sending, event
  <2> QED
      BY <2>2, <2>3 DEF Result, Popped
<1>10. CASE SendsOn(c, job) /\ event.op = "client-join"
  <2> DEFINE peers == conn.peers \cup {event.client}
  <2>1. Result([Rest(c) EXCEPT !.peers = peers])
        BY <1>6, <1>7, <1>10
  <2>2. Result(Popped(conn.sent, peers))
        BY <1>5, <2>1
  <2>3. Sending(conn, job, conn.sent, peers)
        BY <1>10 DEF SendsOn, Sending, event
  <2> QED
      BY <2>2, <2>3 DEF Result, Popped
<1>11. CASE SendsOn(c, job) /\ event.op = "client-leave"
  <2> DEFINE peers == conn.peers \ {event.client}
  <2>1. Result([Rest(c) EXCEPT !.peers = peers])
        BY <1>6, <1>7, <1>11
  <2>2. Result(Popped(conn.sent, peers))
        BY <1>5, <2>1
  <2>3. Sending(conn, job, conn.sent, peers)
        BY <1>11 DEF SendsOn, Sending, event
  <2> QED
      BY <2>2, <2>3 DEF Result, Popped
<1> QED
    BY <1>4, <1>8, <1>9, <1>10, <1>11

LEMMA ReceiveBroadcastKeeps ==
    ASSUME ServerInv, IInv', NEW c \in Conn, ReceiveBroadcast(c)
    PROVE  ServerInv'
<1> DEFINE conn == conns[c]
<1>0. conn.queue # <<>> /\ Head(conn.queue).op = "broadcast"
      BY DEF ReceiveBroadcast, NextJob
<1>1. /\ ConnOK(conn) /\ conn.doc \in Conn /\ conn.doc # NoDoc
      /\ messages \in 0 .. MaxMessages /\ faults \in 0 .. MaxFaults
      BY <1>0, ActiveConn
<1>2. PICK sent, peers :
          /\ Sending(conn, Head(conn.queue), sent, peers)
          /\ conns' = [conns EXCEPT ![c] =
                Becomes(conn, conn.status, conn.authenticated, conn.cursor, conn.clients,
                        Tail(conn.queue), sent, peers)]
      BY ReceiveBroadcastSends
<1> DEFINE new == Becomes(conn, conn.status, conn.authenticated, conn.cursor, conn.clients,
                          Tail(conn.queue), sent, peers)
<1>3. BaseInv
      BY DEF ServerInv
<1>4. ConnOK(new) /\ Keeps(conn, new) /\ (WillClose(conn) => WillClose(new))
  <2>1. ConnOK(new)
        BY <1>0, <1>1, <1>2, <1>3, PassOnKeeps
  <2>2. Keeps(conn, new)
        BY <1>0, <1>1, <1>2, <1>3, PassOnKeeps
  <2>3. WillClose(conn) => WillClose(new)
        BY <1>0, <1>1, <1>2, <1>3, PassOnKeeps
  <2> QED
      BY <2>1, <2>2, <2>3
<1>5. new.store = conn.store /\ new.doc = conn.doc /\ new.clients = conn.clients
      BY DEF Becomes
<1>6. /\ rows' = rows /\ clock' = clock /\ offered' = offered
      /\ docs' = docs /\ liveDocs' = liveDocs /\ dropped' = dropped
      /\ messages' \in 0 .. MaxMessages /\ faults' \in 0 .. MaxFaults
      BY <1>1 DEF ReceiveBroadcast
<1>7. conn.clients \subseteq new.clients
      BY <1>5
<1>8. conns' = [conns EXCEPT ![c] = new]
      BY <1>2
<1> HIDE DEF new
<1> QED
    BY <1>1, <1>4, <1>5, <1>6, <1>7, <1>8, AloneTurn

-----------------------------------------------------------------------------
(* init.                                                                   *)

LEMMA InitConn ==
    ASSUME NEW conn, ConnOK(conn), NEW yes, NEW cursor, NEW x, NEW sent
    PROVE  LET ready == [[conn EXCEPT !.queue = Tail(@)]
                            EXCEPT !.authenticated = yes, !.cursor = cursor]
           IN  /\ [ready EXCEPT !.sent = sent] =
                      Becomes(conn, conn.status, yes, cursor, conn.clients,
                              Tail(conn.queue), sent, conn.peers)
               /\ [ready EXCEPT !.status = IF @ = "open" THEN "closing" ELSE @] =
                      Becomes(conn, IF conn.status = "open" THEN "closing" ELSE conn.status,
                              yes, cursor, conn.clients,
                              Tail(conn.queue), conn.sent, conn.peers)
<1> DEFINE q == Tail(conn.queue)
           popped == Becomes(conn, conn.status, conn.authenticated, conn.cursor, conn.clients,
                             q, conn.sent, conn.peers)
           ready == Becomes(conn, conn.status, yes, cursor, conn.clients,
                            q, conn.sent, conn.peers)
           status == IF conn.status = "open" THEN "closing" ELSE conn.status
<1>1. [conn EXCEPT !.queue = Tail(@)] = popped
      BY PopIs
<1> HIDE DEF q
<1>2. [popped EXCEPT !.authenticated = yes, !.cursor = cursor] = ready
  <2> DEFINE st == conn.status
             half == Becomes(conn, st, yes, conn.cursor, conn.clients,
                             q, conn.sent, conn.peers)
  <2>1. [popped EXCEPT !.authenticated = yes] = half
        BY DEF Becomes
  <2>2. [half EXCEPT !.cursor = cursor] = ready
        BY DEF Becomes
  <2>3. [popped EXCEPT !.authenticated = yes, !.cursor = cursor] =
            [[popped EXCEPT !.authenticated = yes] EXCEPT !.cursor = cursor]
        BY DEF Becomes
  <2> HIDE DEF half, ready, popped
  <2> QED
      BY <2>1, <2>2, <2>3
<1>3. [ready EXCEPT !.sent = sent] =
          Becomes(conn, conn.status, yes, cursor, conn.clients, q, sent, conn.peers)
      BY DEF Becomes
<1>4. ready.status = conn.status
      BY DEF Becomes
<1>5. [ready EXCEPT !.status = status] =
          Becomes(conn, status, yes, cursor, conn.clients, q, conn.sent, conn.peers)
      BY BecomesStatus
<1> HIDE DEF popped, ready
<1>6. [ready EXCEPT !.status = IF @ = "open" THEN "closing" ELSE @] =
          Becomes(conn, status, yes, cursor, conn.clients, q, conn.sent, conn.peers)
      BY <1>4, <1>5
<1> QED
    BY <1>1, <1>2, <1>3, <1>6 DEF q

LEMMA InitializeKeeps ==
    ASSUME ServerInv, IInv', NEW c \in Conn, Initialize(c)
    PROVE  ServerInv'
<1> DEFINE conn == conns[c]
           cursor == Head(conn.queue).cursor
           q == Tail(conn.queue)
           yes == TRUE
<1>0. conn.queue # <<>> /\ Head(conn.queue).op = "init" /\ ~conn.authenticated
      BY DEF Initialize, NextJob
<1>1. /\ ConnOK(conn) /\ conn.doc \in Conn /\ conn.doc # NoDoc /\ LocalInv
      /\ conn.status \in {"open", "closing", "closed"}
      /\ messages \in 0 .. MaxMessages /\ faults \in 0 .. MaxFaults
      BY <1>0, ActiveConn
<1>2. JobOK(Head(conn.queue))
      BY <1>0, <1>1, TailQueue DEF ConnOK
<1>3. cursor \in Nat
      BY <1>0, <1>2 DEF JobOK
<1>4. /\ conn.clients = {} /\ conn.peers = {}
      /\ IsQueue(conn.sent) /\ Elements(conn.sent) \subseteq Ref
      BY <1>0, <1>1 DEF ConnOK
<1>5. IsFiniteSet({})
      BY FS_EmptySet
<1>6. BaseInv /\ RowsOK(rows, clock)
      BY DEF ServerInv, BaseInv
<1>7. /\ rows' = rows /\ clock' = clock /\ offered' = offered
      /\ messages' \in 0 .. MaxMessages /\ faults' \in 0 .. MaxFaults
      BY <1>1 DEF Initialize
<1> DEFINE ready == [[conn EXCEPT !.queue = Tail(@)]
                        EXCEPT !.authenticated = yes, !.cursor = cursor]
<1>8. CASE docs[conn.doc].open
  <2> DEFINE sent == GetCommitsEvent(rows, cursor)
             new == Becomes(conn, conn.status, yes, cursor, conn.clients, q, sent, conn.peers)
  <2>1. conns' = [conns EXCEPT ![c] = [ready EXCEPT !.sent = sent]]
        BY <1>8 DEF Initialize, Rest, yes
  <2>2. /\ docs' = docs /\ liveDocs' = liveDocs /\ dropped' = dropped
        BY <1>8 DEF Initialize
  <2> HIDE DEF cursor, sent, yes
  <2>3. [ready EXCEPT !.sent = sent] = new
        BY <1>1, InitConn
  <2>4. conns' = [conns EXCEPT ![c] = new]
        BY <2>1, <2>3
  <2>5a. yes \in BOOLEAN
        BY DEF yes
  <2>5. IsQueue(sent) /\ Elements(sent) \subseteq Ref
    <3>1. \A n \in DOMAIN rows : /\ rows[n].remoteSyncId \in Nat /\ rows[n].remoteSyncIndex \in Nat
                                 /\ rows[n].ref \in Ref
          BY <1>6, BoundAssumption DEF RowsOK, Row
    <3>2. ServesOK(rows, cursor, sent)
          BY <1>6, <3>1, ServesRows DEF RowsOK, sent
    <3> QED
        BY <3>1, <3>2 DEF ServesOK, Selected
  <2>6. ConnOK(new)
        BY <1>0, <1>1, <1>3, <1>4, <1>5, <2>5, <2>5a, PopOK
  <2> HIDE DEF q
  <2>7. /\ new.queue = q /\ new.status = conn.status /\ new.store = conn.store
        /\ new.doc = conn.doc /\ new.clients = {} /\ new.peers = {}
        /\ new.cursor = cursor /\ new.sent = sent
        BY <1>4 DEF Becomes
  <2> HIDE DEF new
  <2>8. KeepsGhost(conn, new)
    <3> SUFFICES ASSUME NEW living, NEW living2, living \subseteq living2, GhostOK(conn, living)
                 PROVE  GhostOK(new, living2)
        BY DEF KeepsGhost
    <3>1. \A p \in ClientId :
              IsAbout(Head(conn.queue), "client-leave", conn.store, p) => p \notin new.peers
          BY <2>7
    <3>2. \A p \in new.peers :
              p \in conn.peers \/ IsAbout(Head(conn.queue), "client-join", conn.store, p)
          BY <2>7
    <3>3. new.peers \subseteq ClientId /\ new.queue = Tail(conn.queue) /\ new.store = conn.store
          BY <2>7 DEF q
    <3> QED
        BY <1>0, <1>1, <3>1, <3>2, <3>3, PopGhost
  <2>9. ASSUME NEW mine PROVE GapOK(new, rows, mine)
        BY <1>6, <2>7, ServedGap DEF sent
  <2>10. ASSUME NEW mine, Unique(rows), OrderOK(conn, rows, mine)
         PROVE  OrderOK(new, rows, mine)
    <3>1. new.queue = Tail(conn.queue) /\ new.cursor = cursor /\ new.sent = GetCommitsEvent(rows, cursor)
          BY <2>7 DEF q, sent
    <3> QED
        BY <1>0, <1>1, <1>3, <1>6, <2>10, <3>1, ServedOrder DEF cursor
  <2>11. Keeps(conn, new)
         BY <2>8, <2>9, <2>10 DEF Keeps, KeepsServed
  <2>12. WillClose(conn) => WillClose(new)
         BY <1>0, <1>1, <2>7, TailWillClose DEF q
  <2>13. conn.clients \subseteq new.clients
         BY <1>4
  <2> QED
      BY <1>1, <1>7, <2>2, <2>4, <2>6, <2>7, <2>11, <2>12, <2>13, AloneTurn
<1>9. CASE ~docs[conn.doc].open
  <2> DEFINE status == IF conn.status = "open" THEN "closing" ELSE conn.status
             new == Becomes(conn, status, yes, cursor, conn.clients, q, conn.sent, conn.peers)
  <2>1. OnClosed(c, [ready EXCEPT !.status = IF @ = "open" THEN "closing" ELSE @])
        BY <1>9 DEF Initialize, Rest, yes, CloseWithCode
  <2> HIDE DEF cursor, yes
  <2>2. [ready EXCEPT !.status = IF @ = "open" THEN "closing" ELSE @] = new
        BY <1>1, InitConn
  <2>3. OnClosed(c, new)
        BY <2>1, <2>2
  <2>4. status \in {"open", "closing", "closed"} /\ (status = "closed" => conn.status = "closed")
        BY <1>1
  <2> HIDE DEF status
  <2>7. yes \in BOOLEAN
        BY DEF yes
  <2>5. ConnOK(new)
        BY <1>0, <1>1, <1>3, <1>4, <1>5, <2>4, <2>7, PopOK
  <2>6. new.store = conn.store /\ new.doc = conn.doc
        BY DEF Becomes
  <2> HIDE DEF new
  <2> QED
      BY <1>1, <1>7, <2>3, <2>5, <2>6, ClosedTurn
<1> QED
    BY <1>8, <1>9

-----------------------------------------------------------------------------
(* commits.                                                                *)

(* The step adds commits of the message to the table.                      *)
LEMMA AddedToTable ==
    ASSUME BaseInv, NEW d \in Conn, NEW batch \in Batch, NEW t \in 1 .. MaxClock, t >= clock,
           NEW added, added = LiveDocAddCommits(rows, docs[d].memory, batch, t)
    PROVE  /\ AddsOK(rows, docs[d].memory, batch, t, added)
           /\ IsQueue(rows) /\ IsQueue(batch) /\ Elements(batch) \subseteq Ref
           /\ RowsOK(added.rows, t)
<1>1. IsQueue(batch) /\ Elements(batch) \subseteq Ref
  <2>1. batch \in Seq(Ref)
        BY BatchAssumption
  <2>2. \A n \in DOMAIN batch : batch[n] \in Ref
        BY <2>1
  <2> QED
      BY <2>1, <2>2 DEF IsQueue, Elements
<1>2. IsQueue(rows) /\ RowsOK(rows, clock)
      BY DEF BaseInv, RowsOK
<1>3. AddsOK(rows, docs[d].memory, batch, t, added)
      BY <1>1, <1>2, AddsCommits
<1>4. docs[d].memory.seenRefs \subseteq RefsOf(rows) /\ clock \in Nat
      BY BoundAssumption DEF BaseInv, MemoryInv, CountInv
<1>5. RowsOK(added.rows, t)
      BY <1>1, <1>2, <1>3, <1>4, RowsStayOK
<1> QED
    BY <1>1, <1>2, <1>3, <1>5

LEMMA AddedMemory ==
    ASSUME BaseInv, NEW d \in Conn, NEW batch, NEW t, NEW added,
           AddsOK(rows, docs[d].memory, batch, t, added),
           IsQueue(rows), IsQueue(batch), Elements(batch) \subseteq Ref, RowsOK(added.rows, t)
    PROVE  /\ added.memory \in [seenRefs : SUBSET Ref, headRef : Ref \cup {NoRef}]
           /\ added.memory.seenRefs \subseteq RefsOf(added.rows)
<1>1. /\ docs[d].memory.seenRefs \subseteq RefsOf(rows)
      /\ docs[d].memory.headRef \in Ref \cup {NoRef}
      BY DEF BaseInv, MemoryInv
<1>2. added.memory.seenRefs \subseteq RefsOf(added.rows)
      BY <1>1, BroadcastOrder
<1>3. RefsOf(added.rows) \subseteq Ref
      BY DEF RowsOK, RefsOf, Row
<1>4. /\ added.memory.headRef \in Elements(batch) \cup {docs[d].memory.headRef}
      /\ added.memory = [seenRefs |-> docs[d].memory.seenRefs \cup NewRefs(added.rows, Len(rows)),
                         headRef |-> added.memory.headRef]
      BY DEF AddsOK
<1> QED
    BY <1>1, <1>2, <1>3, <1>4

LEMMA OnCommitsRest ==
    ASSUME ServerInv, NEW c \in Conn, NEW t \in 1 .. MaxClock, t >= clock,
           NEW d \in Conn, NEW batch \in Batch, NEW added, NEW s \in Store,
           added = LiveDocAddCommits(rows, docs[d].memory, batch, t),
           rows' = added.rows, clock' = t,
           docs' = [docs EXCEPT ![d].memory = added.memory],
           offered' = [offered EXCEPT ![s] = @ \cup added.acks],
           liveDocs' = liveDocs, dropped' = dropped,
           messages' = messages, faults' = faults
    PROVE  /\ LiveInv' /\ MemoryInv' /\ CountInv' /\ RowsOK(rows', clock')
           /\ \A x \in Conn : docs'[x].connections \subseteq docs[x].connections
<1>0. BaseInv
      BY DEF ServerInv
<1>1. /\ AddsOK(rows, docs[d].memory, batch, t, added)
      /\ IsQueue(rows) /\ IsQueue(batch) /\ Elements(batch) \subseteq Ref
      /\ RowsOK(added.rows, t)
  <2>1. AddsOK(rows, docs[d].memory, batch, t, added)
        BY <1>0, AddedToTable
  <2>2. IsQueue(rows) /\ IsQueue(batch) /\ Elements(batch) \subseteq Ref
        BY <1>0, AddedToTable
  <2>3. RowsOK(added.rows, t)
        BY <1>0, AddedToTable
  <2> QED
      BY <2>1, <2>2, <2>3
<1>2. /\ added.memory \in [seenRefs : SUBSET Ref, headRef : Ref \cup {NoRef}]
      /\ added.memory.seenRefs \subseteq RefsOf(added.rows)
      BY <1>0, <1>1, AddedMemory
<1>3. /\ \A x \in Conn \ {d} : docs'[x] = docs[x]
      /\ docs'[d].memory = added.memory /\ docs'[d].connections = docs[d].connections
      /\ docs'[d].open = docs[d].open
  <2>1. docs = [x \in Conn |-> docs[x]] /\ DocShape(docs[d])
        BY <1>0 DEF BaseInv, IInv, Shape
  <2>2. docs'[d] = [docs[d] EXCEPT !.memory = added.memory]
        BY <2>1
  <2> QED
      BY <2>1, <2>2 DEF DocShape
<1>4. LiveInv'
  <2> SUFFICES ASSUME ~dropped, NEW x \in Conn, docs'[x].open PROVE x = liveDocs
      BY DEF LiveInv
  <2>1. docs[x].open
        BY <1>3
  <2> QED
      BY <1>0, <2>1 DEF BaseInv, LiveInv
<1>5. MemoryInv'
  <2>1. docs[d].memory.seenRefs \subseteq RefsOf(rows)
        BY <1>0 DEF BaseInv, MemoryInv
  <2>2. Grows(rows, added.rows)
        BY <1>1, <2>1, BroadcastOrder
  <2>3. RefsOf(rows) \subseteq RefsOf(added.rows)
        BY <2>2, GrowsRefs
  <2>4. ASSUME NEW x \in Conn
        PROVE  /\ docs'[x].memory \in [seenRefs : SUBSET Ref, headRef : Ref \cup {NoRef}]
               /\ docs'[x].memory.seenRefs \subseteq RefsOf(rows')
    <3>1. CASE x = d
          BY <1>2, <1>3, <3>1
    <3>2. CASE x # d
      <4>1. docs'[x] = docs[x]
            BY <1>3, <3>2
      <4> QED
          BY <1>0, <2>3, <4>1 DEF BaseInv, MemoryInv
    <3> QED
        BY <3>1, <3>2
  <2> QED
      BY <2>4 DEF MemoryInv
<1>6. CountInv'
  <2>1. docs[d].memory.seenRefs \subseteq RefsOf(rows)
        BY <1>0 DEF BaseInv, MemoryInv
  <2>2. added.acks \subseteq Ref
        BY <1>1, <2>1, BroadcastOrder
  <2>3. CountInv
        BY <1>0 DEF BaseInv
  <2> QED
      BY <2>2, <2>3 DEF CountInv
<1>7. RowsOK(rows', clock')
      BY <1>1
<1>8. \A x \in Conn : docs'[x].connections \subseteq docs[x].connections
      BY <1>3
<1> QED
    BY <1>4, <1>5, <1>6, <1>7, <1>8

(* c takes its job from the queue and has the fresh commits itself.        *)
LEMMA PopServed ==
    ASSUME NEW conn, NEW new, NEW table, NEW table2, NEW mine, NEW mine2, NEW fresh,
           ConnOK(conn), conn.queue # <<>>, Head(conn.queue).op # "broadcast",
           new.queue = Tail(conn.queue), new.store = conn.store,
           new.authenticated = conn.authenticated, new.cursor = conn.cursor,
           new.sent = conn.sent,
           Grows(table, table2), fresh = NewRefs(table2, Len(table)),
           mine \cup fresh \subseteq mine2
    PROVE  KeepsServed(conn, new, table, table2, mine, mine2)
<1>1. ~Passes(conn, Head(conn.queue)) /\ Passed(conn, 1) = {}
  <2>1. Head(conn.queue) = conn.queue[1]
        BY TailQueue DEF ConnOK
  <2> QED
      BY <2>1, NotCarried
<1>2. /\ RefsOf(table) \subseteq RefsOf(table2)
      /\ OldRefs(table, conn.cursor) \subseteq OldRefs(table2, conn.cursor)
      /\ NewerRefs(table2, conn.cursor) \subseteq NewerRefs(table, conn.cursor) \cup fresh
  <2>1. RefsOf(table) \subseteq RefsOf(table2)
        BY GrowsRefs
  <2>2. OldRefs(table, conn.cursor) \subseteq OldRefs(table2, conn.cursor)
        BY GrowsRefs
  <2>3. NewerRefs(table2, conn.cursor) \subseteq NewerRefs(table, conn.cursor) \cup fresh
        BY GrowsRefs
  <2> QED
      BY <2>1, <2>2, <2>3
<1>3. ASSUME GapOK(conn, table, mine) PROVE GapOK(new, table2, mine2)
  <2>1. Elements(conn.sent) \cup Passed(conn, 1) \subseteq Elements(new.sent)
        BY <1>1
  <2> QED
      BY <1>2, <1>3, <2>1, PopGap
<1>4. ASSUME OrderOK(conn, table, mine) PROVE OrderOK(new, table2, mine2)
  <2>1. mine \subseteq mine2
        OBVIOUS
  <2> QED
      BY <1>1, <1>2, <1>4, <2>1, PopOrder
<1> QED
    BY <1>3, <1>4 DEF KeepsServed

(* What the others are told.                                               *)
CarriesOne(jobs, commits) ==
    DOMAIN jobs = {1} /\ Carries(jobs[1]) /\ jobs[1].event.commits = commits

LEMMA CommitsTold ==
    ASSUME BaseInv, NEW d \in Conn, NEW batch, NEW t, NEW added, NEW s, NEW events, NEW jobs,
           AddsOK(rows, docs[d].memory, batch, t, added),
           IsQueue(rows), IsQueue(batch), Elements(batch) \subseteq Ref,
           events = << [op |-> "commits", commits |-> added.broadcast] >>,
           jobs = JobsOf(s, events)
    PROVE  JobsFrom(s, jobs) /\ CarriesOne(jobs, added.broadcast)
<1> DEFINE event == [op |-> "commits", commits |-> added.broadcast]
<1>1. docs[d].memory.seenRefs \subseteq RefsOf(rows)
      BY DEF BaseInv, MemoryInv
<1>2. IsQueue(added.broadcast) /\ Elements(added.broadcast) \subseteq Elements(batch)
      BY <1>1, BroadcastOrder
<1>6. EventOK(event)
      BY <1>2 DEF EventOK
<1>7. event.op = "commits" /\ event.commits = added.broadcast
      OBVIOUS
<1> HIDE DEF event
<1>8. EventsOK(events) /\ DOMAIN events = {1} /\ events[1] = event
  <2>1. events = <<event>>
        BY DEF event
  <2>2. events \in Seq({event}) /\ DOMAIN events = 1 .. 1 /\ events[1] = event
        BY <2>1
  <2>3. DOMAIN events = {1}
        BY <2>2
  <2> QED
      BY <1>6, <2>2, <2>3 DEF EventsOK, IsQueue
<1>9. JobsFrom(s, jobs) /\ DOMAIN jobs = DOMAIN events
      BY <1>8, JobsOfEvents
<1>10. jobs[1].event = event /\ jobs[1].op = "broadcast"
       BY <1>8, <1>9, JobsOfEvents
<1>11. Carries(jobs[1])
       BY <1>7, <1>10 DEF Carries
<1> QED
    BY <1>7, <1>8, <1>9, <1>10, <1>11 DEF CarriesOne

LEMMA OnCommitsKeeps ==
    ASSUME ServerInv, IInv', NEW c \in Conn, NEW t \in 1 .. MaxClock, OnCommits(c, t)
    PROVE  ServerInv'
<1> DEFINE conn == conns[c]
           d == conn.doc
           batch == Head(conn.queue).commits
           added == LiveDocAddCommits(rows, docs[d].memory, batch, t)
<1>0. /\ conn.queue # <<>> /\ Head(conn.queue).op = "commits" /\ conn.authenticated
      /\ t >= clock
      BY DEF OnCommits, NextJob
<1>1. /\ ConnOK(conn) /\ d \in Conn /\ d # NoDoc /\ LocalInv /\ conn.store \in Store
      /\ conn.status \in {"open", "closing", "closed"}
      /\ messages \in 0 .. MaxMessages /\ faults \in 0 .. MaxFaults
      BY <1>0, ActiveConn
<1>2. BaseInv /\ GhostInv /\ GapInv /\ OrderInv
      BY DEF ServerInv
<1>3. JobOK(Head(conn.queue))
      BY <1>0, <1>1, TailQueue DEF ConnOK
<1>4. batch \in Batch
      BY <1>0, <1>3 DEF JobOK
<1>5. CASE ~docs[d].open
  <2>1. /\ CloseWithCode(c, Rest(c)) /\ rows' = rows /\ clock' = clock /\ offered' = offered
        /\ messages' \in 0 .. MaxMessages /\ faults' \in 0 .. MaxFaults
        BY <1>1, <1>5 DEF OnCommits
  <2> QED
      BY <1>0, <2>1, RestClosed
<1>6. CASE docs[d].open
  <2> DEFINE s == conn.store
             status == conn.status
             clients == conn.clients
             new == Rested(c, status, clients)
             events == << [op |-> "commits", commits |-> added.broadcast] >>
             jobs == JobsOf(s, events)
             M == docs[d].connections \ {c}
             fresh == NewRefs(added.rows, Len(rows))
  <2> HIDE DEF added
  <2>1. /\ rows' = added.rows /\ clock' = t
        /\ docs' = [docs EXCEPT ![d].memory = added.memory]
        /\ offered' = [offered EXCEPT ![s] = @ \cup added.acks]
        /\ liveDocs' = liveDocs /\ dropped' = dropped
        /\ messages' = messages /\ faults' = faults
        BY <1>6 DEF OnCommits, added
  <2>2. conns' = Broadcast([conns EXCEPT ![c] = Rest(c)], c, events)
        BY <1>6 DEF OnCommits, added
  <2>3. Rest(c) = new
        BY <1>1, RestIs
  <2>4. ConnOK(new)
    <3>1. clients \subseteq ClientId /\ IsFiniteSet(clients) /\ (clients # {} => conn.authenticated)
          BY <1>1 DEF ConnOK
    <3> QED
        BY <1>0, <1>1, <3>1, RestOK
  <2>5. WillClose(new) /\ KeepsGhost(conn, new)
        BY <1>0, <1>1, RestWillClose, RestKeeps DEF Keeps
  <2>6. /\ new.queue = Tail(conn.queue) /\ new.store = s /\ new.doc = d /\ new.clients = clients
        /\ new.authenticated = conn.authenticated /\ new.cursor = conn.cursor
        /\ new.sent = conn.sent
    <3> DEFINE x == new
    <3>1. x = Rested(c, status, clients)
          OBVIOUS
    <3> HIDE DEF x, status, clients
    <3> QED
        BY <3>1, RestFields DEF x
  <2> HIDE DEF new, clients
  <2>7. conns' = Broadcast([conns EXCEPT ![c] = new], c, events)
        BY <2>2, <2>3
  <2>8. Moves(c, new, jobs, M)
    <3> HIDE DEF events
    <3> QED
        BY <1>1, <2>6, <2>7, BroadcastMoves
  <2>9. /\ AddsOK(rows, docs[d].memory, batch, t, added)
        /\ IsQueue(rows) /\ IsQueue(batch) /\ Elements(batch) \subseteq Ref
    <3> HIDE DEF batch, d
    <3>1. added = LiveDocAddCommits(rows, docs[d].memory, batch, t)
          BY DEF added
    <3>2. AddsOK(rows, docs[d].memory, batch, t, added)
          BY <1>0, <1>1, <1>2, <1>4, <3>1, AddedToTable
    <3>3. IsQueue(rows) /\ IsQueue(batch) /\ Elements(batch) \subseteq Ref
          BY <1>0, <1>1, <1>2, <1>4, <3>1, AddedToTable
    <3> QED
        BY <3>2, <3>3
  <2>10. /\ LiveInv' /\ MemoryInv' /\ CountInv' /\ RowsOK(rows', clock')
         /\ \A x \in Conn : docs'[x].connections \subseteq docs[x].connections
    <3> HIDE DEF batch, d, s
    <3>1. added = LiveDocAddCommits(rows, docs[d].memory, batch, t) /\ s \in Store
          BY <1>1 DEF added, s
    <3>2. LiveInv' /\ MemoryInv'
          BY <1>0, <1>1, <1>4, <2>1, <3>1, OnCommitsRest
    <3>3. CountInv' /\ RowsOK(rows', clock')
          BY <1>0, <1>1, <1>4, <2>1, <3>1, OnCommitsRest
    <3>4. \A x \in Conn : docs'[x].connections \subseteq docs[x].connections
          BY <1>0, <1>1, <1>4, <2>1, <3>1, OnCommitsRest
    <3> QED
        BY <3>2, <3>3, <3>4
  <2>11. /\ JobsFrom(s, jobs) /\ DOMAIN jobs = {1}
         /\ jobs[1].event.op = "commits" /\ jobs[1].event.commits = added.broadcast
         /\ Carries(jobs[1])
    <3> HIDE DEF batch, d, s
    <3>1. events = << [op |-> "commits", commits |-> added.broadcast] >> /\ jobs = JobsOf(s, events)
          OBVIOUS
    <3> HIDE DEF events, jobs
    <3>2. JobsFrom(s, jobs)
          BY <1>1, <1>2, <2>9, <3>1, CommitsTold
    <3>3. CarriesOne(jobs, added.broadcast)
          BY <1>1, <1>2, <2>9, <3>1, CommitsTold
    <3> QED
        BY <3>2, <3>3 DEF CarriesOne, Carries
  <2>12. /\ fresh \subseteq Elements(added.broadcast) \cap added.acks
         /\ Grows(rows, added.rows)
         /\ EventOrder(added.broadcast, rows, added.rows)
    <3> HIDE DEF batch, d
    <3>1. docs[d].memory.seenRefs \subseteq RefsOf(rows)
          BY <1>1, <1>2 DEF BaseInv, MemoryInv
    <3>2. fresh \subseteq Elements(added.broadcast) \cap added.acks
          BY <2>9, <3>1, BroadcastOrder
    <3>3. Grows(rows, added.rows)
          BY <2>9, <3>1, BroadcastOrder
    <3>4. EventOrder(added.broadcast, rows, added.rows)
          BY <2>9, <3>1, BroadcastOrder
    <3> QED
        BY <3>2, <3>3, <3>4
  <2> HIDE DEF jobs, events
  <2>13. Turn(c, new, jobs, M)
         BY <1>1, <2>4, <2>6, <2>8, <2>10, <2>11 DEF Turn
  <2>14. JoinsLive(new, jobs)
         BY <2>11 DEF JoinsLive
  <2>15. LossesAnnounced(conn, new, jobs)
         BY <2>5, <2>6 DEF LossesAnnounced, clients
  <2>16. offered \in [Store -> SUBSET Ref] /\ dropped \in BOOLEAN
         BY <1>2 DEF BaseInv, CountInv
  <2>17. /\ \A x \in Store : offered[x] \subseteq offered'[x]
         /\ fresh \subseteq offered'[s]
         BY <1>1, <2>1, <2>12, <2>16
  <2>18. Adds(c, jobs)
    <3>1. Grows(rows, rows') /\ NewRefs(rows', Len(rows)) = fresh
          BY <2>1, <2>12
    <3> HIDE DEF fresh
    <3>2. \A n \in DOMAIN jobs : Carries(jobs[n]) =>
              EventOrder(jobs[n].event.commits, rows, rows')
          BY <2>1, <2>11, <2>12
    <3>3. \E n \in DOMAIN jobs : Carries(jobs[n]) /\ fresh \subseteq Elements(jobs[n].event.commits)
          BY <2>11, <2>12
    <3> QED
        BY <1>6, <2>1, <2>16, <2>17, <3>1, <3>2, <3>3 DEF Adds
  <2>19. ASSUME NEW x \in Store, x = conns[c].store
         PROVE  KeepsServed(conns[c], new, rows, rows', offered[x], offered'[x])
    <3> DEFINE mine == offered[x]
               mine2 == offered'[x]
               table2 == rows'
    <3>1. mine \cup fresh \subseteq mine2 /\ Grows(rows, table2) /\ fresh = NewRefs(table2, Len(rows))
          BY <2>1, <2>12, <2>17, <2>19
    <3>2. Head(conn.queue).op # "broadcast"
          BY <1>0
    <3> HIDE DEF mine, mine2, table2, fresh
    <3>3. KeepsServed(conn, new, rows, table2, mine, mine2)
          BY <1>0, <1>1, <2>6, <3>1, <3>2, PopServed
    <3> QED
        BY <3>3 DEF mine, mine2, table2
  <2>20. LocalInv' /\ LinkInv'
         BY <1>2, <2>13, TurnLocal
  <2>21. GhostInv'
         BY <1>2, <2>5, <2>13, <2>14, <2>15, TurnGhost
  <2>22. GapInv' /\ OrderInv'
         BY <1>2, <2>13, <2>18, <2>19, TurnServed
  <2>23. BaseInv'
         BY <2>10, <2>20 DEF BaseInv
  <2> QED
      BY <2>21, <2>22, <2>23 DEF ServerInv
<1> QED
    BY <1>5, <1>6

-----------------------------------------------------------------------------
(* Connections are made, the server is started.                            *)

IsFresh(new, s, d) ==
    /\ ConnOK(new) /\ new.store = s /\ new.doc = d /\ new.clients = {}
    /\ \A living : GhostOK(new, living)
    /\ \A table, mine : GapOK(new, table, mine)
    /\ \A table, mine : OrderOK(new, table, mine)

LEMMA FreshConn ==
    ASSUME NEW s \in Store, NEW d \in Conn, NEW cursor \in Nat
    PROVE  IsFresh([NewConnection(s, d) EXCEPT !.queue = <<InitMessage(cursor)>>], s, d)
<1> DEFINE m == InitMessage(cursor)
           q == <<m>>
           no == FALSE
           none == <<>>
           new == [NewConnection(s, d) EXCEPT !.queue = q]
           all == [status |-> "open", store |-> s, doc |-> d, authenticated |-> no, cursor |-> 0,
                   clients |-> {}, queue |-> q, sent |-> none, peers |-> {}]
<1>1. new = all
  <2>1. NewConnection(s, d) =
            [status |-> "open", store |-> s, doc |-> d, authenticated |-> no, cursor |-> 0,
             clients |-> {}, queue |-> none, sent |-> none, peers |-> {}]
        BY DEF NewConnection
  <2>2. new = [NewConnection(s, d) EXCEPT !.queue = q]
        OBVIOUS
  <2> HIDE DEF new, q, no, none
  <2> QED
      BY <2>1, <2>2
<1>2. QueueOK(q) /\ DOMAIN q = {1} /\ q[1].op = "init"
  <2>1. m.op = "init" /\ m.cursor = cursor
        BY DEF InitMessage
  <2>2. JobOK(m)
        BY <2>1 DEF JobOK
  <2> HIDE DEF m
  <2>3. q \in Seq({m}) /\ DOMAIN q = 1 .. 1 /\ q[1] = m
        OBVIOUS
  <2>4. DOMAIN q = {1}
        BY <2>3
  <2> HIDE DEF q
  <2> QED
      BY <2>1, <2>2, <2>3, <2>4 DEF QueueOK, IsQueue
<1>3. IsQueue(none) /\ Elements(none) = {} /\ DOMAIN none = {}
      BY EmptyQueue
<1>4. no \in BOOLEAN /\ ~no
      OBVIOUS
<1> HIDE DEF m, q, no, none, new
<1>5. /\ all.status = "open" /\ all.store = s /\ all.doc = d /\ all.authenticated = no
      /\ all.cursor = 0 /\ all.clients = {} /\ all.queue = q /\ all.sent = none /\ all.peers = {}
      OBVIOUS
<1>6. ConnOK(all)
  <2>1. all \in [status : {"none", "open", "closing", "closed"}, store : {all.store},
                 doc : Conn \cup {NoDoc}, authenticated : BOOLEAN, cursor : Nat,
                 clients : SUBSET ClientId, queue : {all.queue}, sent : {all.sent},
                 peers : SUBSET ClientId]
        BY <1>4
  <2>2. d # NoDoc /\ IsFiniteSet({})
        BY NoDocAssumption, FS_EmptySet
  <2> HIDE DEF all
  <2> QED
      BY <1>2, <1>3, <1>5, <2>1, <2>2 DEF ConnOK
<1> HIDE DEF all
<1>7. \A living : GhostOK(all, living)
      BY <1>2, <1>5 DEF GhostOK, IsAbout
<1>8. ~Carries(q[1])
      BY <1>2 DEF Carries
<1>9. \A table, mine : GapOK(all, table, mine)
      BY <1>4, <1>5 DEF GapOK
<1>10. ~Passes(all, q[1])
       BY <1>8 DEF Passes
<1>11. \A table, mine : OrderOK(all, table, mine)
       BY <1>2, <1>3, <1>5, <1>8, <1>10 DEF OrderOK
<1>12. IsFresh(all, s, d)
       BY <1>5, <1>6, <1>7, <1>9, <1>11 DEF IsFresh
<1>13. IsFresh(new, s, d)
       BY <1>1, <1>12
<1> QED
    BY <1>13 DEF new, q, m

LEMMA ConnectKeeps ==
    ASSUME ServerInv, IInv', NEW c \in Conn, NEW s \in Store, NEW cursor \in 0 .. MaxClock,
           Connect(c, s, cursor)
    PROVE  ServerInv'
<1> DEFINE d == IF liveDocs = NoDoc THEN c ELSE liveDocs
           new == [NewConnection(s, d) EXCEPT !.queue = <<InitMessage(cursor)>>]
           doc == IF d = c THEN NewDoc({c}) ELSE [docs[d] EXCEPT !.connections = @ \cup {c}]
<1>0. BaseInv /\ GhostInv /\ GapInv /\ OrderInv
      BY DEF ServerInv
<1>1. d \in Conn /\ liveDocs' = d /\ conns[c].status = "none" /\ cursor \in Nat
      BY <1>0, BoundAssumption DEF Connect, BaseInv, IInv, Shape
<1>2. /\ conns' = [conns EXCEPT ![c] = new] /\ docs' = [docs EXCEPT ![d] = doc]
      /\ rows' = rows /\ clock' = clock /\ offered' = offered /\ messages' = messages
      /\ faults' = faults /\ dropped' = dropped
      BY DEF Connect
<1>3. /\ ConnOK(new) /\ new.store = s /\ new.doc = d /\ new.clients = {}
      /\ \A living : GhostOK(new, living)
      /\ \A table, mine : GapOK(new, table, mine) /\ OrderOK(new, table, mine)
  <2> HIDE DEF d
  <2>1. IsFresh(new, s, d)
        BY <1>1, FreshConn
  <2> HIDE DEF new
  <2> QED
      BY <2>1 DEF IsFresh
<1>4. /\ docs = [x \in Conn |-> docs[x]] /\ \A x \in Conn : DocShape(docs[x])
      /\ conns = [x \in Conn |-> conns[x]] /\ \A x \in Conn : ConnOK(conns[x])
      BY <1>0 DEF BaseInv, IInv, Shape, LocalInv
<1> HIDE DEF new
<1>5. /\ conns' = [x \in Conn |-> conns'[x]] /\ conns'[c] = new
      /\ \A x \in Conn \ {c} : conns'[x] = conns[x]
      BY <1>2, <1>4
<1>6. conns[c].doc = NoDoc
      BY <1>1, <1>4 DEF ConnOK
<1>7. /\ doc.connections \subseteq docs[d].connections \cup {c}
      /\ doc.memory \in {NewMemory(rows), docs[d].memory}
  <2>1. DocShape(docs[d])
        BY <1>1, <1>4
  <2> QED
      BY <2>1 DEF NewDoc, DocShape
<1> HIDE DEF doc, d
<1>8. /\ docs'[d] = doc /\ \A x \in Conn \ {d} : docs'[x] = docs[x]
      BY <1>1, <1>2, <1>4
<1>9. LocalInv'
      BY <1>3, <1>4, <1>5 DEF LocalInv
<1>10. ASSUME NEW e \in Conn, NEW x \in docs'[e].connections
       PROVE  \/ x = c /\ e = d
              \/ x # c /\ x \in docs[e].connections /\ x \in Conn
                     /\ conns[x].doc = e /\ conns'[x] = conns[x]
  <2>1. (x = c /\ e = d) \/ x \in docs[e].connections
        BY <1>7, <1>8
  <2>2. CASE x \in docs[e].connections
    <3>1. x \in Conn /\ conns[x].doc = e /\ e # NoDoc
          BY <1>0, <2>2, MemberFacts
    <3> QED
        BY <1>5, <1>6, <2>2, <3>1
  <2> QED
      BY <2>1, <2>2
<1>11. LinkInv'
       BY <1>3, <1>5, <1>10 DEF LinkInv
<1>12. LiveInv'
  <2> SUFFICES ASSUME ~dropped, NEW e \in Conn, docs'[e].open PROVE e = d
      BY <1>1, <1>2 DEF LiveInv
  <2>1. CASE e # d
    <3>1. docs[e].open
          BY <1>8, <2>1
    <3>2. e = liveDocs
          BY <1>0, <3>1 DEF BaseInv, LiveInv
    <3> QED
        BY <3>2, NoDocAssumption DEF d
  <2> QED
      BY <2>1
<1>13. MemoryInv'
  <2>1. RefsOf(rows) \subseteq Ref
        BY <1>0 DEF BaseInv, RowsOK, RefsOf, Row
  <2>2. /\ NewMemory(rows) \in [seenRefs : SUBSET Ref, headRef : Ref \cup {NoRef}]
        /\ NewMemory(rows).seenRefs \subseteq RefsOf(rows)
        BY <2>1 DEF NewMemory
  <2> QED
      BY <1>0, <1>1, <1>2, <1>7, <1>8, <2>2 DEF BaseInv, MemoryInv
<1>14. CountInv' /\ RowsOK(rows', clock')
  <2>1. CountInv'
        BY <1>0, <1>2 DEF BaseInv, CountInv
  <2> QED
      BY <1>0, <1>2, <2>1 DEF BaseInv
<1>15. GhostInv'
  <2> DEFINE Alive(x) == {p \in ClientId : \E o \in Conn : p \in LivesFor(conns[o], conns[x])}
             Alive2(x) == {p \in ClientId : \E o \in Conn : p \in LivesFor(conns'[o], conns'[x])}
  <2> SUFFICES ASSUME NEW e \in Conn, NEW x \in docs'[e].connections
               PROVE  GhostOK(conns'[x], Alive2(x))
      BY DEF GhostInv, Living
  <2>1. CASE x = c
        BY <1>3, <1>5, <2>1
  <2>2. CASE x # c
    <3>1. x \in docs[e].connections /\ x \in Conn /\ conns[x].doc = e /\ conns'[x] = conns[x]
          BY <1>10, <2>2
    <3>2. \A o \in Conn : LivesFor(conns[o], conns[x]) \subseteq LivesFor(conns'[o], conns'[x])
      <4>1. LivesFor(conns[c], conns[x]) = {}
            BY <1>6, <3>1, NoDocAssumption DEF LivesFor
      <4> QED
          BY <1>5, <3>1, <4>1
    <3>3. GhostOK(conns[x], Alive(x))
          BY <1>0, <3>1 DEF GhostInv, Living
    <3>4. Alive(x) \subseteq Alive2(x)
          BY <3>2
    <3> HIDE DEF Alive, Alive2
    <3> QED
        BY <3>1, <3>3, <3>4, MoreLiving
  <2> QED
      BY <2>1, <2>2
<1>16. GapInv'
  <2> SUFFICES ASSUME ~dropped, NEW e \in Conn, NEW x \in docs'[e].connections,
                      NEW y \in Store, conns'[x].store = y
               PROVE  GapOK(conns'[x], rows, offered[y])
      BY <1>2 DEF GapInv
  <2>1. CASE x = c
        BY <1>3, <1>5, <2>1
  <2>2. CASE x # c
        BY <1>0, <1>10, <2>2 DEF GapInv
  <2> QED
      BY <2>1, <2>2
<1>17. OrderInv'
  <2> SUFFICES ASSUME Unique(rows), ~dropped, NEW e \in Conn, NEW x \in docs'[e].connections,
                      NEW y \in Store, conns'[x].store = y
               PROVE  OrderOK(conns'[x], rows, offered[y])
      BY <1>2 DEF OrderInv
  <2>1. CASE x = c
        BY <1>3, <1>5, <2>1
  <2>2. CASE x # c
        BY <1>0, <1>10, <2>2 DEF OrderInv
  <2> QED
      BY <2>1, <2>2
<1> QED
    BY <1>9, <1>11, <1>12, <1>13, <1>14, <1>15, <1>16, <1>17 DEF ServerInv, BaseInv

(* A connection before it is made, or after a restart.                     *)
LEMMA NoConn ==
    /\ ConnOK(NotConnected)
    /\ ConnOK([NotConnected EXCEPT !.status = "closed"])
<1> DEFINE s == CHOOSE s \in Store : TRUE
           no == FALSE
           q == <<>>
           all(status) ==
               [status |-> status, store |-> s, doc |-> NoDoc, authenticated |-> no, cursor |-> 0,
                clients |-> {}, queue |-> q, sent |-> q, peers |-> {}]
<1>1. NotConnected = all("none")
  <2>1. NotConnected = [NewConnection(s, NoDoc) EXCEPT !.status = "none"]
        BY DEF NotConnected
  <2> HIDE DEF s
  <2> QED
      BY <2>1 DEF NewConnection
<1>2. no \in BOOLEAN
      OBVIOUS
<1>3. IsQueue(q) /\ Elements(q) = {} /\ DOMAIN q = {}
      BY EmptyQueue
<1>4. IsFiniteSet({}) /\ q = <<>>
      BY FS_EmptySet
<1> HIDE DEF s, no, q
<1>5. [NotConnected EXCEPT !.status = "closed"] = all("closed")
      BY <1>1
<1>6. QueueOK(q) /\ Closes(q)
      BY <1>3 DEF QueueOK, Closes
<1>7. ASSUME NEW status \in {"none", "closed"} PROVE ConnOK(all(status))
  <2> DEFINE conn == all(status)
  <2>1. /\ conn.status = status /\ conn.store = s /\ conn.doc = NoDoc
        /\ conn.authenticated = no /\ conn.cursor = 0 /\ conn.clients = {} /\ conn.queue = q
        /\ conn.sent = q /\ conn.peers = {}
        OBVIOUS
  <2>2. conn \in [status : {"none", "open", "closing", "closed"}, store : {conn.store},
                  doc : Conn \cup {NoDoc}, authenticated : BOOLEAN, cursor : Nat,
                  clients : SUBSET ClientId, queue : {conn.queue}, sent : {conn.sent},
                  peers : SUBSET ClientId]
        BY <1>2
  <2> HIDE DEF conn
  <2>3. ConnOK(conn)
        BY <1>3, <1>4, <1>6, <2>1, <2>2 DEF ConnOK
  <2> QED
      BY <2>3 DEF conn
<1>8. ConnOK(all("none")) /\ ConnOK(all("closed"))
      BY <1>7
<1> HIDE DEF all
<1> QED
    BY <1>1, <1>5, <1>8

(* Nobody is connected.                                                    *)
LEMMA NobodyServed ==
    ASSUME docs = [d \in Conn |-> NoLiveDoc]
    PROVE  LinkInv /\ LiveInv /\ GhostInv /\ GapInv /\ OrderInv
<1>1. \A d \in Conn : docs[d].connections = {} /\ ~docs[d].open
      BY DEF NoLiveDoc
<1> QED
    BY <1>1 DEF LinkInv, LiveInv, GhostInv, GapInv, OrderInv

LEMMA EmptyMemory ==
    /\ NoLiveDoc.memory \in [seenRefs : SUBSET Ref, headRef : Ref \cup {NoRef}]
    /\ NoLiveDoc.memory.seenRefs = {}
<1>1. RefsOf(<<>>) = {}
      BY DEF RefsOf
<1> QED
    BY <1>1 DEF NoLiveDoc, NewMemory

LEMMA RestartKeeps ==
    ASSUME ServerInv, IInv', Restart
    PROVE  ServerInv'
<1>0. BaseInv
      BY DEF ServerInv
<1>1. /\ docs' = [d \in Conn |-> NoLiveDoc]
      /\ rows' = rows /\ clock' = clock /\ offered' = offered /\ messages' = messages
      /\ dropped' = dropped
      BY DEF Restart
<1>2. LinkInv' /\ LiveInv' /\ GhostInv' /\ GapInv' /\ OrderInv'
  <2>1. \A d \in Conn : docs'[d].connections = {} /\ ~docs'[d].open
        BY <1>1 DEF NoLiveDoc
  <2> QED
      BY <2>1 DEF LinkInv, LiveInv, GhostInv, GapInv, OrderInv
<1>3. MemoryInv'
  <2>1. \A d \in Conn : docs'[d].memory = NoLiveDoc.memory
        BY <1>1
  <2> QED
      BY <2>1, EmptyMemory DEF MemoryInv
<1>4. LocalInv'
  <2> DEFINE closed == [NotConnected EXCEPT !.status = "closed"]
  <2>1. conns' = [c \in Conn |-> IF conns[c].status = "none" THEN conns[c] ELSE closed]
        BY DEF Restart
  <2>2. ConnOK(closed)
        BY NoConn
  <2> HIDE DEF closed
  <2>3. \A c \in Conn : ConnOK(conns[c])
        BY <1>0 DEF BaseInv, LocalInv
  <2> QED
      BY <2>1, <2>2, <2>3 DEF LocalInv
<1>5. CountInv'
  <2>1. faults' \in 0 .. MaxFaults
        BY <1>0, BoundAssumption DEF Restart, Fault, BaseInv, CountInv
  <2> QED
      BY <1>0, <1>1, <2>1 DEF BaseInv, CountInv
<1>6. RowsOK(rows', clock')
      BY <1>0, <1>1 DEF BaseInv
<1> QED
    BY <1>2, <1>3, <1>4, <1>5, <1>6 DEF ServerInv, BaseInv

-----------------------------------------------------------------------------
LEMMA InitServer == Init => ServerInv
<1> SUFFICES ASSUME Init PROVE ServerInv
    OBVIOUS
<1>1. IInv
      BY InitIInv
<1>2. LinkInv /\ LiveInv /\ GhostInv /\ GapInv /\ OrderInv
      BY NobodyServed DEF Init
<1>3. MemoryInv
  <2>1. \A d \in Conn : docs[d].memory = NoLiveDoc.memory
        BY DEF Init
  <2> QED
      BY <2>1, EmptyMemory DEF MemoryInv
<1>4. LocalInv
  <2> DEFINE none == NotConnected
  <2>2. ConnOK(none)
        BY NoConn
  <2>3. conns = [c \in Conn |-> none]
        BY DEF Init
  <2> HIDE DEF none
  <2> QED
      BY <2>2, <2>3 DEF LocalInv
<1>5. CountInv
  <2>1. 0 \in 0 .. MaxClock /\ 0 \in 0 .. MaxMessages /\ 0 \in 0 .. MaxFaults
        BY BoundAssumption
  <2>2. [s \in Store |-> {}] \in [Store -> SUBSET Ref]
        OBVIOUS
  <2>3. clock = 0 /\ messages = 0 /\ faults = 0 /\ offered = [s \in Store |-> {}]
        BY DEF Init
  <2>4. dropped \in BOOLEAN
        BY DEF Init
  <2> QED
      BY <2>1, <2>2, <2>3, <2>4 DEF CountInv
<1>6. RowsOK(rows, clock)
  <2>1. rows = <<>>
        BY DEF Init
  <2>2. IsQueue(rows) /\ DOMAIN rows = {}
        BY <2>1, EmptyQueue
  <2> QED
      BY <2>2 DEF RowsOK
<1> QED
    BY <1>1, <1>2, <1>3, <1>4, <1>5, <1>6 DEF ServerInv, BaseInv

LEMMA StutterKeeps ==
    ASSUME ServerInv, UNCHANGED vars
    PROVE  ServerInv'
<1>1. /\ rows' = rows /\ clock' = clock /\ liveDocs' = liveDocs /\ docs' = docs /\ conns' = conns
      /\ offered' = offered /\ messages' = messages /\ faults' = faults /\ dropped' = dropped
      BY DEF vars
<1>2. BaseInv'
      BY <1>1 DEF ServerInv, BaseInv, IInv, Shape, DocShape, DocOpenWhileUsed, LocalInv, LinkInv,
                  LiveInv, MemoryInv, CountInv
<1>3. GhostInv'
      BY <1>1 DEF ServerInv, GhostInv, Living
<1>4. GapInv' /\ OrderInv'
      BY <1>1 DEF ServerInv, GapInv, OrderInv
<1> QED
    BY <1>2, <1>3, <1>4 DEF ServerInv

LEMMA NextServer == ServerInv /\ [Next]_vars => ServerInv'
<1> SUFFICES ASSUME ServerInv, [Next]_vars PROVE ServerInv'
    OBVIOUS
<1>0. IInv'
      BY NextIInv DEF ServerInv, BaseInv
<1>1. ASSUME NEW c \in Conn, NEW s \in Store, NEW cursor \in 0 .. MaxClock, Connect(c, s, cursor)
      PROVE  ServerInv'
      BY <1>0, <1>1, ConnectKeeps
<1>2. ASSUME NEW c \in Conn, NEW m \in Message, Receive(c, m) PROVE ServerInv'
      BY <1>0, <1>2, ReceiveKeeps
<1>3. ASSUME NEW c \in Conn, ReceiveBadFrame(c) PROVE ServerInv'
      BY <1>0, <1>3, ReceiveBadFrameKeeps
<1>4. ASSUME NEW c \in Conn, SocketCloses(c) PROVE ServerInv'
      BY <1>0, <1>4, SocketClosesKeeps
<1>5. ASSUME NEW c \in Conn, SocketError(c) PROVE ServerInv'
      BY <1>0, <1>5, SocketErrorKeeps
<1>6. ASSUME NEW c \in Conn, Job(c) PROVE ServerInv'
  <2>1. CASE Initialize(c)
        BY <1>0, <2>1, InitializeKeeps
  <2>2. CASE InitializeAgain(c)
        BY <1>0, <2>2, InitializeAgainKeeps
  <2>3. CASE Unauthorized(c)
        BY <1>0, <2>3, UnauthorizedKeeps
  <2>4. CASE Refuse(c)
        BY <1>0, <2>4, RefuseKeeps
  <2>5. CASE \E t \in 1 .. MaxClock : OnCommits(c, t)
        BY <1>0, <2>5, OnCommitsKeeps
  <2>6. CASE OnClientJoin(c)
        BY <1>0, <2>6, OnClientJoinKeeps
  <2>7. CASE OnClientLeave(c)
        BY <1>0, <2>7, OnClientLeaveKeeps
  <2>8. CASE ReceiveBroadcast(c)
        BY <1>0, <2>8, ReceiveBroadcastKeeps
  <2>9. CASE FinishClose(c)
        BY <1>0, <2>9, FinishCloseKeeps
  <2> QED
      BY <1>6, <2>1, <2>2, <2>3, <2>4, <2>5, <2>6, <2>7, <2>8, <2>9 DEF Job
<1>7. CASE Restart
      BY <1>0, <1>7, RestartKeeps
<1>8. CASE UNCHANGED vars
      BY <1>8, StutterKeeps
<1> QED
    BY <1>1, <1>2, <1>3, <1>4, <1>5, <1>6, <1>7, <1>8 DEF Next

LEMMA ServerInvariant == Spec => []ServerInv
<1>1. Init => ServerInv
      BY InitServer
<1>2. ServerInv /\ [Next]_vars => ServerInv'
      BY NextServer
<1> QED
    BY <1>1, <1>2, PTL DEF Spec

-----------------------------------------------------------------------------
(* What the invariant says of the connections that are served.             *)

LEMMA ServingFacts ==
    ASSUME BaseInv, NEW c \in Conn, Serving(c)
    PROVE  /\ conns[c].doc \in Conn /\ c \in docs[conns[c].doc].connections
           /\ conns[c].store \in Store /\ ConnOK(conns[c])
<1>1. ConnOK(conns[c])
      BY DEF BaseInv, LocalInv
<1>2. conns[c].doc \in Conn \cup {NoDoc}
      BY <1>1 DEF ConnOK
<1>3. conns[c].doc # NoDoc
      BY <1>1 DEF ConnOK, Serving
<1>4. conns[c].store \in Store
      BY <1>1, <1>3 DEF ConnOK
<1> QED
    BY <1>1, <1>2, <1>3, <1>4 DEF Serving

LEMMA InvTypes == ServerInv => TypeOK
<1> SUFFICES ASSUME ServerInv PROVE TypeOK
    OBVIOUS
<1>0. BaseInv
      BY DEF ServerInv
<1>1. rows \in Seq(Row)
  <2>1. IsQueue(rows) /\ \A n \in DOMAIN rows : rows[n] \in Row
        BY <1>0 DEF BaseInv, RowsOK
  <2>2. rows \in Seq(Elements(rows)) /\ Elements(rows) \subseteq Row
        BY <2>1, QueueDomain DEF Elements
  <2> QED
      BY <2>2
<1>2. liveDocs \in Conn \cup {NoDoc}
      BY <1>0 DEF BaseInv, IInv, Shape
<1>3. /\ clock \in 0 .. MaxClock /\ messages \in 0 .. MaxMessages /\ faults \in 0 .. MaxFaults
      /\ dropped \in BOOLEAN /\ offered \in [Store -> SUBSET Ref]
      BY <1>0 DEF BaseInv, CountInv
<1>4. \A d \in Conn :
          /\ docs[d].open \in BOOLEAN
          /\ docs[d].connections \subseteq Conn
          /\ docs[d].memory \in [seenRefs : SUBSET Ref, headRef : Ref \cup {NoRef}]
  <2> TAKE d \in Conn
  <2>1. DocShape(docs[d])
        BY <1>0 DEF BaseInv, IInv, Shape
  <2>2. docs[d].memory \in [seenRefs : SUBSET Ref, headRef : Ref \cup {NoRef}]
        BY <1>0 DEF BaseInv, MemoryInv
  <2>3. docs[d].open \in BOOLEAN /\ docs[d].connections \subseteq Conn
        BY <2>1 DEF DocShape
  <2> QED
      BY <2>2, <2>3
<1>5. \A c \in Conn :
          /\ conns[c].status \in {"none", "open", "closing", "closed"}
          /\ conns[c].doc \in Conn \cup {NoDoc}
          /\ conns[c].clients \subseteq ClientId /\ conns[c].peers \subseteq ClientId
          /\ conns[c].sent \in Seq(Ref)
  <2> TAKE c \in Conn
  <2>1. ConnOK(conns[c])
        BY <1>0 DEF BaseInv, LocalInv
  <2>2. /\ conns[c].status \in {"none", "open", "closing", "closed"}
        /\ conns[c].doc \in Conn \cup {NoDoc}
        /\ conns[c].clients \subseteq ClientId /\ conns[c].peers \subseteq ClientId
        BY <2>1 DEF ConnOK
  <2>3. IsQueue(conns[c].sent) /\ Elements(conns[c].sent) \subseteq Ref
        BY <2>1 DEF ConnOK
  <2>4. conns[c].sent \in Seq(Ref)
        BY <2>3, QueueDomain
  <2> QED
      BY <2>2, <2>4
<1> QED
    BY <1>1, <1>2, <1>3, <1>4, <1>5 DEF TypeOK

LEMMA InvGhosts == ServerInv => NoGhosts
<1> SUFFICES ASSUME ServerInv, NEW c \in Conn, Serving(c), NEW p \in conns[c].peers,
                    ~ \E o \in Conn : MayAnnounce(o, p)
             PROVE  \E job \in ToSet(conns[c].queue) :
                        job.op = "broadcast" /\ job.event = [op |-> "client-leave", client |-> p]
    BY DEF NoGhosts
<1>1. BaseInv /\ GhostInv
      BY DEF ServerInv
<1>2. conns[c].doc \in Conn /\ c \in docs[conns[c].doc].connections /\ ConnOK(conns[c])
      BY <1>1, ServingFacts
<1>3. GhostOK(conns[c], Living(c))
      BY <1>1, <1>2 DEF GhostInv
<1>4. p \in ClientId
      BY <1>2 DEF ConnOK
<1>5. p \notin Living(c)
  <2> SUFFICES ASSUME NEW o \in Conn, p \in LivesFor(conns[o], conns[c])
               PROVE  MayAnnounce(o, p)
      BY DEF Living
  <2>1. p \in conns[o].clients /\ WillClose(conns[o])
        BY DEF LivesFor
  <2>2. conns[o].status # "closed" \/ conns[o].queue # <<>>
    <3>1. CASE conns[o].status \in {"open", "closing"}
          BY <3>1
    <3>2. CASE \E n \in DOMAIN conns[o].queue : conns[o].queue[n].op = "closed"
          BY <3>2, EmptyQueue
    <3> QED
        BY <2>1, <3>1, <3>2 DEF WillClose
  <2> QED
      BY <2>1, <2>2 DEF MayAnnounce
<1>6. LeaveAfter(conns[c].queue, 0, conns[c].store, p)
      BY <1>3, <1>4, <1>5 DEF GhostOK
<1>7. PICK m \in DOMAIN conns[c].queue :
          IsAbout(conns[c].queue[m], "client-leave", conns[c].store, p)
      BY <1>6 DEF LeaveAfter
<1>8. conns[c].queue[m] \in ToSet(conns[c].queue)
      BY <1>7 DEF ToSet
<1> QED
    BY <1>7, <1>8 DEF IsAbout

LEMMA PendingIsPassed ==
    ASSUME NEW c \in Conn, QueueOK(conns[c].queue)
    PROVE  AllPassed(conns[c]) \subseteq Pending(c)
<1> SUFFICES ASSUME NEW m \in DOMAIN conns[c].queue, NEW ref \in Passed(conns[c], m)
             PROVE  ref \in Pending(c)
    BY DEF AllPassed
<1> DEFINE job == conns[c].queue[m]
<1>1. Passes(conns[c], job) /\ ref \in Elements(job.event.commits)
      BY DEF Passed
<1>2. job.op = "broadcast" /\ job.event.op = "commits" /\ SendsOn(c, job)
      BY <1>1 DEF Passes, Carries, SendsOn
<1>3. job \in {j \in ToSet(conns[c].queue) : j.op = "broadcast"}
      BY <1>2 DEF ToSet
<1>4. ref \in ToSet(job.event.commits)
      BY <1>1 DEF ToSet, Elements
<1> HIDE DEF job
<1> QED
    BY <1>2, <1>3, <1>4 DEF Pending

LEMMA InvGap == ServerInv => NoGap
<1> SUFFICES ASSUME ServerInv, ~dropped, NEW c \in Conn, Serving(c), conns[c].authenticated,
                    NEW n \in DOMAIN rows, rows[n].remoteSyncId > conns[c].cursor
             PROVE  rows[n].ref \in ToSet(conns[c].sent) \cup offered[conns[c].store]
                                        \cup Pending(c)
    BY DEF NoGap
<1>1. BaseInv /\ GapInv
      BY DEF ServerInv
<1>2. /\ conns[c].doc \in Conn /\ c \in docs[conns[c].doc].connections
      /\ conns[c].store \in Store /\ ConnOK(conns[c])
      BY <1>1, ServingFacts
<1>3. GapOK(conns[c], rows, offered[conns[c].store])
      BY <1>1, <1>2 DEF GapInv
<1>4. rows[n].ref \in NewerRefs(rows, conns[c].cursor)
      BY DEF NewerRefs
<1>5. rows[n].ref \in Elements(conns[c].sent) \cup offered[conns[c].store] \cup AllPassed(conns[c])
      BY <1>3, <1>4 DEF GapOK
<1>6. Elements(conns[c].sent) = ToSet(conns[c].sent)
      BY DEF Elements, ToSet
<1>7. AllPassed(conns[c]) \subseteq Pending(c)
      BY <1>2, PendingIsPassed DEF ConnOK
<1> QED
    BY <1>5, <1>6, <1>7

LEMMA InvOrder == ServerInv => ServedInOrder
<1> SUFFICES ASSUME ServerInv, UniqueSyncIds, ~dropped, NEW c \in Conn, Serving(c),
                    NEW n \in DOMAIN conns[c].sent, NEW p \in ParentsOf(conns[c].sent[n])
             PROVE  p \in {conns[c].sent[m] : m \in 1 .. n - 1} \cup offered[conns[c].store]
                              \cup {rows[m].ref : m \in {k \in DOMAIN rows :
                                        rows[k].remoteSyncId <= conns[c].cursor}}
    BY DEF ServedInOrder
<1>1. BaseInv /\ OrderInv
      BY DEF ServerInv
<1>2. /\ conns[c].doc \in Conn /\ c \in docs[conns[c].doc].connections
      /\ conns[c].store \in Store /\ ConnOK(conns[c])
      BY <1>1, ServingFacts
<1>3. Unique(rows)
      BY DEF UniqueSyncIds, Unique
<1>4. OrderOK(conns[c], rows, offered[conns[c].store])
      BY <1>1, <1>2, <1>3 DEF OrderInv
<1>5. p \in Before(conns[c].sent, n) \cup offered[conns[c].store]
               \cup OldRefs(rows, conns[c].cursor)
      BY <1>4 DEF OrderOK
<1>6. Before(conns[c].sent, n) \subseteq {conns[c].sent[m] : m \in 1 .. n - 1}
  <2>1. IsQueue(conns[c].sent)
        BY <1>2 DEF ConnOK
  <2>2. DOMAIN conns[c].sent = 1 .. Len(conns[c].sent) /\ Len(conns[c].sent) \in Nat
        BY <2>1, QueueDomain
  <2>3. \A k \in DOMAIN conns[c].sent : k < n => k \in 1 .. n - 1
        BY <2>2
  <2> QED
      BY <2>3 DEF Before
<1> QED
    BY <1>5, <1>6 DEF OldRefs

-----------------------------------------------------------------------------
(* The state has its types, the table and what connections have sent       *)
(* included.                                                               *)
THEOREM ServerTypesAreOK == Spec => []TypeOK
BY InvTypes, ServerInvariant, PTL

(* Nobody is shown a client that is gone: however connections are closed,  *)
(* by onClosed in the queue or at once, a client whose join was announced  *)
(* (client-join) is still connected or its leave is on its way.            *)
THEOREM NobodySeesGhosts == Spec => []NoGhosts
BY InvGhosts, ServerInvariant, PTL

(* A client misses no commit, although other connections add commits       *)
(* while it is served the ones after its cursor (sendInitialEvents).       *)
THEOREM NothingIsMissed == Spec => []NoGap
BY InvGap, ServerInvariant, PTL

(* What a connection has sent, from the table and of broadcasts, lists     *)
(* parents before children.                                                *)
THEOREM ParentsAreServedFirst == Spec => []ServedInOrder
BY InvOrder, ServerInvariant, PTL
=============================================================================
