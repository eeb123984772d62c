----------------------------- MODULE ServerDoc -----------------------------
(***************************************************************************)
(* The basic server and one document: server.ts, lib/connection.ts and     *)
(* lib/docs.ts over the store of module DocStore.                          *)
(*                                                                         *)
(* Each connection runs its jobs, one after the other, in a PromiseQueue:  *)
(* the messages of its client, the broadcasts of other connections and the *)
(* close of its socket.  A job may wait (authenticate and the store are    *)
(* awaited), so the queues of different connections interleave; some       *)
(* things happen at once and not in the queue: a frame that is refused, an *)
(* error of the socket, a failed job closing the connection.               *)
(*                                                                         *)
(* Connections share a LiveDoc, found in the map liveDocs.  A LiveDoc is   *)
(* named here after the connection for which it was made.                  *)
(***************************************************************************)
EXTENDS DocStore, FiniteSets

CONSTANTS
    Ref,
    Conn,
    NoDoc,
    Store,        \* the user and local store behind a connection
    ClientId,
    Batch,        \* the sequences of commits a client may send
    MaxClock,     \* bound: milliseconds
    MaxMessages,  \* bound: messages of all clients
    MaxFaults     \* bound: what goes wrong with connections, and restarts

ASSUME NoDocAssumption == NoDoc \notin Conn
ASSUME BatchAssumption == Batch \subseteq Seq(Ref)
ASSUME BoundAssumption == {MaxClock, MaxMessages, MaxFaults} \subseteq Nat

VARIABLES
    rows,      \* the commits table
    clock,     \* the time in milliseconds, the last remoteSyncId
    liveDocs,  \* the LiveDoc in the map for this document, if any
    docs,      \* the LiveDocs: is the store open, connections, memory
    conns,     \* the Connections, with what each has sent to its client
    offered,   \* history: the acknowledged commits that a store sent
    messages,
    faults,
    dropped    \* history: an entry of liveDocs was deleted for another LiveDoc

vars == <<rows, clock, liveDocs, docs, conns, offered, messages, faults, dropped>>

-----------------------------------------------------------------------------
(* A Connection (clientStoreId and the cursor are set by init), and what   *)
(* it has sent: commits, and the clients whose joining it has announced.   *)
NewConnection(s, d) ==
    [status |-> "open", store |-> s, doc |-> d, authenticated |-> FALSE, cursor |-> 0,
     clients |-> {}, queue |-> <<>>, sent |-> <<>>, peers |-> {}]

NotConnected == [NewConnection(CHOOSE s \in Store : TRUE, NoDoc) EXCEPT !.status = "none"]

NewDoc(members) == [open |-> TRUE, connections |-> members, memory |-> NewMemory(rows)]

NoLiveDoc == [open |-> FALSE, connections |-> {}, memory |-> NewMemory(<<>>)]

InitMessage(cursor) == [op |-> "init", cursor |-> cursor]

Message == {InitMessage(0)}
               \cup [op : {"commits"}, commits : Batch]
               \cup [op : {"client-join", "client-leave"}, client : ClientId]

Init ==
    /\ rows = <<>>
    /\ clock = 0
    /\ liveDocs = NoDoc
    /\ docs = [d \in Conn |-> NoLiveDoc]
    /\ conns = [c \in Conn |-> NotConnected]
    /\ offered = [s \in Store |-> {}]
    /\ messages = 0
    /\ faults = 0
    /\ dropped = FALSE

-----------------------------------------------------------------------------
(* LiveDoc.broadcast of events to the other connections of the document:   *)
(* each gets a job in its queue (receiveBroadcast).                        *)
Broadcast(cs, c, events) ==
    LET from == [n \in DOMAIN events |-> [op |-> "broadcast", from |-> cs[c].store,
                                          event |-> events[n]]]
    IN  [o \in Conn |->
            IF o \in docs[cs[c].doc].connections \ {c}
            THEN [cs[o] EXCEPT !.queue = @ \o from] ELSE cs[o]]

(* A bug: the store is closed whoever still uses it.                       *)
AlwaysEmpties(d, c) == TRUE

(* Is the LiveDoc empty without c?                                         *)
Empties(d, c) == docs[d].connections \subseteq {c}

(* onClose, the callback that server.ts gives to the connection.  It may   *)
(* run more than once, and deletes the entry of the map whatever it is.    *)
OnClose(c) ==
    LET d == conns[c].doc
    IN  /\ docs' = [docs EXCEPT ![d].connections = @ \ {c},
                                ![d].open = @ /\ ~Empties(d, c)]
        /\ liveDocs' = IF Empties(d, c) THEN NoDoc ELSE liveDocs
        /\ dropped' = (dropped \/ (Empties(d, c) /\ liveDocs \notin {d, NoDoc}))

(* A bug: the clients of a connection that is closed are not announced.    *)
NoLeaves(c) == <<>>

(* The client-leave events of onClosed.                                    *)
Leaves(c) ==
    IF conns[c].authenticated
    THEN SetToSeq({[op |-> "client-leave", client |-> p] : p \in conns[c].clients})
    ELSE <<>>

(* onClosed, with the connection as the job leaves it.                     *)
OnClosed(c, conn) ==
    /\ conns' = [Broadcast(conns, c, Leaves(c)) EXCEPT ![c] = conn]
    /\ OnClose(c)

(* closeWithCode.                                                          *)
CloseWithCode(c, conn) ==
    OnClosed(c, [conn EXCEPT !.status = IF @ = "open" THEN "closing" ELSE @])

-----------------------------------------------------------------------------
Fault == faults < MaxFaults /\ faults' = faults + 1

(* onConnection in server.ts.  The first message of a client is init, with *)
(* the cursor that its store has from before.                              *)
Connect(c, s, cursor) ==
    LET d == IF liveDocs = NoDoc THEN c ELSE liveDocs
    IN  /\ conns[c].status = "none"
        /\ cursor \in {0} \cup {rows[n].remoteSyncId : n \in DOMAIN rows}
        /\ conns' = [conns EXCEPT ![c] =
                        [NewConnection(s, d) EXCEPT !.queue = <<InitMessage(cursor)>>]]
        /\ liveDocs' = d
        /\ docs' = [docs EXCEPT ![d] =
                       IF d = c THEN NewDoc({c})
                       ELSE [docs[d] EXCEPT !.connections = @ \cup {c}]]
        /\ UNCHANGED <<rows, clock, offered, messages, faults, dropped>>

(* A message arrives and is queued, also while the socket is closing.      *)
Receive(c, m) ==
    /\ conns[c].status \in {"open", "closing"}
    /\ messages < MaxMessages
    /\ messages' = messages + 1
    /\ conns' = [conns EXCEPT ![c].queue = Append(@, m)]
    /\ UNCHANGED <<rows, clock, liveDocs, docs, offered, faults, dropped>>

(* A frame that is binary or too big: refused at once.                     *)
ReceiveBadFrame(c) ==
    /\ conns[c].status \in {"open", "closing"}
    /\ Fault
    /\ CloseWithCode(c, conns[c])
    /\ UNCHANGED <<rows, clock, offered, messages>>

(* The socket closes: onClosed waits its turn.                             *)
SocketCloses(c) ==
    /\ \/ conns[c].status = "open" /\ Fault
       \/ conns[c].status = "closing" /\ UNCHANGED faults
    /\ conns' = [conns EXCEPT ![c].status = "closed",
                              ![c].queue = Append(@, [op |-> "closed"])]
    /\ UNCHANGED <<rows, clock, liveDocs, docs, offered, messages, dropped>>

(* An error of the socket: it is closed, and onClose runs at once.         *)
SocketError(c) ==
    /\ conns[c].status = "open"
    /\ Fault
    /\ conns' = [conns EXCEPT ![c].status = "closing"]
    /\ OnClose(c)
    /\ UNCHANGED <<rows, clock, offered, messages>>

-----------------------------------------------------------------------------
(* The jobs of a connection.                                               *)

NextJob(c, op) ==
    /\ conns[c].queue # <<>>
    /\ Head(conns[c].queue).op = op

Rest(c) == [conns[c] EXCEPT !.queue = Tail(@)]

(* init: authenticate, then the commits after the client's cursor.  The    *)
(* store of a document that is closed throws.                              *)
Initialize(c) ==
    LET cursor == Head(conns[c].queue).cursor
        conn == [Rest(c) EXCEPT !.authenticated = TRUE, !.cursor = cursor]
    IN  /\ NextJob(c, "init")
        /\ ~conns[c].authenticated
        /\ IF docs[conns[c].doc].open
           THEN /\ conns' = [conns EXCEPT ![c] =
                       [conn EXCEPT !.sent = GetCommitsEvent(rows, cursor)]]
                /\ UNCHANGED <<liveDocs, docs, dropped>>
           ELSE CloseWithCode(c, conn)
        /\ UNCHANGED <<rows, clock, offered, messages, faults>>

(* A second init is answered with an error and changes nothing.            *)
InitializeAgain(c) ==
    /\ NextJob(c, "init")
    /\ conns[c].authenticated
    /\ conns' = [conns EXCEPT ![c] = Rest(c)]
    /\ UNCHANGED <<rows, clock, liveDocs, docs, offered, messages, faults, dropped>>

(* authenticate throws.                                                    *)
Unauthorized(c) ==
    /\ NextJob(c, "init")
    /\ ~conns[c].authenticated
    /\ Fault
    /\ CloseWithCode(c, Rest(c))
    /\ UNCHANGED <<rows, clock, offered, messages>>

(* What else closes a connection: a message before init, a leave of a      *)
(* client that did not join (a user id that is not that of the connection  *)
(* and an unexpected event are answered in the same way).                  *)
Refuse(c) ==
    /\ \/ /\ ~conns[c].authenticated
          /\ \E op \in {"commits", "client-join", "client-leave"} : NextJob(c, op)
       \/ /\ NextJob(c, "client-leave")
          /\ Head(conns[c].queue).client \notin conns[c].clients
    /\ CloseWithCode(c, Rest(c))
    /\ UNCHANGED <<rows, clock, offered, messages, faults>>

(* commits, at time t: added, acknowledged and broadcast; the store of a   *)
(* document that is closed throws.  Two adds may see the same millisecond. *)
OnCommits(c, t) ==
    LET d == conns[c].doc
        added == LiveDocAddCommits(rows, docs[d].memory, Head(conns[c].queue).commits, t)
        rest == [conns EXCEPT ![c] = Rest(c)]
    IN  /\ NextJob(c, "commits")
        /\ conns[c].authenticated
        /\ t >= clock
        /\ IF docs[d].open
           THEN /\ rows' = added.rows
                /\ clock' = t
                /\ docs' = [docs EXCEPT ![d].memory = added.memory]
                /\ offered' = [offered EXCEPT ![conns[c].store] = @ \cup added.acks]
                /\ conns' = Broadcast(rest, c,
                                << [op |-> "commits", commits |-> added.broadcast] >>)
                /\ UNCHANGED <<liveDocs, dropped>>
           ELSE /\ CloseWithCode(c, Rest(c))
                /\ UNCHANGED <<rows, clock, offered>>
        /\ UNCHANGED <<messages, faults>>

(* client-join (and client-presence, which is handled alike).              *)
OnClientJoin(c) ==
    LET m == Head(conns[c].queue)
        joined == [Rest(c) EXCEPT !.clients = @ \cup {m.client}]
    IN  /\ NextJob(c, "client-join")
        /\ conns[c].authenticated
        /\ conns' = Broadcast([conns EXCEPT ![c] = joined], c, <<m>>)
        /\ UNCHANGED <<rows, clock, liveDocs, docs, offered, messages, faults, dropped>>

OnClientLeave(c) ==
    LET m == Head(conns[c].queue)
        left == [Rest(c) EXCEPT !.clients = @ \ {m.client}]
    IN  /\ NextJob(c, "client-leave")
        /\ conns[c].authenticated
        /\ m.client \in conns[c].clients
        /\ conns' = Broadcast([conns EXCEPT ![c] = left], c, <<m>>)
        /\ UNCHANGED <<rows, clock, liveDocs, docs, offered, messages, faults, dropped>>

(* What a connection sends on of a broadcast: nothing before init, and     *)
(* nothing that comes from the same user and store.                        *)
SendsOn(c, job) == conns[c].authenticated /\ job.from # conns[c].store

ReceiveBroadcast(c) ==
    LET job == Head(conns[c].queue)
        event == job.event
    IN  /\ NextJob(c, "broadcast")
        /\ conns' = [conns EXCEPT ![c] =
              CASE ~SendsOn(c, job) -> Rest(c)
                [] SendsOn(c, job) /\ event.op = "commits" ->
                      [Rest(c) EXCEPT !.sent = @ \o event.commits]
                [] SendsOn(c, job) /\ event.op = "client-join" ->
                      [Rest(c) EXCEPT !.peers = @ \cup {event.client}]
                [] SendsOn(c, job) /\ event.op = "client-leave" ->
                      [Rest(c) EXCEPT !.peers = @ \ {event.client}]]
        /\ UNCHANGED <<rows, clock, liveDocs, docs, offered, messages, faults, dropped>>

(* The job that the close of the socket queued.                            *)
FinishClose(c) ==
    /\ NextJob(c, "closed")
    /\ OnClosed(c, Rest(c))
    /\ UNCHANGED <<rows, clock, offered, messages, faults>>

-----------------------------------------------------------------------------
(* The server process is restarted: the table is all that stays.           *)
Restart ==
    /\ \E c \in Conn : conns[c].doc # NoDoc
    /\ Fault
    /\ liveDocs' = NoDoc
    /\ docs' = [d \in Conn |-> NoLiveDoc]
    /\ conns' = [c \in Conn |->
                    IF conns[c].status = "none" THEN conns[c]
                    ELSE [NotConnected EXCEPT !.status = "closed"]]
    /\ UNCHANGED <<rows, clock, offered, messages, dropped>>

Job(c) ==
    \/ Initialize(c)
    \/ InitializeAgain(c)
    \/ Unauthorized(c)
    \/ Refuse(c)
    \/ \E t \in 1 .. MaxClock : OnCommits(c, t)
    \/ OnClientJoin(c)
    \/ OnClientLeave(c)
    \/ ReceiveBroadcast(c)
    \/ FinishClose(c)

Next ==
    \/ \E c \in Conn :
          \/ \E s \in Store, cursor \in 0 .. MaxClock : Connect(c, s, cursor)
          \/ \E m \in Message : Receive(c, m)
          \/ ReceiveBadFrame(c)
          \/ SocketCloses(c)
          \/ SocketError(c)
          \/ Job(c)
    \/ Restart

Spec == Init /\ [][Next]_vars

-----------------------------------------------------------------------------
Row == [ref : Ref, remoteSyncId : 1 .. MaxClock, remoteSyncIndex : Nat, main : BOOLEAN]

TypeOK ==
    /\ rows \in Seq(Row)
    /\ clock \in 0 .. MaxClock
    /\ liveDocs \in Conn \cup {NoDoc}
    /\ \A d \in Conn :
          /\ docs[d].open \in BOOLEAN
          /\ docs[d].connections \subseteq Conn
          /\ docs[d].memory \in [seenRefs : SUBSET Ref, headRef : Ref \cup {NoRef}]
    /\ \A c \in Conn :
          /\ conns[c].status \in {"none", "open", "closing", "closed"}
          /\ conns[c].doc \in Conn \cup {NoDoc}
          /\ conns[c].clients \subseteq ClientId /\ conns[c].peers \subseteq ClientId
          /\ conns[c].sent \in Seq(Ref)
    /\ offered \in [Store -> SUBSET Ref]
    /\ messages \in 0 .. MaxMessages /\ faults \in 0 .. MaxFaults
    /\ dropped \in BOOLEAN

(* A document's store is open as long as a connection uses it, however     *)
(* often and in whatever order connections are closed, by the server, the  *)
(* client or the network; and the map never hands out one that is closed.  *)
DocOpenWhileUsed ==
    /\ \A d \in Conn : docs[d].connections # {} => docs[d].open
    /\ liveDocs # NoDoc => docs[liveDocs].open

(* Connections that are served.                                            *)
Serving(c) == conns[c].status = "open" /\ c \in docs[conns[c].doc].connections

(* Commits that a connection has still to send on.                         *)
Pending(c) ==
    UNION {IF SendsOn(c, job) /\ job.event.op = "commits" THEN ToSet(job.event.commits) ELSE {} :
              job \in {j \in ToSet(conns[c].queue) : j.op = "broadcast"}}

(* A client misses nothing: each commit after its cursor has been sent to  *)
(* it or is about to be, or comes from its own store, although commits     *)
(* are added while it connects (sendInitialEvents and broadcasts overlap). *)
NoGap ==
    ~dropped => \A c \in Conn : Serving(c) /\ conns[c].authenticated =>
        \A n \in DOMAIN rows : rows[n].remoteSyncId > conns[c].cursor =>
            rows[n].ref \in ToSet(conns[c].sent) \cup offered[conns[c].store] \cup Pending(c)

(* The adds of a millisecond are told apart by nothing but their index.    *)
UniqueSyncIds ==
    \A m, n \in DOMAIN rows :
        rows[m].remoteSyncId = rows[n].remoteSyncId
            /\ rows[m].remoteSyncIndex = rows[n].remoteSyncIndex => m = n

(* A client gets parents before children, as it must to resolve them       *)
(* (TrimergeClient.addHead), unless two adds share a syncId.               *)
ServedInOrder ==
    UniqueSyncIds /\ ~dropped => \A c \in Conn : Serving(c) =>
        \A n \in DOMAIN conns[c].sent :
            ParentsOf(conns[c].sent[n]) \subseteq
                {conns[c].sent[m] : m \in 1 .. n - 1} \cup offered[conns[c].store]
                    \cup {rows[m].ref : m \in {k \in DOMAIN rows :
                              rows[k].remoteSyncId <= conns[c].cursor}}

(* Does the server still have to announce that p left connection o?        *)
MayAnnounce(o, p) ==
    /\ p \in conns[o].clients
    /\ conns[o].status # "closed" \/ conns[o].queue # <<>>

(* Nobody is shown a client that is gone: whoever was told that it joined  *)
(* is told that it left, once the connection of that client has closed.    *)
NoGhosts ==
    \A c \in Conn : Serving(c) => \A p \in conns[c].peers :
        \/ \E o \in Conn : MayAnnounce(o, p)
        \/ \E job \in ToSet(conns[c].queue) :
              job.op = "broadcast" /\ job.event = [op |-> "client-leave", client |-> p]
=============================================================================
