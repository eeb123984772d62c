----------------------------- MODULE RemoteSync -----------------------------
(***************************************************************************)
(* CoordinatingLocalStore.ts and WebsocketRemote.ts: the stores of several *)
(* tabs, the database that tabs of one browser share (module               *)
(* CommitRepository), the sockets of the tabs that lead, and the server    *)
(* (module DocStore, which adds the commits of a message in one step).     *)
(*                                                                         *)
(* A store runs two PromiseQueues: remoteQueue, for connecting, closing    *)
(* and the events of the remote, and localQueue, for updates and the       *)
(* events of the other tabs.  A job that awaits is two jobs here, the      *)
(* second of which takes the place of the first at the head of its queue.  *)
(*                                                                         *)
(* An event is in the queue of a store as soon as the server sends it; how *)
(* many of the events have really arrived is settled when the socket is    *)
(* closed.  Left out: presence, metadata, the sync states that a store     *)
(* reports, and the LeaderManager, of which only the callback is here.     *)
(***************************************************************************)
EXTENDS CommitRepository, DocStore

CONSTANTS
    Tab,
    Store,           \* databases: browsers
    Socket,
    NoSocket,
    EditRef(_, _),   \* computeRef of an edit: its parents, its tab
    Scenarios        \* which tabs are in which browser, and what may happen

(* What happens to a system is bounded: edits, broken sockets, leaders     *)
(* elected beside another one, shutdowns, resets, and tabs that die.       *)
Bounded == {"edits", "breaks", "leaders", "shutdowns", "resets", "crashes"}

ASSUME SocketAssumption == IsFiniteSet(Socket) /\ NoSocket \notin Socket
ASSUME ScenarioAssumption ==
    Scenarios \subseteq [homes : [Tab -> Store], budget : [Bounded -> Nat]]

VARIABLES
    storeOf,   \* the database of each tab
    db,
    tabs,      \* the CoordinatingLocalStore of each tab, and its client
    sockets,   \* the WebsocketRemotes
    rows,      \* the server: its table and the memory of its store
    memory,
    budget,    \* what may still happen
    gap,       \* history: a client threw, or a tab died within a job
    replaced   \* history: a store connected that had a connection already

vars == <<storeOf, db, tabs, sockets, rows, memory, budget, gap, replaced>>
server == <<rows, memory>>
counters == <<budget, gap, replaced>>

-----------------------------------------------------------------------------
Job(op) == [op |-> op]
Close(final) == [op |-> "close", final |-> final]
ErrorEvent(k, reconnect) == [op |-> "error", from |-> k, reconnect |-> reconnect]

(* A store that has just been made: initialize() loads the repository.     *)
(* `missed' is history: commits that it will never hear of (see Unheard).  *)
NewTab ==
    [open |-> TRUE, closed |-> FALSE, dbOpen |-> TRUE, leader |-> FALSE,
     remote |-> NoSocket, timer |-> FALSE, known |-> {}, missed |-> {},
     remoteQueue |-> <<>>, localQueue |-> <<Job("load")>>]

NoTab == [NewTab EXCEPT !.open = FALSE, !.localQueue = <<>>]

(* A WebsocketRemote: the cursor of its init message, and what it has sent *)
(* (or buffers while connecting) after that and the server has not read.   *)
(* It is connecting until the server has read init.                        *)
NewSocket(t, cursor) ==
    [state |-> "connecting", tab |-> t, cursor |-> cursor, up |-> <<>>]

ClosedSocket == [NewSocket(CHOOSE t \in Tab : TRUE, 0) EXCEPT !.state = "closed"]

Init ==
    /\ \E scenario \in Scenarios :
          storeOf = scenario.homes /\ budget = scenario.budget
    /\ db = [s \in Store |-> EmptyDb]
    /\ tabs = [t \in Tab |-> [NewTab EXCEPT !.localQueue = <<>>]]
    /\ sockets = [k \in Socket |-> ClosedSocket]
    /\ rows = <<>>
    /\ memory = NewMemory(<<>>)
    /\ gap = FALSE
    /\ replaced = FALSE

Spend(kind) == budget[kind] > 0 /\ budget' = [budget EXCEPT ![kind] = @ - 1]

Live(t) == tabs[t].open /\ ~tabs[t].closed
Siblings(t) == {o \in Tab \ {t} : storeOf[o] = storeOf[t] /\ tabs[o].open}

-----------------------------------------------------------------------------
(* What the code's methods do to a store's record and to the sockets.      *)

(* closeRemote.                                                            *)
CloseRemote(tab, reconnect) ==
    [tab EXCEPT !.remoteQueue = Append(@, Close(FALSE)), !.timer = reconnect]

(* connectRemote.                                                          *)
ConnectRemote(tab) == [tab EXCEPT !.remoteQueue = Append(@, Job("connect"))]

(* shutdown, up to the end of closeRemote.                                 *)
ShutDown(tab) ==
    IF tab.closed THEN tab
    ELSE [tab EXCEPT !.closed = TRUE, !.timer = FALSE,
                     !.remoteQueue = Append(@, Close(TRUE))]

DoneRemote(tab) == [tab EXCEPT !.remoteQueue = Tail(@)]
DoneLocal(tab) == [tab EXCEPT !.localQueue = Tail(@)]
ThenRemote(tab, job) == [tab EXCEPT !.remoteQueue[1] = job]

(* Sending on the local channel.                                           *)
Announce(ts, t, batch, remoteOrigin) ==
    [o \in Tab |-> IF o \in Siblings(t)
        THEN [ts[o] EXCEPT !.localQueue =
                 Append(@, [op |-> "event", commits |-> batch, remoteOrigin |-> remoteOrigin])]
        ELSE ts[o]]

(* WebsocketRemote.send: nothing is sent once the socket is being closed.  *)
Send(ks, k, batch) ==
    [x \in Socket |-> IF x = k /\ ks[x].state \in {"connecting", "open"} /\ batch # <<>>
        THEN [ks[x] EXCEPT !.up = Append(@, [op |-> "commits", commits |-> batch])]
        ELSE ks[x]]

(* The client can add the commits in this order: it knows, or gets before, *)
(* the base of each (TrimergeClient.addHead).                              *)
Base(r) == IF ParentsOf(r) = {} THEN {} ELSE {CHOOSE p \in ParentsOf(r) : TRUE}
Resolves(known, batch) ==
    \A n \in DOMAIN batch :
        Base(batch[n].ref) \subseteq known \cup {batch[m].ref : m \in 1 .. n - 1}

Childless(refs) == refs \ UNION {ParentsOf(r) : r \in refs}

-----------------------------------------------------------------------------
(* Users, tabs and the LeaderManager's callback.                           *)

(* The user edits.  The edit stands for itself and the merges below it:    *)
(* its parents are all the heads that the client has.                      *)
Edit(t) ==
    LET r == EditRef(Childless(tabs[t].known), t)
    IN  /\ Live(t)
        /\ r \notin tabs[t].known
        /\ Spend("edits")
        /\ tabs' = [tabs EXCEPT
               ![t].known = @ \cup {r},
               ![t].localQueue = Append(@, [op |-> "update", commits |-> <<Fresh(r)>>])]
        /\ UNCHANGED <<storeOf, db, sockets, server, gap, replaced>>

Leads(t) == Live(t) /\ tabs[t].leader

(* Two leaders at a time are a fault, that ends with one demoted.          *)
Promote(t) ==
    /\ Live(t)
    /\ ~tabs[t].leader
    /\ IF \E o \in Siblings(t) : tabs[o].leader THEN Spend("leaders") ELSE UNCHANGED budget
    /\ tabs' = [tabs EXCEPT ![t] = ConnectRemote([@ EXCEPT !.leader = TRUE])]
    /\ UNCHANGED <<storeOf, db, sockets, server, gap, replaced>>

Demote(t) ==
    /\ Leads(t)
    /\ \E o \in Siblings(t) : Leads(o)
    /\ tabs' = [tabs EXCEPT ![t] = CloseRemote([@ EXCEPT !.leader = FALSE], FALSE)]
    /\ UNCHANGED <<storeOf, db, sockets, server, counters>>

(* The reconnect timer, which is slow enough for what is going on to end   *)
(* first (its delay is a second at least).                                 *)
Reconnect(t) ==
    /\ tabs[t].timer
    /\ tabs[t].remoteQueue = <<>>
    /\ \A k \in Socket : sockets[k].tab = t => sockets[k].state # "closing"
    /\ tabs' = [tabs EXCEPT ![t] = ConnectRemote([@ EXCEPT !.timer = FALSE])]
    /\ UNCHANGED <<storeOf, db, sockets, server, counters>>

Shutdown(t) ==
    /\ Live(t)
    /\ Spend("shutdowns")
    /\ tabs' = [tabs EXCEPT ![t] = ShutDown(@)]
    /\ UNCHANGED <<storeOf, db, sockets, server, gap, replaced>>

(* What a job that is under way leaves of the database when its tab dies:  *)
(* addCommits moves the cursor in a transaction of its own, and an update  *)
(* is announced after it has been persisted.                               *)
Torn(t) ==
    LET repo == db[storeOf[t]]
        Under(queue, op) == {queue[n] : n \in {m \in DOMAIN queue : m = 1 /\ queue[m].op = op}}
    IN  {AddCommits(repo, job.commits, FALSE) : job \in Under(tabs[t].localQueue, "update")}
        \cup UNION { {AddCommits(repo, job.commits, TRUE), UpsertRemoteSyncInfo(repo, job.cursor)} :
                     job \in Under(tabs[t].remoteQueue, "persist") }

(* A tab dies, between two jobs or within one, and its sockets with it.    *)
Crash(t) ==
    /\ tabs[t].open
    /\ Spend("crashes")
    /\ \/ UNCHANGED <<db, gap>>
       \/ /\ tabs[t].dbOpen
          /\ \E left \in Torn(t) : db' = [db EXCEPT ![storeOf[t]] = left]
          /\ gap' = TRUE
    /\ tabs' = [tabs EXCEPT ![t] = NoTab]
    /\ sockets' = [k \in Socket |-> IF sockets[k].tab = t THEN ClosedSocket ELSE sockets[k]]
    /\ UNCHANGED <<storeOf, server, replaced>>

Open(t) ==
    /\ ~tabs[t].open
    /\ tabs' = [tabs EXCEPT ![t] = NewTab]
    /\ UNCHANGED <<storeOf, db, sockets, server, counters>>

Reset(s) ==
    /\ Spend("resets")
    /\ db' = [db EXCEPT ![s] = ResetDocRemoteSyncData(@)]
    /\ UNCHANGED <<storeOf, tabs, sockets, server, gap, replaced>>

-----------------------------------------------------------------------------
(* The jobs of remoteQueue.                                                *)

NextRemote(t, op) ==
    tabs[t].open /\ tabs[t].remoteQueue # <<>> /\ Head(tabs[t].remoteQueue).op = op

(* A socket that nobody refers to any more.                                *)
Unused(k) ==
    /\ sockets[k].state = "closed"
    /\ \A t \in Tab : tabs[t].remote # k
          /\ \A n \in DOMAIN tabs[t].remoteQueue :
                LET job == tabs[t].remoteQueue[n]
                IN  job.op \in {"commits", "ack", "error"} => job.from # k

(* connectRemote's job up to the new remote, whatever remote there is.     *)
Opens(t) ==
    LET k == CHOOSE x \in Socket : Unused(x)
    IN  /\ NextRemote(t, "connect")
        /\ tabs[t].dbOpen
        /\ \E x \in Socket : Unused(x)
        /\ sockets' = [sockets EXCEPT ![k] = NewSocket(t, db[storeOf[t]].lastSyncCursor)]
        /\ tabs' = [tabs EXCEPT ![t] =
               ThenRemote([@ EXCEPT !.timer = FALSE, !.remote = k], Job("upload"))]
        /\ replaced' = (replaced \/ tabs[t].remote # NoSocket)
        /\ UNCHANGED <<storeOf, db, server, budget, gap>>

(* A bug: a store that has been shut down connects.                        *)
ConnectAnyway(t) == Opens(t)

Connect(t) == ~tabs[t].closed /\ Opens(t)

(* A store that is shut down does not connect; once the database is closed *)
(* the job fails, and is tried again.                                      *)
ConnectClosed(t) ==
    /\ NextRemote(t, "connect")
    /\ tabs[t].closed
    /\ tabs' = [tabs EXCEPT ![t] =
           IF tabs[t].dbOpen THEN DoneRemote([@ EXCEPT !.timer = FALSE])
           ELSE CloseRemote(DoneRemote(@), TRUE)]
    /\ UNCHANGED <<storeOf, db, sockets, server, counters>>

(* The rest of that job: what the remote does not have is sent.            *)
Upload(t) ==
    /\ NextRemote(t, "upload")
    /\ tabs' = [tabs EXCEPT ![t] = DoneRemote(@)]
    /\ sockets' = Send(sockets, tabs[t].remote, CommitsForRemote(db[storeOf[t]]))
    /\ UNCHANGED <<storeOf, db, server, counters>>

(* A queue without the events of socket k that are lost: the first n of    *)
(* those that were sent have arrived.                                      *)
Arrived(queue, k, n) ==
    LET From(m) == queue[m].op \in {"commits", "ack"} /\ queue[m].from = k
        kept == {m \in DOMAIN queue : From(m) =>
                     Cardinality({x \in 1 .. m : From(x)}) <= n}
    IN  Among(queue, kept)

(* closeRemote's job.                                                      *)
CloseJob(t) ==
    LET k == tabs[t].remote
        done == [DoneRemote(tabs[t]) EXCEPT !.remote = NoSocket]
    IN  /\ NextRemote(t, "close")
        /\ \E n \in 0 .. Len(done.remoteQueue) :
              tabs' = [tabs EXCEPT ![t] =
                  [done EXCEPT !.remoteQueue = Arrived(@, k, n)]]
        /\ sockets' = [x \in Socket |->
               IF x = k /\ sockets[x].state # "closed"
               THEN [sockets[x] EXCEPT !.state = "closing"] ELSE sockets[x]]
        /\ UNCHANGED <<storeOf, db, server, counters>>

(* The end of shutdown: the LeaderManager's, and the database is closed.   *)
CloseDatabase(t) ==
    /\ tabs[t].closed /\ tabs[t].dbOpen
    /\ Close(TRUE) \notin ToSet(tabs[t].remoteQueue)
    /\ tabs' = [tabs EXCEPT ![t] = [@ EXCEPT !.dbOpen = FALSE, !.leader = FALSE]]
    /\ UNCHANGED <<storeOf, db, sockets, server, counters>>

(* processEvent of the remote's commits: the client and the other tabs get *)
(* them before they are persisted.                                         *)
RemoteCommits(t) ==
    LET event == Head(tabs[t].remoteQueue)
        known == tabs[t].known \cup Refs(event.commits)
        rest == [op |-> "persist", commits |-> event.commits, cursor |-> event.cursor]
    IN  /\ NextRemote(t, "commits")
        /\ Resolves(tabs[t].known, event.commits)
        /\ tabs' = Announce([tabs EXCEPT ![t] =
                       ThenRemote([@ EXCEPT !.known = known], rest)],
                   t, event.commits, TRUE)
        /\ UNCHANGED <<storeOf, db, sockets, server, counters>>

(* The same when the client throws: the store shuts down, and what is      *)
(* queued is still worked off.                                             *)
RemoteCommitsThrow(t) ==
    /\ NextRemote(t, "commits")
    /\ ~Resolves(tabs[t].known, Head(tabs[t].remoteQueue).commits)
    /\ gap' = TRUE
    /\ tabs' = [tabs EXCEPT ![t] = ShutDown(DoneRemote(@))]
    /\ UNCHANGED <<storeOf, db, sockets, server, budget, replaced>>

(* The rest of that job, and an ack.  A closed database fails.             *)
Persist(t) ==
    LET event == Head(tabs[t].remoteQueue)
    IN  /\ NextRemote(t, "persist")
        /\ tabs' = [tabs EXCEPT ![t] = DoneRemote(@)]
        /\ db' = IF ~tabs[t].dbOpen THEN db
                 ELSE [db EXCEPT ![storeOf[t]] =
                          UpsertRemoteSyncInfo(AddCommits(@, event.commits, TRUE), event.cursor)]
        /\ UNCHANGED <<storeOf, sockets, server, counters>>

Ack(t) ==
    LET event == Head(tabs[t].remoteQueue)
    IN  /\ NextRemote(t, "ack")
        /\ tabs' = [tabs EXCEPT ![t] = DoneRemote(@)]
        /\ db' = IF ~tabs[t].dbOpen THEN db
                 ELSE [db EXCEPT ![storeOf[t]] =
                          UpsertRemoteSyncInfo(AcknowledgeRemoteCommits(@, event.acks),
                                               event.cursor)]
        /\ UNCHANGED <<storeOf, sockets, server, counters>>

(* A fatal error of any of the store's remotes, past or present.           *)
OnError(t) ==
    /\ NextRemote(t, "error")
    /\ tabs' = [tabs EXCEPT ![t] =
           CloseRemote(DoneRemote(@), Head(tabs[t].remoteQueue).reconnect)]
    /\ UNCHANGED <<storeOf, db, sockets, server, counters>>

-----------------------------------------------------------------------------
(* The jobs of localQueue.                                                 *)

(* Commits that other tabs have announced to t.                            *)
Announced(t) ==
    UNION {Refs(tabs[t].localQueue[n].commits) :
               n \in {m \in DOMAIN tabs[t].localQueue : tabs[t].localQueue[m].op = "event"}}

(* What other tabs are about to persist and t will never hear of: it was   *)
(* announced before t was opened, and is not stored yet when t loads.      *)
Unheard(t) ==
    (UNION {Refs(Head(tabs[o].remoteQueue).commits) :
               o \in {x \in Siblings(t) : NextRemote(x, "persist")}})
        \ (Stored(db[storeOf[t]]) \cup tabs[t].known \cup Announced(t))

NextLocal(t, op) ==
    tabs[t].open /\ tabs[t].localQueue # <<>> /\ Head(tabs[t].localQueue).op = op

(* initialize: the client gets the commits of the repository, by syncId.   *)
Load(t) ==
    LET repo == db[storeOf[t]]
    IN  /\ NextLocal(t, "load")
        /\ \A r \in Stored(repo) \ tabs[t].known : \A p \in Base(r) \ tabs[t].known :
              MayBeBefore(repo, p, r)
        /\ tabs' = [tabs EXCEPT ![t] =
               DoneLocal([tabs[t] EXCEPT !.known = @ \cup Stored(repo),
                                         !.missed = @ \cup Unheard(t)])]
        /\ UNCHANGED <<storeOf, db, sockets, server, counters>>

LoadThrows(t) ==
    LET repo == db[storeOf[t]]
    IN  /\ NextLocal(t, "load")
        /\ \E r \in Stored(repo) \ tabs[t].known : \E p \in Base(r) \ tabs[t].known :
              ~SurelyBefore(repo, p, r)
        /\ gap' = TRUE
        /\ tabs' = [tabs EXCEPT ![t] = ShutDown(DoneLocal(@))]
        /\ UNCHANGED <<storeOf, db, sockets, server, budget, replaced>>

(* doUpdate: persisted, announced and sent to the remote; a database that  *)
(* is closed fails.                                                        *)
Update(t) ==
    LET batch == Head(tabs[t].localQueue).commits
        done == [tabs EXCEPT ![t] = DoneLocal(@)]
    IN  /\ NextLocal(t, "update")
        /\ IF tabs[t].dbOpen
           THEN /\ db' = [db EXCEPT ![storeOf[t]] = AddCommits(@, batch, FALSE)]
                /\ tabs' = Announce(done, t, batch, FALSE)
                /\ sockets' = Send(sockets, tabs[t].remote, batch)
           ELSE /\ tabs' = done
                /\ UNCHANGED <<db, sockets>>
        /\ UNCHANGED <<storeOf, server, counters>>

(* A bug: commits are passed on only while the connection is open, not     *)
(* buffered while it opens.                                                *)
PassesOnOnline(t, event) ==
    ~event.remoteOrigin /\ tabs[t].remote # NoSocket
        /\ sockets[tabs[t].remote].state = "open"

(* Commits of another tab are passed on to the remote, unless they come    *)
(* from there.                                                             *)
PassesOn(t, event) == ~event.remoteOrigin

LocalEvent(t) ==
    LET event == Head(tabs[t].localQueue)
    IN  /\ NextLocal(t, "event")
        /\ Resolves(tabs[t].known, event.commits)
        /\ tabs' = [tabs EXCEPT ![t] =
               DoneLocal([tabs[t] EXCEPT !.known = @ \cup Refs(event.commits)])]
        /\ sockets' = IF PassesOn(t, event)
                      THEN Send(sockets, tabs[t].remote, event.commits) ELSE sockets
        /\ UNCHANGED <<storeOf, db, server, counters>>

LocalEventThrows(t) ==
    /\ NextLocal(t, "event")
    /\ ~Resolves(tabs[t].known, Head(tabs[t].localQueue).commits)
    /\ gap' = TRUE
    /\ tabs' = [tabs EXCEPT ![t] = ShutDown(DoneLocal(@))]
    /\ UNCHANGED <<storeOf, db, sockets, server, budget, replaced>>

-----------------------------------------------------------------------------
(* Sockets.                                                                *)

(* The events that a socket's end makes: onclose, or onerror and onclose.  *)
EndEvents(k) ==
    { <<ErrorEvent(k, TRUE)>>, <<ErrorEvent(k, FALSE), ErrorEvent(k, TRUE)>> }

(* The network or the server ends a connection: messages on their way, in  *)
(* both directions, are lost.                                              *)
Break(k) ==
    /\ sockets[k].state \in {"connecting", "open"}
    /\ Spend("breaks")
    /\ sockets' = [sockets EXCEPT ![k] = ClosedSocket]
    /\ \E events \in EndEvents(k), n \in 0 .. Len(tabs[sockets[k].tab].remoteQueue) :
          tabs' = [tabs EXCEPT ![sockets[k].tab].remoteQueue = Arrived(@, k, n) \o events]
    /\ UNCHANGED <<storeOf, db, server, gap, replaced>>

(* A socket that was closed by its own tab is closed at last, with what it *)
(* had sent read by the server: onclose is still set.                      *)
SocketCloses(k) ==
    /\ sockets[k].state = "closing"
    /\ sockets' = [sockets EXCEPT ![k] = ClosedSocket]
    /\ tabs' = [tabs EXCEPT ![sockets[k].tab].remoteQueue =
                   Append(@, ErrorEvent(k, TRUE))]
    /\ UNCHANGED <<storeOf, db, server, counters>>

-----------------------------------------------------------------------------
(* What the server sends to a socket that is still open.                   *)
Receives(ts, k, events) ==
    IF sockets[k].state = "open"
    THEN [ts EXCEPT ![sockets[k].tab].remoteQueue = @ \o events] ELSE ts

LastRow == IF rows = <<>> THEN 0 ELSE Last(rows).remoteSyncId

(* The socket opens and the server answers init, the commits after the     *)
(* cursor.                                                                 *)
ServerInit(k) ==
    LET refs == GetCommitsEvent(rows, sockets[k].cursor)
        event == [op |-> "commits", from |-> k, cursor |-> LastRow,
                  commits |-> [n \in DOMAIN refs |-> Fresh(refs[n])]]
    IN  /\ sockets[k].state = "connecting"
        /\ sockets' = [sockets EXCEPT ![k].state = "open"]
        /\ tabs' = IF refs = <<>> THEN tabs
                   ELSE [tabs EXCEPT ![sockets[k].tab].remoteQueue = Append(@, event)]
        /\ UNCHANGED <<storeOf, db, server, counters>>

(* The server adds the commits of a message, under a remoteSyncId of its   *)
(* own, acknowledges and broadcasts them.                                  *)
(* An ack whose syncId is later than all rows, but belongs to none, is the *)
(* same to a client as the syncId of the last row.                         *)
ServerCommits(k) ==
    LET batch == Head(sockets[k].up).commits
        id == LastRow + 1
        added == LiveDocAddCommits(rows, memory, [n \in DOMAIN batch |-> batch[n].ref], id)
        last == IF added.rows = rows THEN LastRow ELSE id
        ack == [op |-> "ack", from |-> k, acks |-> added.acks, cursor |-> last]
        event(o) == [op |-> "commits", from |-> o, cursor |-> last,
                     commits |-> Among(batch, {n \in DOMAIN batch : batch[n].ref \in added.acks})]
        Others(t) == {o \in Socket : /\ sockets[o].tab = t /\ sockets[o].state = "open"
                                     /\ storeOf[t] # storeOf[sockets[k].tab]}
    IN  /\ sockets[k].state \in {"open", "closing"}
        /\ sockets[k].up # <<>>
        /\ rows' = added.rows
        /\ memory' = added.memory
        /\ sockets' = [sockets EXCEPT ![k].up = Tail(@)]
        /\ tabs' = [t \in Tab |->
               [Receives(tabs, k, <<ack>>)[t] EXCEPT
                   !.remoteQueue = @ \o [n \in 1 .. Cardinality(Others(t)) |->
                                            event(SetToSeq(Others(t))[n])]]]
        /\ UNCHANGED <<storeOf, db, counters>>

-----------------------------------------------------------------------------
Jobs(t) ==
    \/ Connect(t) \/ ConnectClosed(t) \/ Upload(t) \/ CloseJob(t) \/ CloseDatabase(t)
    \/ RemoteCommits(t) \/ RemoteCommitsThrow(t) \/ Persist(t) \/ Ack(t) \/ OnError(t)

LocalJobs(t) ==
    \/ Load(t) \/ LoadThrows(t) \/ Update(t)
    \/ LocalEvent(t) \/ LocalEventThrows(t)

Network(k) == SocketCloses(k) \/ ServerInit(k) \/ ServerCommits(k)

Next ==
    \/ \E t \in Tab :
          \/ Edit(t) \/ Promote(t) \/ Demote(t) \/ Reconnect(t)
          \/ Shutdown(t) \/ Crash(t) \/ Open(t)
          \/ Jobs(t) \/ LocalJobs(t)
    \/ \E s \in Store : Reset(s)
    \/ \E k \in Socket : Network(k) \/ Break(k)

Spec == Init /\ [][Next]_vars

-----------------------------------------------------------------------------
ServerRefs == RefsOf(rows)

DbOK(s) ==
    /\ \A r \in Stored(db[s]) : db[s].commits[r].syncId \in Nat \ {0}
    /\ db[s].heads \subseteq Stored(db[s])
    /\ db[s].lastSyncCursor \in 0 .. LastRow

TypeOK ==
    /\ storeOf \in [Tab -> Store]
    /\ \A s \in Store : DbOK(s)
    /\ \A t \in Tab :
          /\ tabs[t].remote \in Socket \cup {NoSocket}
          /\ \A field \in {"open", "closed", "dbOpen", "leader", "timer"} :
                tabs[t][field] \in BOOLEAN
    /\ \A k \in Socket : sockets[k].state \in {"connecting", "open", "closing", "closed"}
    /\ memory.seenRefs = ServerRefs
    /\ budget \in [Bounded -> Nat]
    /\ gap \in BOOLEAN /\ replaced \in BOOLEAN

(* The cursor never passes a commit that the database does not have, which *)
(* the server would not send again: whichever of the broadcasts and acks   *)
(* of this and of earlier connections were lost, and whenever a tab died   *)
(* (processEvent, upsertRemoteSyncInfo).  It may once a client has thrown: *)
(* the commits it threw at are not persisted, the events after them are.   *)
CursorSafe ==
    ~gap => \A s \in Store : \A n \in DOMAIN rows :
        rows[n].remoteSyncId <= db[s].lastSyncCursor => rows[n].ref \in Stored(db[s])

(* What is marked as synced is on the server, so no commit is ever left    *)
(* out of an upload that the server does not have (getCommitsForRemote).   *)
SyncedOnServer ==
    \A s \in Store : \A r \in Stored(db[s]) : db[s].commits[r].synced => r \in ServerRefs

(* The heads store misses no branch: each commit without a child in the    *)
(* database is in it, in whatever order commits came and came again.       *)
HeadsComplete == \A s \in Store : Childless(Stored(db[s])) \subseteq db[s].heads

(* A store that was shut down keeps no connection, whatever was going on   *)
(* when it was: connecting, uploading, waiting to reconnect.  (Unless it   *)
(* had connected while it was connected: the first connection is then      *)
(* nobody's and stays open.)                                               *)
ClosedIsOffline ==
    \A t \in Tab : ~tabs[t].dbOpen =>
        /\ tabs[t].remote = NoSocket
        /\ ~replaced => \A k \in Socket : sockets[k].tab = t =>
               sockets[k].state \in {"closing", "closed"}

(* Nothing is going on in the tabs that are in use, and each browser with  *)
(* such a tab has its leader.                                              *)
Idle ==
    /\ \A t \in Tab : Live(t) =>
          /\ tabs[t].remoteQueue = <<>> /\ tabs[t].localQueue = <<>> /\ ~tabs[t].timer
          /\ \E o \in Siblings(t) \cup {t} : Leads(o)
    /\ \A t, o \in Tab : Leads(t) /\ Leads(o) /\ storeOf[t] = storeOf[o] => t = o
    /\ \A k \in Socket : sockets[k].state \in {"open", "closed"} /\ sockets[k].up = <<>>

(* Whatever connections broke, leaders changed, and stores were shut down  *)
(* or reset: once all is quiet, every browser has what the server has, and *)
(* the other way round, and so has every tab, but for what it missed while *)
(* it loaded.  No commit is forgotten in a queue, a buffer, an upload or a *)
(* broadcast, unless a client threw or a tab died in a job.                *)
SyncedWhenIdle ==
    Idle /\ ~gap => \A t \in Tab : Live(t) =>
        /\ Stored(db[storeOf[t]]) = ServerRefs
        /\ tabs[t].known \subseteq ServerRefs
        /\ ServerRefs \subseteq tabs[t].known \cup tabs[t].missed

(* TrimergeClient.ts:394, "we need to be able to resolve the document":    *)
(* the repository, which a tab loads by syncId, holds parents before their *)
(* children.                                                               *)
RepoLoadable ==
    \A s \in Store : \A r \in Stored(db[s]) : \A p \in ParentsOf(r) \cap Stored(db[s]) :
        SurelyBefore(db[s], p, r)

(* A tab that was demoted is not connected (the test 'handles leader       *)
(* network split': isRemoteLeader is false).                               *)
FollowersOffline ==
    \A t \in Tab : Live(t) /\ ~tabs[t].leader /\ tabs[t].remoteQueue = <<>> =>
        tabs[t].remote = NoSocket
=============================================================================
