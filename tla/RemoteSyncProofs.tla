-------------------------- MODULE RemoteSyncProofs --------------------------
(***************************************************************************)
(* Theorems about RemoteSync, for any number of tabs, browsers and sockets *)
(* and any budget, and so for any number of commits.                       *)
(*                                                                         *)
(* A store that was shut down keeps no connection (ConnectionInv).         *)
(* Shutdown puts a last close job into remoteQueue, and that job must      *)
(* still be there, or have run, whatever happens to the queue; from then   *)
(* on nothing connects.  And a socket that is connecting or open is the    *)
(* remote of its tab.                                                      *)
(*                                                                         *)
(* The heads store of a database misses no branch: HeadsInv is inductive   *)
(* by itself.                                                              *)
(*                                                                         *)
(* The cursor is safe, what a database calls synced is on the server, and  *)
(* the state has its type.  CursorSafe is not inductive: the cursor of an  *)
(* event is written when its turn comes in the queue, so that what is in   *)
(* the queues, on the sockets and in the memory of the server matters.     *)
(* CursorStepInv adds, for each tab, that an event is safe for the         *)
(* database once the events before it are persisted (EventsSafe), and for  *)
(* each connection of the server, that what it will send next starts where *)
(* the events on their way end.  It holds unless a client threw or a tab   *)
(* died within a job (gap), or the server's store was replaced.            *)
(***************************************************************************)
EXTENDS RemoteSync, DocStoreProofs

-----------------------------------------------------------------------------
(* Stores that were shut down.                                             *)

(* The close job of shutdown is in the queue.                              *)
ClosePending(q) == \E n \in DOMAIN q : q[n] = Close(TRUE)

TabShape(tab) ==
    tab \in [open : BOOLEAN, closed : BOOLEAN, dbOpen : BOOLEAN, leader : {tab.leader},
             remote : Socket \cup {NoSocket}, timer : {tab.timer}, known : {tab.known},
             missed : {tab.missed}, remoteQueue : {tab.remoteQueue}, localQueue : {tab.localQueue}]

TabInv(tab) ==
    /\ TabShape(tab)
    /\ IsQueue(tab.remoteQueue)
    /\ ~tab.open \/ ~tab.dbOpen => tab.remote = NoSocket
    /\ tab.closed /\ ~ClosePending(tab.remoteQueue) => tab.remote = NoSocket

SocketShape(k) ==
    k \in [state : {"connecting", "open", "closing", "closed"}, tab : {k.tab},
           cursor : {k.cursor}, up : {k.up}]

IsActive(k) == k.state \in {"connecting", "open"}

ConnectionInv ==
    /\ tabs = [t \in Tab |-> tabs[t]]
    /\ \A t \in Tab : TabInv(tabs[t])
    /\ sockets = [k \in Socket |-> sockets[k]]
    /\ \A k \in Socket : SocketShape(sockets[k])
    /\ ~replaced => \A k \in Socket : IsActive(sockets[k]) =>
           sockets[k].tab \in Tab /\ tabs[sockets[k].tab].remote = k

(* What nearly every step leaves of a store and of a socket.               *)
SameTab(a, b) == TabInv(b) /\ b.remote = a.remote

SameSocket(a, b) ==
    /\ SocketShape(b)
    /\ IsActive(b) => IsActive(a) /\ b.tab = a.tab

-----------------------------------------------------------------------------
(* Queues: no operation but its own job takes the close job out.           *)

LEMMA AppendQueue ==
    ASSUME NEW q, IsQueue(q), NEW job
    PROVE  /\ IsQueue(Append(q, job))
           /\ ClosePending(q) => ClosePending(Append(q, job))
           /\ ClosePending(Append(q, Close(TRUE)))
<1>1. PICK S : q \in Seq(S)
      BY DEF IsQueue
<1> DEFINE last == Close(TRUE)
           T == S \cup {job, last}
<1> HIDE DEF last
<1>2. q \in Seq(T) /\ job \in T /\ last \in T
      BY <1>1
<1> HIDE DEF T
<1>3. ASSUME NEW x \in T
      PROVE  /\ Append(q, x) \in Seq(T)
             /\ DOMAIN Append(q, x) = 1 .. Len(q) + 1
             /\ \A n \in DOMAIN q : n \in 1 .. Len(q) + 1 /\ Append(q, x)[n] = q[n]
             /\ Append(q, x)[Len(q) + 1] = x
             /\ Len(q) + 1 \in 1 .. Len(q) + 1
      BY <1>2
<1> QED
    BY <1>2, <1>3 DEF IsQueue, ClosePending, last

LEMMA TailQueue ==
    ASSUME NEW q, IsQueue(q), q # <<>>
    PROVE  /\ IsQueue(Tail(q))
           /\ ClosePending(q) /\ Head(q).op # "close" => ClosePending(Tail(q))
           /\ ClosePending(q) /\ Head(q) # Close(TRUE) => ClosePending(Tail(q))
<1>1. PICK S : q \in Seq(S)
      BY DEF IsQueue
<1>2. /\ Tail(q) \in Seq(S)
      /\ DOMAIN Tail(q) = 1 .. Len(q) - 1
      /\ \A n \in DOMAIN q : n # 1 => n - 1 \in 1 .. Len(q) - 1 /\ Tail(q)[n - 1] = q[n]
      /\ Head(q) = q[1]
      BY <1>1
<1>3. Close(TRUE).op = "close"
      BY DEF Close
<1> QED
    BY <1>2, <1>3 DEF IsQueue, ClosePending

LEMMA ConcatQueue ==
    ASSUME NEW q, IsQueue(q), NEW r, IsQueue(r)
    PROVE  /\ IsQueue(q \o r)
           /\ ClosePending(q) => ClosePending(q \o r)
<1>1. PICK S : q \in Seq(S)
      BY DEF IsQueue
<1>2. PICK R : r \in Seq(R)
      BY DEF IsQueue
<1> DEFINE T == S \cup R
<1>3. q \in Seq(T) /\ r \in Seq(T)
      BY <1>1, <1>2
<1> HIDE DEF T
<1>4. /\ q \o r \in Seq(T)
      /\ DOMAIN (q \o r) = 1 .. Len(q) + Len(r)
      /\ \A n \in DOMAIN q : n \in 1 .. Len(q) + Len(r) /\ (q \o r)[n] = q[n]
      BY <1>3
<1> QED
    BY <1>4 DEF IsQueue, ClosePending

LEMMA HeadQueue ==
    ASSUME NEW q, IsQueue(q), q # <<>>, NEW job, Head(q).op # "close"
    PROVE  /\ IsQueue([q EXCEPT ![1] = job])
           /\ ClosePending(q) => ClosePending([q EXCEPT ![1] = job])
<1>1. PICK S : q \in Seq(S)
      BY DEF IsQueue
<1> DEFINE T == S \cup {job}
           new == [q EXCEPT ![1] = job]
<1>2. q \in Seq(T) /\ Head(q) = q[1]
      BY <1>1
<1>3. /\ new \in Seq(T)
      /\ DOMAIN new = DOMAIN q
      /\ \A n \in DOMAIN q : n # 1 => new[n] = q[n]
      BY <1>2
<1>4. Close(TRUE).op = "close"
      BY DEF Close
<1> HIDE DEF T, new
<1>5. IsQueue(new) /\ (ClosePending(q) => ClosePending(new))
      BY <1>2, <1>3, <1>4 DEF IsQueue, ClosePending
<1> QED
    BY <1>5 DEF new

(* Whatever events are lost with a connection, the close job is not.       *)
LEMMA ArrivedQueue ==
    ASSUME NEW q, IsQueue(q), NEW k, NEW n
    PROVE  /\ IsQueue(Arrived(q, k, n))
           /\ ClosePending(q) => ClosePending(Arrived(q, k, n))
<1> DEFINE From(m) == q[m].op \in {"commits", "ack"} /\ q[m].from = k
           kept == {m \in DOMAIN q : From(m) => Cardinality({x \in 1 .. m : From(x)}) <= n}
           new == Among(q, kept)
<1>1. Arrived(q, k, n) = new
      BY DEF Arrived
<1>2. \A m \in DOMAIN q : q[m] = Close(TRUE) => m \in kept
      BY DEF Close
<1>3. kept \subseteq DOMAIN q
      OBVIOUS
<1> HIDE DEF kept
<1>4. IsQueue(new) /\ Elements(new) = {q[m] : m \in kept}
      BY <1>3, AmongQueue
<1>5. ClosePending(q) => ClosePending(new)
      BY <1>2, <1>4 DEF ClosePending, Elements
<1> QED
    BY <1>1, <1>4, <1>5

-----------------------------------------------------------------------------
(* Stores: the code's methods.                                             *)

LEMMA TabFields ==
    ASSUME NEW tab, TabInv(tab), NEW v
    PROVE  /\ SameTab(tab, [tab EXCEPT !.leader = v])
           /\ [tab EXCEPT !.leader = v].remoteQueue = tab.remoteQueue
           /\ SameTab(tab, [tab EXCEPT !.timer = v])
           /\ [tab EXCEPT !.timer = v].remoteQueue = tab.remoteQueue
           /\ SameTab(tab, [tab EXCEPT !.known = v])
           /\ [tab EXCEPT !.known = v].remoteQueue = tab.remoteQueue
           /\ SameTab(tab, [tab EXCEPT !.missed = v])
           /\ [tab EXCEPT !.missed = v].remoteQueue = tab.remoteQueue
           /\ SameTab(tab, [tab EXCEPT !.localQueue = v])
           /\ [tab EXCEPT !.localQueue = v].remoteQueue = tab.remoteQueue
<1> DEFINE a == [tab EXCEPT !.leader = v]
           b == [tab EXCEPT !.timer = v]
           c == [tab EXCEPT !.known = v]
           d == [tab EXCEPT !.localQueue = v]
           e == [tab EXCEPT !.missed = v]
<1>1. SameTab(tab, a) /\ a.remoteQueue = tab.remoteQueue
      BY DEF SameTab, TabInv, TabShape
<1>2. SameTab(tab, b) /\ b.remoteQueue = tab.remoteQueue
      BY DEF SameTab, TabInv, TabShape
<1>3. SameTab(tab, c) /\ c.remoteQueue = tab.remoteQueue
      BY DEF SameTab, TabInv, TabShape
<1>4. SameTab(tab, d) /\ d.remoteQueue = tab.remoteQueue
      BY DEF SameTab, TabInv, TabShape
<1>5. SameTab(tab, e) /\ e.remoteQueue = tab.remoteQueue
      BY DEF SameTab, TabInv, TabShape
<1> QED
    BY <1>1, <1>2, <1>3, <1>4, <1>5

LEMMA TabQueue ==
    ASSUME NEW tab, TabInv(tab), NEW q, IsQueue(q),
           ClosePending(tab.remoteQueue) => ClosePending(q)
    PROVE  SameTab(tab, [tab EXCEPT !.remoteQueue = q])
BY DEF SameTab, TabInv, TabShape

LEMMA CloseRemoteTab ==
    ASSUME NEW tab, TabInv(tab), NEW reconnect
    PROVE  SameTab(tab, CloseRemote(tab, reconnect))
<1> DEFINE q == Append(tab.remoteQueue, Close(FALSE))
<1>1. IsQueue(q) /\ (ClosePending(tab.remoteQueue) => ClosePending(q))
      BY AppendQueue DEF TabInv
<1> DEFINE timed == [tab EXCEPT !.timer = reconnect]
<1>2. CloseRemote(tab, reconnect) = [timed EXCEPT !.remoteQueue = q]
      BY DEF CloseRemote, TabInv, TabShape
<1>3. SameTab(tab, timed) /\ timed.remoteQueue = tab.remoteQueue
      BY TabFields
<1> HIDE DEF q, timed
<1>4. SameTab(timed, [timed EXCEPT !.remoteQueue = q])
      BY <1>1, <1>3, TabQueue DEF SameTab
<1> QED
    BY <1>2, <1>3, <1>4 DEF SameTab

LEMMA ConnectRemoteTab ==
    ASSUME NEW tab, TabInv(tab)
    PROVE  SameTab(tab, ConnectRemote(tab))
BY AppendQueue, TabQueue DEF ConnectRemote, TabInv

LEMMA ShutDownTab ==
    ASSUME NEW tab, TabInv(tab)
    PROVE  SameTab(tab, ShutDown(tab))
<1> DEFINE q == Append(tab.remoteQueue, Close(TRUE))
<1>1. IsQueue(q) /\ ClosePending(q)
      BY AppendQueue DEF TabInv
<1>2. ShutDown(tab) = tab \/ ShutDown(tab) =
          [tab EXCEPT !.closed = TRUE, !.timer = FALSE, !.remoteQueue = q]
      BY DEF ShutDown
<1> HIDE DEF q
<1> QED
    BY <1>1, <1>2 DEF SameTab, TabInv, TabShape

LEMMA DoneRemoteTab ==
    ASSUME NEW tab, TabInv(tab), tab.remoteQueue # <<>>, Head(tab.remoteQueue).op # "close"
    PROVE  SameTab(tab, DoneRemote(tab))
BY TailQueue, TabQueue DEF DoneRemote, TabInv

LEMMA DoneLocalTab ==
    ASSUME NEW tab, TabInv(tab)
    PROVE  SameTab(tab, DoneLocal(tab))
BY TabFields DEF DoneLocal

LEMMA ThenRemoteTab ==
    ASSUME NEW tab, TabInv(tab), NEW job,
           tab.remoteQueue # <<>>, Head(tab.remoteQueue).op # "close"
    PROVE  SameTab(tab, ThenRemote(tab, job))
<1> DEFINE q == [tab.remoteQueue EXCEPT ![1] = job]
<1>1. IsQueue(q) /\ (ClosePending(tab.remoteQueue) => ClosePending(q))
      BY HeadQueue DEF TabInv
<1>2. ThenRemote(tab, job) = [tab EXCEPT !.remoteQueue = q]
      BY DEF ThenRemote, TabInv, TabShape
<1> HIDE DEF q
<1> QED
    BY <1>1, <1>2, TabQueue

-----------------------------------------------------------------------------
(* Steps that change no connection of any store.                           *)

LEMMA SendSocket ==
    ASSUME ConnectionInv, NEW x, NEW batch
    PROVE  /\ Send(sockets, x, batch) = [k \in Socket |-> Send(sockets, x, batch)[k]]
           /\ \A k \in Socket : SameSocket(sockets[k], Send(sockets, x, batch)[k])
BY DEF ConnectionInv, Send, SameSocket, SocketShape, IsActive

LEMMA Step ==
    ASSUME ConnectionInv,
           tabs' = [t \in Tab |-> tabs'[t]],
           \A t \in Tab : SameTab(tabs[t], tabs'[t]),
           sockets' = [k \in Socket |-> sockets'[k]],
           \A k \in Socket : SameSocket(sockets[k], sockets'[k]),
           replaced' = replaced
    PROVE  ConnectionInv'
BY DEF ConnectionInv, SameTab, SameSocket

LEMMA SocketsKept ==
    ASSUME ConnectionInv,
           \/ sockets' = sockets
           \/ \E x, batch : sockets' = Send(sockets, x, batch)
    PROVE  /\ sockets' = [k \in Socket |-> sockets'[k]]
           /\ \A k \in Socket : SameSocket(sockets[k], sockets'[k])
<1>1. CASE sockets' = sockets
      BY <1>1 DEF ConnectionInv, SameSocket
<1>2. ASSUME NEW x, NEW batch, sockets' = Send(sockets, x, batch)
      PROVE  /\ sockets' = [k \in Socket |-> sockets'[k]]
             /\ \A k \in Socket : SameSocket(sockets[k], sockets'[k])
      BY <1>2, SendSocket
<1> QED
    BY <1>1, <1>2

LEMMA OneTab ==
    ASSUME ConnectionInv, NEW t, NEW tab, t \in Tab => SameTab(tabs[t], tab)
    PROVE  \A x \in Tab : SameTab(tabs[x], [tabs EXCEPT ![t] = tab][x])
<1>1. \A x \in Tab : [tabs EXCEPT ![t] = tab][x] = IF x = t THEN tab ELSE tabs[x]
      BY DEF ConnectionInv
<1>2. \A x \in Tab : SameTab(tabs[x], tabs[x])
      BY DEF ConnectionInv, SameTab
<1> QED
    BY <1>1, <1>2

(* One store changes and the others, if at all, in their local queues.     *)
LEMMA TabStep ==
    ASSUME ConnectionInv, NEW t, NEW tab, t \in Tab => SameTab(tabs[t], tab),
           tabs' = [tabs EXCEPT ![t] = tab],
           \/ sockets' = sockets
           \/ \E x, batch : sockets' = Send(sockets, x, batch),
           replaced' = replaced
    PROVE  ConnectionInv'
<1>1. tabs' = [x \in Tab |-> tabs'[x]]
      BY DEF ConnectionInv
<1>a. \A x \in Tab : SameTab(tabs[x], tabs'[x])
      BY OneTab
<1>2. sockets' = [k \in Socket |-> sockets'[k]]
          /\ \A k \in Socket : SameSocket(sockets[k], sockets'[k])
      BY SocketsKept
<1> QED
    BY <1>1, <1>a, <1>2, Step

LEMMA AnnounceStep ==
    ASSUME ConnectionInv, NEW t, NEW tab, t \in Tab => SameTab(tabs[t], tab),
           NEW batch, NEW origin,
           tabs' = Announce([tabs EXCEPT ![t] = tab], t, batch, origin),
           \/ sockets' = sockets
           \/ \E x, b : sockets' = Send(sockets, x, b),
           replaced' = replaced
    PROVE  ConnectionInv'
<1> DEFINE ts == [tabs EXCEPT ![t] = tab]
           told(o) == Append(ts[o].localQueue,
                          [op |-> "event", commits |-> batch, remoteOrigin |-> origin])
<1>1. \A o \in Tab : SameTab(tabs[o], ts[o])
      BY OneTab
<1>a. tabs' = Announce(ts, t, batch, origin)
      OBVIOUS
<1> HIDE DEF ts
<1>2. \A o \in Tab : tabs'[o] = ts[o] \/ tabs'[o] = [ts[o] EXCEPT !.localQueue = told(o)]
      BY <1>a DEF Announce
<1>3. tabs' = [o \in Tab |-> tabs'[o]]
      BY <1>a DEF Announce
<1> HIDE DEF told
<1>4. ASSUME NEW o \in Tab
      PROVE  SameTab(tabs[o], tabs'[o])
  <2>1. SameTab(tabs[o], ts[o])
        BY <1>1
  <2>2. SameTab(ts[o], [ts[o] EXCEPT !.localQueue = told(o)])
        BY <2>1, TabFields DEF SameTab
  <2> QED
      BY <1>2, <2>1, <2>2 DEF SameTab
<1>5. sockets' = [k \in Socket |-> sockets'[k]]
          /\ \A k \in Socket : SameSocket(sockets[k], sockets'[k])
      BY SocketsKept
<1> QED
    BY <1>3, <1>4, <1>5, Step

-----------------------------------------------------------------------------
(* Users, tabs, and the LeaderManager's callback.                          *)

LEMMA TabFact ==
    ASSUME ConnectionInv, NEW t \in Tab
    PROVE  TabInv(tabs[t])
BY DEF ConnectionInv

LEMMA EditStep ==
    ASSUME ConnectionInv, NEW t \in Tab, Edit(t)
    PROVE  ConnectionInv'
<1> DEFINE r == EditRef(Childless(tabs[t].known), t)
           known == tabs[t].known \cup {r}
           queue == Append(tabs[t].localQueue, [op |-> "update", commits |-> <<Fresh(r)>>])
           knows == [tabs[t] EXCEPT !.known = known]
           tab == [knows EXCEPT !.localQueue = queue]
<1>1. SameTab(tabs[t], knows)
      BY TabFact, TabFields
<1>2. SameTab(knows, tab)
      BY <1>1, TabFields DEF SameTab
<1>3. tabs' = [tabs EXCEPT ![t].known = known, ![t].localQueue = queue]
      BY DEF Edit
<1>4. tabs' = [tabs EXCEPT ![t] = tab]
      BY <1>3, TabFact DEF ConnectionInv, TabInv, TabShape
<1> HIDE DEF tab, knows
<1>5. SameTab(tabs[t], tab)
      BY <1>1, <1>2 DEF SameTab
<1>6. sockets' = sockets /\ replaced' = replaced
      BY DEF Edit
<1> QED
    BY <1>4, <1>5, <1>6, TabStep

LEMMA PromoteStep ==
    ASSUME ConnectionInv, NEW t \in Tab, Promote(t)
    PROVE  ConnectionInv'
<1> DEFINE led == [tabs[t] EXCEPT !.leader = TRUE]
<1>1. SameTab(tabs[t], led)
      BY TabFact, TabFields
<1>2. tabs' = [tabs EXCEPT ![t] = ConnectRemote(led)] /\ sockets' = sockets
          /\ replaced' = replaced
      BY DEF Promote
<1> HIDE DEF led
<1>3. SameTab(tabs[t], ConnectRemote(led))
      BY <1>1, ConnectRemoteTab DEF SameTab
<1> QED
    BY <1>2, <1>3, TabStep

LEMMA DemoteStep ==
    ASSUME ConnectionInv, NEW t \in Tab, Demote(t)
    PROVE  ConnectionInv'
<1> DEFINE follower == [tabs[t] EXCEPT !.leader = FALSE]
<1>1. SameTab(tabs[t], follower)
      BY TabFact, TabFields
<1>2. tabs' = [tabs EXCEPT ![t] = CloseRemote(follower, FALSE)] /\ sockets' = sockets
          /\ replaced' = replaced
      BY DEF Demote, counters
<1> HIDE DEF follower
<1>3. SameTab(tabs[t], CloseRemote(follower, FALSE))
      BY <1>1, CloseRemoteTab DEF SameTab
<1> QED
    BY <1>2, <1>3, TabStep

LEMMA ReconnectStep ==
    ASSUME ConnectionInv, NEW t \in Tab, Reconnect(t)
    PROVE  ConnectionInv'
<1> DEFINE fired == [tabs[t] EXCEPT !.timer = FALSE]
<1>1. SameTab(tabs[t], fired)
      BY TabFact, TabFields
<1>2. tabs' = [tabs EXCEPT ![t] = ConnectRemote(fired)] /\ sockets' = sockets
          /\ replaced' = replaced
      BY DEF Reconnect, counters
<1> HIDE DEF fired
<1>3. SameTab(tabs[t], ConnectRemote(fired))
      BY <1>1, ConnectRemoteTab DEF SameTab
<1> QED
    BY <1>2, <1>3, TabStep

LEMMA ShutdownStep ==
    ASSUME ConnectionInv, NEW t \in Tab, Shutdown(t)
    PROVE  ConnectionInv'
<1>1. tabs' = [tabs EXCEPT ![t] = ShutDown(tabs[t])] /\ sockets' = sockets
          /\ replaced' = replaced
      BY DEF Shutdown
<1> QED
    BY <1>1, TabFact, ShutDownTab, TabStep

LEMMA NewTabInv == TabInv(NewTab) /\ TabInv(NoTab) /\ NewTab.remote = NoSocket
                       /\ NoTab.remote = NoSocket
<1>1. IsQueue(<<>>)
      BY DEF IsQueue
<1> QED
    BY <1>1 DEF NewTab, NoTab, TabInv, TabShape

LEMMA OpenStep ==
    ASSUME ConnectionInv, NEW t \in Tab, Open(t)
    PROVE  ConnectionInv'
<1>1. tabs' = [tabs EXCEPT ![t] = NewTab] /\ sockets' = sockets /\ replaced' = replaced
      BY DEF Open, counters
<1>2. tabs[t].remote = NoSocket
      BY TabFact DEF Open, TabInv
<1>3. SameTab(tabs[t], NewTab)
      BY <1>2, NewTabInv DEF SameTab
<1> QED
    BY <1>1, <1>3, TabStep

(* The sockets of a tab that dies are closed with it.                      *)
LEMMA CrashStep ==
    ASSUME ConnectionInv, NEW t \in Tab, Crash(t)
    PROVE  ConnectionInv'
<1>1. /\ tabs' = [tabs EXCEPT ![t] = NoTab]
      /\ sockets' = [k \in Socket |-> IF sockets[k].tab = t THEN ClosedSocket ELSE sockets[k]]
      /\ replaced' = replaced
      BY DEF Crash
<1>2. SocketShape(ClosedSocket) /\ ~IsActive(ClosedSocket)
      BY DEF ClosedSocket, NewSocket, SocketShape, IsActive
<1>3. tabs' = [x \in Tab |-> tabs'[x]] /\ \A x \in Tab : TabInv(tabs'[x])
      BY <1>1, NewTabInv DEF ConnectionInv
<1>4. sockets' = [k \in Socket |-> sockets'[k]] /\ \A k \in Socket : SocketShape(sockets'[k])
      BY <1>1, <1>2 DEF ConnectionInv
<1>5. ASSUME ~replaced', NEW k \in Socket, IsActive(sockets'[k])
      PROVE  sockets'[k].tab \in Tab /\ tabs'[sockets'[k].tab].remote = k
  <2>1. sockets[k].tab # t /\ sockets'[k] = sockets[k]
        BY <1>1, <1>2, <1>5
  <2>2. sockets[k].tab \in Tab /\ tabs[sockets[k].tab].remote = k
        BY <1>1, <1>5, <2>1 DEF ConnectionInv
  <2> QED
      BY <1>1, <2>1, <2>2 DEF ConnectionInv
<1> QED
    BY <1>3, <1>4, <1>5 DEF ConnectionInv

-----------------------------------------------------------------------------
(* The jobs of remoteQueue.                                                *)

(* A store connects while it is not shut down; the other sockets that are  *)
(* in use are not its own, or it had a remote already.                     *)
LEMMA ConnectStep ==
    ASSUME ConnectionInv, NEW t \in Tab, Connect(t)
    PROVE  ConnectionInv'
<1> DEFINE k == CHOOSE x \in Socket : Unused(x)
           socket == NewSocket(t, db[storeOf[t]].lastSyncCursor)
           base == [tabs[t] EXCEPT !.timer = FALSE, !.remote = k]
           tab == ThenRemote(base, Job("upload"))
<1>1. k \in Socket
      BY DEF Connect, Opens
<1>2. /\ tabs[t].open /\ tabs[t].dbOpen /\ ~tabs[t].closed
      /\ tabs[t].remoteQueue # <<>> /\ Head(tabs[t].remoteQueue).op = "connect"
      /\ sockets' = [sockets EXCEPT ![k] = socket]
      /\ tabs' = [tabs EXCEPT ![t] = tab]
      /\ replaced' = (replaced \/ tabs[t].remote # NoSocket)
      BY DEF Connect, Opens, NextRemote
<1>3. SocketShape(socket) /\ socket.tab = t
      BY DEF NewSocket, SocketShape
<1> HIDE DEF k, socket
<1>4. TabInv(base) /\ base.remote = k /\ base.remoteQueue = tabs[t].remoteQueue
  <2>1. TabInv(tabs[t])
        BY TabFact
  <2> QED
      BY <1>1, <1>2, <2>1 DEF TabInv, TabShape
<1> HIDE DEF base
<1>5. TabInv(tab) /\ tab.remote = k
      BY <1>2, <1>4, ThenRemoteTab DEF SameTab
<1> HIDE DEF tab
<1>6. tabs' = [x \in Tab |-> tabs'[x]] /\ \A x \in Tab : TabInv(tabs'[x])
      BY <1>2, <1>5 DEF ConnectionInv
<1>7. sockets' = [x \in Socket |-> sockets'[x]] /\ \A x \in Socket : SocketShape(sockets'[x])
      BY <1>2, <1>3 DEF ConnectionInv
<1>8. ASSUME ~replaced', NEW x \in Socket, IsActive(sockets'[x])
      PROVE  sockets'[x].tab \in Tab /\ tabs'[sockets'[x].tab].remote = x
  <2>1. tabs'[t] = tab
        BY <1>2 DEF ConnectionInv
  <2>2. CASE x = k
    <3>1. sockets'[x] = socket
          BY <1>1, <1>2, <2>2 DEF ConnectionInv
    <3> QED
        BY <3>1, <2>1, <2>2, <1>3, <1>5
  <2>3. CASE x # k
    <3>1. sockets'[x] = sockets[x]
          BY <1>2, <2>3 DEF ConnectionInv
    <3>2. sockets[x].tab \in Tab /\ tabs[sockets[x].tab].remote = x
          BY <1>2, <1>8, <3>1 DEF ConnectionInv
    <3>3. sockets[x].tab # t
          BY <1>2, <1>8, <3>2, SocketAssumption
    <3> QED
        BY <1>2, <3>1, <3>2, <3>3 DEF ConnectionInv
  <2> QED
      BY <2>2, <2>3
<1> QED
    BY <1>6, <1>7, <1>8 DEF ConnectionInv

LEMMA ConnectClosedStep ==
    ASSUME ConnectionInv, NEW t \in Tab, ConnectClosed(t)
    PROVE  ConnectionInv'
<1> DEFINE fired == [tabs[t] EXCEPT !.timer = FALSE]
<1>1. /\ tabs[t].remoteQueue # <<>> /\ Head(tabs[t].remoteQueue).op = "connect"
      /\ \/ tabs' = [tabs EXCEPT ![t] = DoneRemote(fired)]
         \/ tabs' = [tabs EXCEPT ![t] = CloseRemote(DoneRemote(tabs[t]), TRUE)]
      /\ sockets' = sockets /\ replaced' = replaced
      BY DEF ConnectClosed, NextRemote, counters
<1>2. SameTab(tabs[t], fired) /\ fired.remoteQueue = tabs[t].remoteQueue
      BY TabFact, TabFields
<1> HIDE DEF fired
<1>3. SameTab(tabs[t], DoneRemote(fired))
      BY <1>1, <1>2, DoneRemoteTab DEF SameTab
<1>4. SameTab(tabs[t], DoneRemote(tabs[t]))
      BY <1>1, TabFact, DoneRemoteTab
<1>5. SameTab(tabs[t], CloseRemote(DoneRemote(tabs[t]), TRUE))
      BY <1>4, CloseRemoteTab DEF SameTab
<1> QED
    BY <1>1, <1>3, <1>5, TabStep

LEMMA UploadStep ==
    ASSUME ConnectionInv, NEW t \in Tab, Upload(t)
    PROVE  ConnectionInv'
<1>1. /\ tabs[t].remoteQueue # <<>> /\ Head(tabs[t].remoteQueue).op = "upload"
      /\ tabs' = [tabs EXCEPT ![t] = DoneRemote(tabs[t])]
      /\ \E x, batch : sockets' = Send(sockets, x, batch)
      /\ replaced' = replaced
      BY DEF Upload, NextRemote, counters
<1>2. SameTab(tabs[t], DoneRemote(tabs[t]))
      BY <1>1, TabFact, DoneRemoteTab
<1> QED
    BY <1>1, <1>2, TabStep

(* The remote's socket is closed with the remote.                          *)
LEMMA CloseJobStep ==
    ASSUME ConnectionInv, NEW t \in Tab, CloseJob(t)
    PROVE  ConnectionInv'
<1> DEFINE k == tabs[t].remote
           done == [DoneRemote(tabs[t]) EXCEPT !.remote = NoSocket]
<1>1. /\ tabs[t].remoteQueue # <<>>
      /\ \E n \in 0 .. Len(done.remoteQueue) :
            tabs' = [tabs EXCEPT ![t] =
                [done EXCEPT !.remoteQueue = Arrived(done.remoteQueue, k, n)]]
      /\ sockets' = [x \in Socket |-> IF x = k /\ sockets[x].state # "closed"
                        THEN [sockets[x] EXCEPT !.state = "closing"] ELSE sockets[x]]
      /\ replaced' = replaced
      BY DEF CloseJob, NextRemote, counters
<1>2. TabInv(done) /\ done.remote = NoSocket
  <2>1. TabInv(tabs[t]) /\ IsQueue(Tail(tabs[t].remoteQueue))
        BY <1>1, TabFact, TailQueue DEF TabInv
  <2> DEFINE q == Tail(tabs[t].remoteQueue)
  <2>2. done = [[tabs[t] EXCEPT !.remoteQueue = q] EXCEPT !.remote = NoSocket]
        BY DEF DoneRemote
  <2> HIDE DEF done, q
  <2>3. IsQueue(q)
        BY <2>1 DEF q
  <2> QED
      BY <2>1, <2>2, <2>3 DEF TabInv, TabShape
<1> HIDE DEF done
<1>3. PICK n : tabs' = [tabs EXCEPT ![t] =
          [done EXCEPT !.remoteQueue = Arrived(done.remoteQueue, k, n)]]
      BY <1>1
<1> DEFINE tab == [done EXCEPT !.remoteQueue = Arrived(done.remoteQueue, k, n)]
<1>4. TabInv(tab)
  <2>1. /\ IsQueue(Arrived(done.remoteQueue, k, n))
        /\ ClosePending(done.remoteQueue) =>
               ClosePending(Arrived(done.remoteQueue, k, n))
        BY <1>2, ArrivedQueue DEF TabInv
  <2> QED
      BY <1>2, <2>1, TabQueue DEF SameTab
<1>5. tabs' = [tabs EXCEPT ![t] = tab]
      BY <1>3
<1> HIDE DEF tab
<1>6. tabs' = [x \in Tab |-> tabs'[x]] /\ \A x \in Tab : TabInv(tabs'[x])
      BY <1>4, <1>5 DEF ConnectionInv
<1>7. /\ sockets' = [x \in Socket |-> sockets'[x]]
      /\ \A x \in Socket : SocketShape(sockets'[x])
      /\ \A x \in Socket : IsActive(sockets'[x]) => x # k /\ sockets'[x] = sockets[x]
      BY <1>1 DEF ConnectionInv, SocketShape, IsActive
<1>8. ASSUME ~replaced', NEW x \in Socket, IsActive(sockets'[x])
      PROVE  sockets'[x].tab \in Tab /\ tabs'[sockets'[x].tab].remote = x
  <2>1. sockets[x].tab \in Tab /\ tabs[sockets[x].tab].remote = x
        BY <1>1, <1>7, <1>8 DEF ConnectionInv
  <2>2. sockets[x].tab # t
        BY <1>7, <1>8, <2>1
  <2> QED
      BY <1>5, <1>7, <1>8, <2>1, <2>2 DEF ConnectionInv
<1> QED
    BY <1>6, <1>7, <1>8 DEF ConnectionInv

(* The close job of shutdown has run when the database is closed.          *)
LEMMA CloseDatabaseStep ==
    ASSUME ConnectionInv, NEW t \in Tab, CloseDatabase(t)
    PROVE  ConnectionInv'
<1> DEFINE tab == [tabs[t] EXCEPT !.dbOpen = FALSE, !.leader = FALSE]
<1>1. TabInv(tabs[t]) /\ tabs[t].closed /\ ~ClosePending(tabs[t].remoteQueue)
      BY TabFact DEF CloseDatabase, ClosePending, ToSet
<1>2. tabs[t].remote = NoSocket
      BY <1>1 DEF TabInv
<1>3. SameTab(tabs[t], tab)
      BY <1>1, <1>2 DEF SameTab, TabInv, TabShape
<1>4. tabs' = [tabs EXCEPT ![t] = tab] /\ sockets' = sockets /\ replaced' = replaced
      BY DEF CloseDatabase, counters
<1> QED
    BY <1>3, <1>4, TabStep

LEMMA RemoteCommitsStep ==
    ASSUME ConnectionInv, NEW t \in Tab, RemoteCommits(t)
    PROVE  ConnectionInv'
<1> DEFINE event == Head(tabs[t].remoteQueue)
           known == tabs[t].known \cup Refs(event.commits)
           rest == [op |-> "persist", commits |-> event.commits, cursor |-> event.cursor]
           knows == [tabs[t] EXCEPT !.known = known]
<1>1. tabs[t].remoteQueue # <<>> /\ event.op = "commits"
      BY DEF RemoteCommits, NextRemote
<1>2. SameTab(tabs[t], knows) /\ knows.remoteQueue = tabs[t].remoteQueue
      BY TabFact, TabFields
<1>3. tabs' = Announce([tabs EXCEPT ![t] = ThenRemote(knows, rest)], t, event.commits, TRUE)
          /\ sockets' = sockets /\ replaced' = replaced
      BY DEF RemoteCommits, counters
<1> HIDE DEF knows, rest
<1>4. SameTab(tabs[t], ThenRemote(knows, rest))
      BY <1>1, <1>2, ThenRemoteTab DEF SameTab
<1> QED
    BY <1>3, <1>4, AnnounceStep

LEMMA RemoteCommitsThrowStep ==
    ASSUME ConnectionInv, NEW t \in Tab, RemoteCommitsThrow(t)
    PROVE  ConnectionInv'
<1>1. /\ tabs[t].remoteQueue # <<>> /\ Head(tabs[t].remoteQueue).op = "commits"
      /\ tabs' = [tabs EXCEPT ![t] = ShutDown(DoneRemote(tabs[t]))]
      /\ sockets' = sockets /\ replaced' = replaced
      BY DEF RemoteCommitsThrow, NextRemote
<1>2. SameTab(tabs[t], DoneRemote(tabs[t]))
      BY <1>1, TabFact, DoneRemoteTab
<1>3. SameTab(tabs[t], ShutDown(DoneRemote(tabs[t])))
      BY <1>2, ShutDownTab DEF SameTab
<1> QED
    BY <1>1, <1>3, TabStep

LEMMA SavedStep ==
    ASSUME ConnectionInv, NEW t \in Tab, Persist(t) \/ Ack(t)
    PROVE  ConnectionInv'
<1>1. /\ tabs[t].remoteQueue # <<>> /\ Head(tabs[t].remoteQueue).op \in {"persist", "ack"}
      /\ tabs' = [tabs EXCEPT ![t] = DoneRemote(tabs[t])]
      /\ sockets' = sockets /\ replaced' = replaced
      BY DEF Persist, Ack, NextRemote, counters
<1>2. SameTab(tabs[t], DoneRemote(tabs[t]))
      BY <1>1, TabFact, DoneRemoteTab
<1> QED
    BY <1>1, <1>2, TabStep

LEMMA OnErrorStep ==
    ASSUME ConnectionInv, NEW t \in Tab, OnError(t)
    PROVE  ConnectionInv'
<1> DEFINE reconnect == Head(tabs[t].remoteQueue).reconnect
<1>1. /\ tabs[t].remoteQueue # <<>> /\ Head(tabs[t].remoteQueue).op = "error"
      /\ tabs' = [tabs EXCEPT ![t] = CloseRemote(DoneRemote(tabs[t]), reconnect)]
      /\ sockets' = sockets /\ replaced' = replaced
      BY DEF OnError, NextRemote, counters
<1>2. SameTab(tabs[t], DoneRemote(tabs[t]))
      BY <1>1, TabFact, DoneRemoteTab
<1>3. SameTab(tabs[t], CloseRemote(DoneRemote(tabs[t]), reconnect))
      BY <1>2, CloseRemoteTab DEF SameTab
<1> QED
    BY <1>1, <1>3, TabStep

-----------------------------------------------------------------------------
(* The jobs of localQueue.                                                 *)

LEMMA LearnedTab ==
    ASSUME NEW tab, TabInv(tab), NEW known
    PROVE  SameTab(tab, DoneLocal([tab EXCEPT !.known = known]))
<1> DEFINE knows == [tab EXCEPT !.known = known]
<1>1. SameTab(tab, knows)
      BY TabFields
<1> HIDE DEF knows
<1>2. SameTab(knows, DoneLocal(knows))
      BY <1>1, DoneLocalTab DEF SameTab
<1>3. SameTab(tab, DoneLocal(knows))
      BY <1>1, <1>2 DEF SameTab
<1> QED
    BY <1>3 DEF knows

LEMMA LocalThrowStep ==
    ASSUME ConnectionInv, NEW t \in Tab, LoadThrows(t) \/ LocalEventThrows(t)
    PROVE  ConnectionInv'
<1>1. /\ tabs' = [tabs EXCEPT ![t] = ShutDown(DoneLocal(tabs[t]))]
      /\ sockets' = sockets /\ replaced' = replaced
      BY DEF LoadThrows, LocalEventThrows
<1>2. SameTab(tabs[t], DoneLocal(tabs[t]))
      BY TabFact, DoneLocalTab
<1>3. SameTab(tabs[t], ShutDown(DoneLocal(tabs[t])))
      BY <1>2, ShutDownTab DEF SameTab
<1> QED
    BY <1>1, <1>3, TabStep

(* What a tab is when it has loaded the repository.                        *)
Loaded(tab, known, missed) == DoneLocal([[tab EXCEPT !.known = known] EXCEPT !.missed = missed])

LEMMA LoadedIs ==
    ASSUME NEW t \in Tab, Load(t)
    PROVE  tabs' = [tabs EXCEPT ![t] = Loaded(tabs[t], tabs[t].known \cup Stored(db[storeOf[t]]),
                                              tabs[t].missed \cup Unheard(t))]
<1> DEFINE known == tabs[t].known \cup Stored(db[storeOf[t]])
           missed == tabs[t].missed \cup Unheard(t)
<1>1. tabs' = [tabs EXCEPT ![t] = DoneLocal([tabs[t] EXCEPT !.known = @ \cup Stored(db[storeOf[t]]),
                                                            !.missed = @ \cup Unheard(t)])]
      BY DEF Load
<1>2. [tabs[t] EXCEPT !.known = @ \cup Stored(db[storeOf[t]]), !.missed = @ \cup Unheard(t)]
         = [[tabs[t] EXCEPT !.known = known] EXCEPT !.missed = missed]
      OBVIOUS
<1> QED
    BY <1>1, <1>2 DEF Loaded

LEMMA LoadStep ==
    ASSUME ConnectionInv, NEW t \in Tab, Load(t)
    PROVE  ConnectionInv'
<1> DEFINE known == tabs[t].known \cup Stored(db[storeOf[t]])
           missed == tabs[t].missed \cup Unheard(t)
           knows == [tabs[t] EXCEPT !.known = known]
           misses == [knows EXCEPT !.missed = missed]
           tab == DoneLocal(misses)
<1>1. tabs' = [tabs EXCEPT ![t] = tab] /\ sockets' = sockets /\ replaced' = replaced
      BY LoadedIs DEF Load, counters, Loaded
<1>2. SameTab(tabs[t], knows)
      BY TabFact, TabFields
<1> HIDE DEF knows
<1>3. SameTab(knows, misses)
      BY <1>2, TabFields DEF SameTab
<1> HIDE DEF misses
<1>4. SameTab(misses, tab)
      BY <1>3, DoneLocalTab DEF SameTab
<1>5. SameTab(tabs[t], tab)
      BY <1>2, <1>3, <1>4 DEF SameTab
<1> HIDE DEF tab
<1> QED
    BY <1>1, <1>5, TabStep

LEMMA LocalEventStep ==
    ASSUME ConnectionInv, NEW t \in Tab, LocalEvent(t)
    PROVE  ConnectionInv'
<1> DEFINE event == Head(tabs[t].localQueue)
           known == tabs[t].known \cup Refs(event.commits)
           tab == DoneLocal([tabs[t] EXCEPT !.known = known])
<1>1. /\ tabs' = [tabs EXCEPT ![t] = tab]
      /\ \/ sockets' = sockets
         \/ \E x, batch : sockets' = Send(sockets, x, batch)
      /\ replaced' = replaced
      BY DEF LocalEvent, counters
<1>2. SameTab(tabs[t], tab)
      BY TabFact, LearnedTab
<1> HIDE DEF tab
<1> QED
    BY <1>1, <1>2, TabStep

LEMMA UpdateStep ==
    ASSUME ConnectionInv, NEW t \in Tab, Update(t)
    PROVE  ConnectionInv'
<1> DEFINE batch == Head(tabs[t].localQueue).commits
           tab == DoneLocal(tabs[t])
<1>1. SameTab(tabs[t], tab)
      BY TabFact, DoneLocalTab
<1>2. replaced' = replaced
      BY DEF Update, counters
<1>3. CASE tabs[t].dbOpen
  <2>1. /\ tabs' = Announce([tabs EXCEPT ![t] = tab], t, batch, FALSE)
        /\ \E x, b : sockets' = Send(sockets, x, b)
        BY <1>3 DEF Update
  <2> HIDE DEF tab, batch
  <2> QED
      BY <1>1, <1>2, <2>1, AnnounceStep
<1>4. CASE ~tabs[t].dbOpen
  <2>1. tabs' = [tabs EXCEPT ![t] = tab] /\ sockets' = sockets
        BY <1>4 DEF Update
  <2> HIDE DEF tab
  <2> QED
      BY <1>1, <1>2, <2>1, TabStep
<1> QED
    BY <1>3, <1>4

-----------------------------------------------------------------------------
(* Sockets and the server: events come into the queues of stores.          *)

(* A socket changes, and events are put into the queue of a store.         *)
LEMMA EventStep ==
    ASSUME ConnectionInv, NEW k \in Socket, NEW socket, SameSocket(sockets[k], socket),
           sockets' = [sockets EXCEPT ![k] = socket],
           tabs' = [t \in Tab |-> tabs'[t]],
           \A t \in Tab : SameTab(tabs[t], tabs'[t]),
           replaced' = replaced
    PROVE  ConnectionInv'
<1>1. sockets' = [x \in Socket |-> sockets'[x]]
      BY DEF ConnectionInv
<1>2. \A x \in Socket : SameSocket(sockets[x], sockets[x])
      BY DEF ConnectionInv, SameSocket
<1>3. \A x \in Socket : sockets'[x] = IF x = k THEN socket ELSE sockets[x]
      BY DEF ConnectionInv
<1>4. \A x \in Socket : SameSocket(sockets[x], sockets'[x])
      BY <1>2, <1>3
<1> QED
    BY <1>1, <1>4, Step

LEMMA QueuedTabs ==
    ASSUME ConnectionInv, NEW t, NEW q, t \in Tab => IsQueue(q),
           t \in Tab => (ClosePending(tabs[t].remoteQueue) => ClosePending(q)),
           NEW ts, ts = [tabs EXCEPT ![t].remoteQueue = q]
    PROVE  /\ ts = [x \in Tab |-> ts[x]]
           /\ \A x \in Tab : SameTab(tabs[x], ts[x])
<1> DEFINE tab == [tabs[t] EXCEPT !.remoteQueue = q]
<1>1. t \in Tab => SameTab(tabs[t], tab)
      BY TabFact, TabQueue
<1>2. ts = [tabs EXCEPT ![t] = tab]
      OBVIOUS
<1> HIDE DEF tab
<1>3. \A x \in Tab : SameTab(tabs[x], ts[x])
      BY <1>1, <1>2, OneTab
<1>4. ts = [x \in Tab |-> ts[x]]
      BY <1>2 DEF ConnectionInv
<1> QED
    BY <1>3, <1>4

LEMMA ClosedSocketSame ==
    ASSUME NEW k
    PROVE  SameSocket(k, ClosedSocket)
BY DEF SameSocket, ClosedSocket, NewSocket, SocketShape, IsActive

LEMMA QueuedStep ==
    ASSUME ConnectionInv, NEW t, NEW q,
           t \in Tab => IsQueue(q) /\ (ClosePending(tabs[t].remoteQueue) => ClosePending(q)),
           tabs' = [tabs EXCEPT ![t].remoteQueue = q]
    PROVE  tabs' = [x \in Tab |-> tabs'[x]] /\ \A x \in Tab : SameTab(tabs[x], tabs'[x])
<1>1. t \in Tab => IsQueue(q)
      OBVIOUS
<1>2. t \in Tab => (ClosePending(tabs[t].remoteQueue) => ClosePending(q))
      OBVIOUS
<1>3. tabs' = [tabs EXCEPT ![t].remoteQueue = q]
      OBVIOUS
<1> QED
    BY <1>1, <1>2, <1>3, QueuedTabs

LEMMA BreakStep ==
    ASSUME ConnectionInv, NEW k \in Socket, Break(k)
    PROVE  ConnectionInv'
<1> DEFINE t == sockets[k].tab
           queue == tabs[t].remoteQueue
<1>1. PICK events \in EndEvents(k), n \in 0 .. Len(queue) :
          tabs' = [tabs EXCEPT ![t].remoteQueue = Arrived(queue, k, n) \o events]
      BY DEF Break
<1>2. sockets' = [sockets EXCEPT ![k] = ClosedSocket] /\ replaced' = replaced
      BY DEF Break
<1>3. IsQueue(events)
  <2> DEFINE a == ErrorEvent(k, TRUE)
             b == ErrorEvent(k, FALSE)
  <2>1. events = <<a>> \/ events = <<b, a>>
        BY <1>1 DEF EndEvents
  <2> HIDE DEF a, b
  <2>2. <<a>> \in Seq({a}) /\ <<b, a>> \in Seq({a, b})
        OBVIOUS
  <2> QED
      BY <2>1, <2>2 DEF IsQueue
<1> DEFINE q == Arrived(queue, k, n) \o events
<1>4. ASSUME t \in Tab
      PROVE  IsQueue(q) /\ (ClosePending(queue) => ClosePending(q))
  <2>1. IsQueue(queue)
        BY <1>4, TabFact DEF TabInv
  <2>2. /\ IsQueue(Arrived(queue, k, n))
        /\ ClosePending(queue) => ClosePending(Arrived(queue, k, n))
        BY <2>1, ArrivedQueue
  <2> QED
      BY <1>3, <2>2, ConcatQueue
<1>5. tabs' = [tabs EXCEPT ![t].remoteQueue = q]
      BY <1>1
<1>6. t \in Tab => IsQueue(q) /\ (ClosePending(tabs[t].remoteQueue) => ClosePending(q))
      BY <1>4
<1> HIDE DEF q
<1>7. tabs' = [x \in Tab |-> tabs'[x]] /\ \A x \in Tab : SameTab(tabs[x], tabs'[x])
      BY <1>5, <1>6, QueuedStep
<1> QED
    BY <1>2, <1>7, ClosedSocketSame, EventStep

LEMMA AppendedTabs ==
    ASSUME ConnectionInv, NEW t, NEW job,
           tabs' = [tabs EXCEPT ![t].remoteQueue = Append(tabs[t].remoteQueue, job)]
    PROVE  tabs' = [x \in Tab |-> tabs'[x]] /\ \A x \in Tab : SameTab(tabs[x], tabs'[x])
<1> DEFINE q == Append(tabs[t].remoteQueue, job)
<1>1. t \in Tab => IsQueue(q) /\ (ClosePending(tabs[t].remoteQueue) => ClosePending(q))
      BY TabFact, AppendQueue DEF TabInv
<1>2. tabs' = [tabs EXCEPT ![t].remoteQueue = q]
      OBVIOUS
<1> HIDE DEF q
<1> QED
    BY <1>1, <1>2, QueuedStep

LEMMA SocketClosesStep ==
    ASSUME ConnectionInv, NEW k \in Socket, SocketCloses(k)
    PROVE  ConnectionInv'
<1> DEFINE t == sockets[k].tab
           job == ErrorEvent(k, TRUE)
<1>1. /\ sockets' = [sockets EXCEPT ![k] = ClosedSocket]
      /\ tabs' = [tabs EXCEPT ![t].remoteQueue = Append(tabs[t].remoteQueue, job)]
      /\ replaced' = replaced
      BY DEF SocketCloses, counters
<1> HIDE DEF job
<1>2. tabs' = [x \in Tab |-> tabs'[x]] /\ \A x \in Tab : SameTab(tabs[x], tabs'[x])
      BY <1>1, AppendedTabs
<1> QED
    BY <1>1, <1>2, ClosedSocketSame, EventStep

LEMMA ServerInitStep ==
    ASSUME ConnectionInv, NEW k \in Socket, ServerInit(k)
    PROVE  ConnectionInv'
<1> DEFINE t == sockets[k].tab
           opened == [sockets[k] EXCEPT !.state = "open"]
<1>1. /\ sockets[k].state = "connecting"
      /\ sockets' = [sockets EXCEPT ![k].state = "open"]
      /\ \/ tabs' = tabs
         \/ \E job : tabs' = [tabs EXCEPT ![t].remoteQueue = Append(tabs[t].remoteQueue, job)]
      /\ replaced' = replaced
      BY DEF ServerInit, counters
<1>2. sockets' = [sockets EXCEPT ![k] = opened]
      BY <1>1
<1>3. SameSocket(sockets[k], opened)
  <2>1. SocketShape(sockets[k])
        BY DEF ConnectionInv
  <2> QED
      BY <1>1, <2>1 DEF SameSocket, SocketShape, IsActive
<1> HIDE DEF opened
<1>4. tabs' = [x \in Tab |-> tabs'[x]] /\ \A x \in Tab : SameTab(tabs[x], tabs'[x])
  <2>1. CASE tabs' = tabs
        BY <2>1 DEF ConnectionInv, SameTab
  <2> QED
      BY <1>1, <2>1, AppendedTabs
<1> QED
    BY <1>1, <1>2, <1>3, <1>4, EventStep

LEMMA ReceivedQueue ==
    ASSUME ConnectionInv, NEW t \in Tab, NEW ack
    PROVE  SameTab(tabs[t], [tabs[t] EXCEPT !.remoteQueue = tabs[t].remoteQueue \o <<ack>>])
<1> DEFINE q == tabs[t].remoteQueue \o <<ack>>
<1>1. <<ack>> \in Seq({ack})
      OBVIOUS
<1>2. IsQueue(<<ack>>)
      BY <1>1 DEF IsQueue
<1>3. IsQueue(q)
      BY <1>2, TabFact, ConcatQueue DEF TabInv
<1>4. ClosePending(tabs[t].remoteQueue) => ClosePending(q)
      BY <1>2, TabFact, ConcatQueue DEF TabInv
<1>5. TabInv(tabs[t])
      BY TabFact
<1> HIDE DEF q
<1>6. SameTab(tabs[t], [tabs[t] EXCEPT !.remoteQueue = q])
      BY <1>3, <1>4, <1>5, TabQueue
<1> QED
    BY <1>6 DEF q

LEMMA ReceivedTabs ==
    ASSUME ConnectionInv, NEW k \in Socket, NEW ack, NEW x \in Tab
    PROVE  SameTab(tabs[x], Receives(tabs, k, <<ack>>)[x])
<1> DEFINE t == sockets[k].tab
           tab == [tabs[t] EXCEPT !.remoteQueue = tabs[t].remoteQueue \o <<ack>>]
<1>1. Receives(tabs, k, <<ack>>) = tabs \/ Receives(tabs, k, <<ack>>) = [tabs EXCEPT ![t] = tab]
      BY DEF Receives
<1>2. t \in Tab => SameTab(tabs[t], tab)
      BY ReceivedQueue
<1>3. SameTab(tabs[x], tabs[x])
      BY TabFact DEF SameTab
<1> HIDE DEF t, tab
<1>4. SameTab(tabs[x], [tabs EXCEPT ![t] = tab][x])
      BY <1>2, OneTab
<1> QED
    BY <1>1, <1>3, <1>4

(* The broadcast: each open socket of another browser gets an event.       *)
LEMMA BroadcastQueue ==
    ASSUME NEW S, S \subseteq Socket, NEW events
    PROVE  IsQueue([n \in 1 .. Cardinality(S) |-> events[n]])
<1> DEFINE card == Cardinality(S)
           E == {events[n] : n \in 1 .. card}
<1>1. card \in Nat
      BY SocketAssumption, FS_Subset, FS_CardinalityType
<1>2. \A n \in 1 .. card : events[n] \in E
      OBVIOUS
<1> HIDE DEF card, E
<1>3. [n \in 1 .. card |-> events[n]] \in Seq(E)
      BY <1>1, <1>2
<1> QED
    BY <1>3 DEF IsQueue, card

LEMMA ServerCommitsStep ==
    ASSUME ConnectionInv, NEW k \in Socket, ServerCommits(k)
    PROVE  ConnectionInv'
<1> DEFINE
      batch == Head(sockets[k].up).commits
      id == LastRow + 1
      added == LiveDocAddCommits(rows, memory, [n \in DOMAIN batch |-> batch[n].ref], id)
      last == IF added.rows = rows THEN LastRow ELSE id
      ack == [op |-> "ack", from |-> k, acks |-> added.acks, cursor |-> last]
      event(o) == [op |-> "commits", from |-> o, cursor |-> last,
                   commits |-> Among(batch, {n \in DOMAIN batch : batch[n].ref \in added.acks})]
      Others(t) == {o \in Socket : /\ sockets[o].tab = t /\ sockets[o].state = "open"
                                   /\ storeOf[t] # storeOf[sockets[k].tab]}
      broadcast(t) == [n \in 1 .. Cardinality(Others(t)) |-> event(SetToSeq(Others(t))[n])]
      ts == Receives(tabs, k, <<ack>>)
      sent == [sockets[k] EXCEPT !.up = Tail(sockets[k].up)]
<1>1. tabs' = [t \in Tab |->
          [ts[t] EXCEPT !.remoteQueue = ts[t].remoteQueue \o broadcast(t)]]
      BY DEF ServerCommits
<1>2. /\ sockets[k].state \in {"open", "closing"}
      /\ sockets' = [sockets EXCEPT ![k] = sent]
      /\ replaced' = replaced
      BY DEF ServerCommits, counters
<1>3. SameSocket(sockets[k], sent)
  <2>1. SocketShape(sockets[k])
        BY DEF ConnectionInv
  <2> QED
      BY <2>1 DEF SameSocket, SocketShape, IsActive
<1>4. \A t \in Tab : SameTab(tabs[t], ts[t])
  <2> HIDE DEF ack
  <2> QED
      BY ReceivedTabs
<1>5. ASSUME NEW t \in Tab
      PROVE  IsQueue(broadcast(t))
  <2> DEFINE events == [n \in 1 .. Cardinality(Others(t)) |-> event(SetToSeq(Others(t))[n])]
  <2>1. Others(t) \subseteq Socket
        OBVIOUS
  <2>2. broadcast(t) = [n \in 1 .. Cardinality(Others(t)) |-> events[n]]
        OBVIOUS
  <2> HIDE DEF Others, events, broadcast
  <2> QED
      BY <2>1, <2>2, BroadcastQueue
<1> HIDE DEF ts, broadcast, sent
<1>6. ASSUME NEW t \in Tab
      PROVE  SameTab(tabs[t], tabs'[t])
  <2> DEFINE q == ts[t].remoteQueue \o broadcast(t)
  <2>1. TabInv(ts[t]) /\ ts[t].remote = tabs[t].remote
        BY <1>4 DEF SameTab
  <2>2. IsQueue(q) /\ (ClosePending(ts[t].remoteQueue) => ClosePending(q))
        BY <1>5, <2>1, ConcatQueue DEF TabInv
  <2>3. tabs'[t] = [ts[t] EXCEPT !.remoteQueue = q]
        BY <1>1
  <2> HIDE DEF q
  <2>4. SameTab(ts[t], tabs'[t])
        BY <2>1, <2>2, <2>3, TabQueue
  <2> QED
      BY <2>1, <2>4 DEF SameTab
<1>7. tabs' = [t \in Tab |-> tabs'[t]]
      BY <1>1
<1> QED
    BY <1>2, <1>3, <1>6, <1>7, EventStep

-----------------------------------------------------------------------------
(* The specification.                                                      *)

LEMMA InitConnection == Init => ConnectionInv
<1> SUFFICES ASSUME Init
             PROVE  ConnectionInv
    OBVIOUS
<1> DEFINE tab == [NewTab EXCEPT !.localQueue = <<>>]
<1>1. tabs = [t \in Tab |-> tab] /\ sockets = [k \in Socket |-> ClosedSocket]
      BY DEF Init
<1>2. TabInv(tab)
      BY NewTabInv, TabFields DEF SameTab
<1>3. SocketShape(ClosedSocket) /\ ~IsActive(ClosedSocket)
      BY DEF ClosedSocket, NewSocket, SocketShape, IsActive
<1> HIDE DEF tab
<1> QED
    BY <1>1, <1>2, <1>3 DEF ConnectionInv

LEMMA IdleStep ==
    ASSUME ConnectionInv, tabs' = tabs, sockets' = sockets, replaced' = replaced
    PROVE  ConnectionInv'
BY DEF ConnectionInv

LEMMA NextConnection ==
    ASSUME ConnectionInv, [Next]_vars
    PROVE  ConnectionInv'
<1>1. CASE UNCHANGED vars
      BY <1>1, IdleStep DEF vars
<1>2. ASSUME NEW s \in Store, Reset(s)
      PROVE  ConnectionInv'
      BY <1>2, IdleStep DEF Reset
<1>3. ASSUME NEW t \in Tab, Jobs(t)
      PROVE  ConnectionInv'
      BY <1>3, ConnectStep, ConnectClosedStep, UploadStep, CloseJobStep, CloseDatabaseStep,
         RemoteCommitsStep, RemoteCommitsThrowStep, SavedStep, OnErrorStep DEF Jobs
<1>4. ASSUME NEW t \in Tab, LocalJobs(t)
      PROVE  ConnectionInv'
      BY <1>4, LoadStep, LocalThrowStep, UpdateStep, LocalEventStep DEF LocalJobs
<1>5. ASSUME NEW k \in Socket, Network(k) \/ Break(k)
      PROVE  ConnectionInv'
      BY <1>5, SocketClosesStep, ServerInitStep, ServerCommitsStep, BreakStep DEF Network
<1>6. ASSUME NEW t \in Tab,
             \/ Edit(t) \/ Promote(t) \/ Demote(t) \/ Reconnect(t)
             \/ Shutdown(t) \/ Crash(t) \/ Open(t)
      PROVE  ConnectionInv'
      BY <1>6, EditStep, PromoteStep, DemoteStep, ReconnectStep, ShutdownStep, CrashStep,
         OpenStep
<1> QED
    BY <1>1, <1>2, <1>3, <1>4, <1>5, <1>6 DEF Next

LEMMA ConnectionSafe == ConnectionInv => ClosedIsOffline
<1> SUFFICES ASSUME ConnectionInv, NEW t \in Tab, ~tabs[t].dbOpen
             PROVE  /\ tabs[t].remote = NoSocket
                    /\ ~replaced => \A k \in Socket : sockets[k].tab = t =>
                           sockets[k].state \in {"closing", "closed"}
    BY DEF ClosedIsOffline
<1>1. tabs[t].remote = NoSocket
      BY TabFact DEF TabInv
<1>2. ASSUME ~replaced, NEW k \in Socket, sockets[k].tab = t
      PROVE  sockets[k].state \in {"closing", "closed"}
  <2>1. ~IsActive(sockets[k])
        BY <1>1, <1>2, SocketAssumption DEF ConnectionInv
  <2>2. sockets[k].state \in {"connecting", "open", "closing", "closed"}
        BY DEF ConnectionInv, SocketShape
  <2> QED
      BY <2>1, <2>2 DEF IsActive
<1> QED
    BY <1>1, <1>2

(* A store whose shutdown is over has no remote and, unless it replaced a  *)
(* connection by another, no socket that is connecting or open: shutdown   *)
(* (CoordinatingLocalStore.ts), however it falls between connectRemote,    *)
(* its upload, closeRemote, errors of any socket and the reconnect timer.  *)
THEOREM ClosedStaysOffline == Spec => []ClosedIsOffline
<1>1. Init => ConnectionInv
      BY InitConnection
<1>2. ConnectionInv /\ [Next]_vars => ConnectionInv'
      BY NextConnection
<1>3. ConnectionInv => ClosedIsOffline
      BY ConnectionSafe
<1> QED
    BY <1>1, <1>2, <1>3, PTL DEF Spec

-----------------------------------------------------------------------------
(* The heads store.                                                        *)

(* A database: a record, in which each childless commit is a head.         *)
HeadsOK(d) ==
    /\ d \in [commits : {d.commits}, heads : {d.heads}, lastSyncCursor : {d.lastSyncCursor}]
    /\ Childless(Stored(d)) \subseteq d.heads

HeadsInv ==
    /\ db = [s \in Store |-> db[s]]
    /\ \A s \in Store : HeadsOK(db[s])

(* Each transaction of the repository keeps a database in order.           *)

LEMMA EmptyDbHeads == HeadsOK(EmptyDb)
BY DEF HeadsOK, EmptyDb, Childless, Stored

(* Replacing the parts of a database.                                      *)
LEMMA DbFields ==
    ASSUME NEW d, HeadsOK(d), NEW c, NEW h, NEW cursor
    PROVE  /\ [d EXCEPT !.commits = c] \in
                  [commits : {c}, heads : {d.heads}, lastSyncCursor : {d.lastSyncCursor}]
           /\ [d EXCEPT !.commits = c, !.heads = h] \in
                  [commits : {c}, heads : {h}, lastSyncCursor : {d.lastSyncCursor}]
           /\ [d EXCEPT !.commits = c, !.lastSyncCursor = cursor] \in
                  [commits : {c}, heads : {d.heads}, lastSyncCursor : {cursor}]
BY DEF HeadsOK

LEMMA AddCommitsHeads ==
    ASSUME NEW d, HeadsOK(d), NEW batch, NEW remote
    PROVE  HeadsOK(AddCommits(d, batch, remote))
<1> DEFINE new == AddCommits(d, batch, remote)
           gone == UNION {ParentsOf(r) : r \in Refs(batch)}
           more == {n \in DOMAIN batch : batch[n].ref \notin Stored(d)}
           At(r) == CHOOSE n \in more : batch[n].ref = r
           commits == [r \in Stored(d) \cup Refs(batch) |->
               IF r \in Stored(d)
               THEN UpdateCommit(d.commits[r], remote /\ r \in Refs(batch))
               ELSE StoreNew(batch[At(r)], LastSyncId(d) + At(r), remote)]
<1>a. new = [d EXCEPT !.commits = commits, !.heads = HeadsWith(d, batch)]
      BY DEF AddCommits
<1>b. DOMAIN commits = Stored(d) \cup Refs(batch)
      OBVIOUS
<1> HIDE DEF commits, new
<1>1. new \in [commits : {commits}, heads : {(d.heads \cup Refs(batch)) \ gone},
               lastSyncCursor : {d.lastSyncCursor}]
      BY <1>a, DbFields DEF HeadsWith
<1>2. Stored(new) = Stored(d) \cup Refs(batch)
      BY <1>b, <1>1 DEF Stored
<1>3. ASSUME NEW r \in Childless(Stored(new))
      PROVE  r \in new.heads
  <2>1. r \notin gone
        BY <1>2, <1>3 DEF Childless
  <2>2. r \in Stored(d) => r \in d.heads
        BY <1>2, <1>3 DEF HeadsOK, Childless
  <2>3. r \in Stored(d) \cup Refs(batch)
        BY <1>2, <1>3 DEF Childless
  <2> HIDE DEF gone
  <2>4. new.heads = (d.heads \cup Refs(batch)) \ gone
        BY <1>1
  <2> QED
      BY <2>1, <2>2, <2>3, <2>4
<1> HIDE DEF gone
<1>4. new \in [commits : {new.commits}, heads : {new.heads},
               lastSyncCursor : {new.lastSyncCursor}]
      BY <1>1
<1> QED
    BY <1>3, <1>4 DEF HeadsOK, new

LEMMA AcknowledgeHeads ==
    ASSUME NEW d, HeadsOK(d), NEW acks
    PROVE  HeadsOK(AcknowledgeRemoteCommits(d, acks))
BY DEF HeadsOK, AcknowledgeRemoteCommits, Stored, Childless

LEMMA CursorHeads ==
    ASSUME NEW d, HeadsOK(d), NEW cursor
    PROVE  HeadsOK(UpsertRemoteSyncInfo(d, cursor))
BY DEF HeadsOK, UpsertRemoteSyncInfo, Stored, Childless

LEMMA ResetHeads ==
    ASSUME NEW d, HeadsOK(d)
    PROVE  HeadsOK(ResetDocRemoteSyncData(d))
<1> DEFINE new == ResetDocRemoteSyncData(d)
           commits == [r \in Stored(d) |-> [d.commits[r] EXCEPT !.synced = FALSE]]
<1>1. new = [d EXCEPT !.commits = commits, !.lastSyncCursor = 0]
      BY DEF ResetDocRemoteSyncData
<1>2. DOMAIN commits = Stored(d)
      OBVIOUS
<1> HIDE DEF commits, new
<1>3. new \in [commits : {commits}, heads : {d.heads}, lastSyncCursor : {0}]
      BY <1>1, DbFields
<1>4. HeadsOK(new)
      BY <1>2, <1>3 DEF HeadsOK, Stored, Childless
<1> QED
    BY <1>4 DEF new

-----------------------------------------------------------------------------
(* A step that leaves the databases alone, and one that replaces one.      *)

LEMMA SameDb ==
    ASSUME HeadsInv, db' = db
    PROVE  HeadsInv'
BY DEF HeadsInv, HeadsOK, Childless, Stored

LEMMA OneDb ==
    ASSUME HeadsInv, NEW s, NEW d, s \in Store => HeadsOK(d), db' = [db EXCEPT ![s] = d]
    PROVE  HeadsInv'
<1>1. \A x \in Store : db'[x] = IF x = s THEN d ELSE db[x]
      BY DEF HeadsInv
<1>2. \A x \in Store : HeadsOK(db'[x])
      BY <1>1 DEF HeadsInv
<1>3. db' = [x \in Store |-> db'[x]]
      BY DEF HeadsInv
<1> QED
    BY <1>2, <1>3 DEF HeadsInv, HeadsOK, Childless, Stored

LEMMA CrashHeads ==
    ASSUME HeadsInv, NEW t, Crash(t)
    PROVE  HeadsInv'
<1> DEFINE s == storeOf[t]
<1>1. CASE db' = db
      BY <1>1, SameDb
<1>2. ASSUME NEW left \in Torn(t), db' = [db EXCEPT ![s] = left]
      PROVE  HeadsInv'
  <2>1. s \in Store => HeadsOK(db[s])
        BY DEF HeadsInv
  <2>2. \/ \E commits : left = AddCommits(db[s], commits, FALSE)
        \/ \E commits : left = AddCommits(db[s], commits, TRUE)
        \/ \E cursor : left = UpsertRemoteSyncInfo(db[s], cursor)
        BY <1>2 DEF Torn
  <2>3. s \in Store => HeadsOK(left)
        BY <2>1, <2>2, AddCommitsHeads, CursorHeads
  <2> QED
      BY <1>2, <2>3, OneDb
<1> QED
    BY <1>1, <1>2 DEF Crash

LEMMA PersistHeads ==
    ASSUME HeadsInv, NEW t, Persist(t)
    PROVE  HeadsInv'
<1> DEFINE s == storeOf[t]
           event == Head(tabs[t].remoteQueue)
           stored == AddCommits(db[s], event.commits, TRUE)
<1>1. CASE db' = db
      BY <1>1, SameDb
<1>2. CASE db' = [db EXCEPT ![s] = UpsertRemoteSyncInfo(stored, event.cursor)]
  <2>1. s \in Store => HeadsOK(db[s])
        BY DEF HeadsInv
  <2>2. s \in Store => HeadsOK(stored)
        BY <2>1, AddCommitsHeads
  <2> HIDE DEF stored
  <2>3. s \in Store => HeadsOK(UpsertRemoteSyncInfo(stored, event.cursor))
        BY <2>2, CursorHeads
  <2> QED
      BY <1>2, <2>3, OneDb
<1> QED
    BY <1>1, <1>2 DEF Persist

LEMMA AckHeads ==
    ASSUME HeadsInv, NEW t, Ack(t)
    PROVE  HeadsInv'
<1> DEFINE s == storeOf[t]
           event == Head(tabs[t].remoteQueue)
           acked == AcknowledgeRemoteCommits(db[s], event.acks)
<1>1. CASE db' = db
      BY <1>1, SameDb
<1>2. CASE db' = [db EXCEPT ![s] = UpsertRemoteSyncInfo(acked, event.cursor)]
  <2>1. s \in Store => HeadsOK(db[s])
        BY DEF HeadsInv
  <2>2. s \in Store => HeadsOK(acked)
        BY <2>1, AcknowledgeHeads
  <2> HIDE DEF acked
  <2>3. s \in Store => HeadsOK(UpsertRemoteSyncInfo(acked, event.cursor))
        BY <2>2, CursorHeads
  <2> QED
      BY <1>2, <2>3, OneDb
<1> QED
    BY <1>1, <1>2 DEF Ack

LEMMA UpdateHeads ==
    ASSUME HeadsInv, NEW t, Update(t)
    PROVE  HeadsInv'
<1> DEFINE s == storeOf[t]
           batch == Head(tabs[t].localQueue).commits
<1>1. CASE db' = db
      BY <1>1, SameDb
<1>2. CASE db' = [db EXCEPT ![s] = AddCommits(db[s], batch, FALSE)]
  <2>1. s \in Store => HeadsOK(db[s])
        BY DEF HeadsInv
  <2>2. s \in Store => HeadsOK(AddCommits(db[s], batch, FALSE))
        BY <2>1, AddCommitsHeads
  <2> QED
      BY <1>2, <2>2, OneDb
<1> QED
    BY <1>1, <1>2 DEF Update

LEMMA ResetPreserves ==
    ASSUME HeadsInv, NEW s \in Store, Reset(s)
    PROVE  HeadsInv'
<1>1. HeadsOK(ResetDocRemoteSyncData(db[s]))
      BY ResetHeads DEF HeadsInv
<1>2. db' = [db EXCEPT ![s] = ResetDocRemoteSyncData(db[s])]
      BY DEF Reset
<1> QED
    BY <1>1, <1>2, OneDb

LEMMA NextHeads == HeadsInv /\ [Next]_vars => HeadsInv'
<1> SUFFICES ASSUME HeadsInv, [Next]_vars PROVE HeadsInv'
    OBVIOUS
<1>1. ASSUME NEW t \in Tab,
             \/ Edit(t) \/ Promote(t) \/ Demote(t) \/ Reconnect(t) \/ Shutdown(t) \/ Open(t)
      PROVE  HeadsInv'
      BY <1>1, SameDb DEF Edit, Promote, Demote, Reconnect, Shutdown, Open
<1>2. ASSUME NEW t \in Tab, Crash(t)
      PROVE  HeadsInv'
      BY <1>2, CrashHeads
<1>3. ASSUME NEW t \in Tab, Jobs(t)
      PROVE  HeadsInv'
  <2>1. CASE \/ Connect(t) \/ ConnectClosed(t) \/ Upload(t) \/ CloseJob(t) \/ CloseDatabase(t)
             \/ RemoteCommits(t) \/ RemoteCommitsThrow(t) \/ OnError(t)
        BY <2>1, SameDb DEF Connect, Opens, ConnectClosed, Upload, CloseJob, CloseDatabase,
           RemoteCommits, RemoteCommitsThrow, OnError
  <2> QED
      BY <1>3, <2>1, PersistHeads, AckHeads DEF Jobs
<1>4. ASSUME NEW t \in Tab, LocalJobs(t)
      PROVE  HeadsInv'
  <2>1. CASE Load(t) \/ LoadThrows(t) \/ LocalEvent(t) \/ LocalEventThrows(t)
        BY <2>1, SameDb DEF Load, LoadThrows, LocalEvent, LocalEventThrows
  <2> QED
      BY <1>4, <2>1, UpdateHeads DEF LocalJobs
<1>5. ASSUME NEW s \in Store, Reset(s)
      PROVE  HeadsInv'
      BY <1>5, ResetPreserves
<1>6. ASSUME NEW k \in Socket, Network(k) \/ Break(k)
      PROVE  HeadsInv'
      BY <1>6, SameDb DEF Network, Break, SocketCloses, ServerInit, ServerCommits
<1>7. CASE UNCHANGED vars
      BY <1>7, SameDb DEF vars
<1> QED
    BY <1>1, <1>2, <1>3, <1>4, <1>5, <1>6, <1>7 DEF Next

(* Each commit without a child in a database is in its heads store, in     *)
(* whatever order commits come, come again and are acknowledged, and       *)
(* wherever a tab dies (addCommits).                                       *)
THEOREM HeadsAreComplete == Spec => []HeadsComplete
<1>1. Init => HeadsInv
      BY EmptyDbHeads DEF Init, HeadsInv
<1>2. HeadsInv /\ [Next]_vars => HeadsInv'
      BY NextHeads
<1>3. HeadsInv => HeadsComplete
      BY DEF HeadsInv, HeadsOK, HeadsComplete
<1> QED
    BY <1>1, <1>2, <1>3, PTL DEF Spec

-----------------------------------------------------------------------------
(* The data of the stores, the databases, the sockets and the server.      *)

BatchOK(batch) == IsQueue(batch) /\ \A n \in DOMAIN batch : batch[n].syncId \in Nat

LastId(table) == IF table = <<>> THEN 0 ELSE table[Len(table)].remoteSyncId

TableData(table) ==
    /\ IsQueue(table)
    /\ \A n \in DOMAIN table :
          /\ table[n].remoteSyncId \in 1 .. LastId(table)
          /\ table[n].remoteSyncIndex \in Nat

IsEvent(job) == job.op \in {"commits", "persist", "ack"}

RemoteJobData(job, table) ==
    /\ IsEvent(job) => job.cursor \in 0 .. LastId(table)
    /\ job.op \in {"commits", "persist"} =>
           BatchOK(job.commits) /\ Refs(job.commits) \subseteq RefsOf(table)
    /\ job.op \in {"commits", "ack"} => job.from \in Socket
    /\ job.op = "ack" => job.acks \subseteq RefsOf(table)
    /\ job.op = "error" => job.reconnect \in BOOLEAN

QueueData(q, table) == \A job \in Elements(q) : RemoteJobData(job, table)

LocalJobData(job) == job.op \in {"update", "event"} => BatchOK(job.commits)

LocalData(q) == IsQueue(q) /\ \A job \in Elements(q) : LocalJobData(job)

TabData(tab, table) ==
    /\ tab.leader \in BOOLEAN /\ tab.timer \in BOOLEAN
    /\ QueueData(tab.remoteQueue, table)
    /\ LocalData(tab.localQueue)

CommitData(c) == c \in [syncId : Nat \ {0}, synced : BOOLEAN]

(* What is marked as synced is in the table.                               *)
DbData(d, table) ==
    /\ d \in [commits : {d.commits}, heads : {d.heads}, lastSyncCursor : 0 .. LastId(table)]
    /\ IsFiniteSet(Stored(d))
    /\ d.heads \subseteq Stored(d)
    /\ \A r \in Stored(d) :
          CommitData(d.commits[r]) /\ (d.commits[r].synced => r \in RefsOf(table))

UpData(up) == IsQueue(up) /\ \A m \in Elements(up) : BatchOK(m.commits)

DataInv ==
    /\ storeOf \in [Tab -> Store]
    /\ db = [s \in Store |-> db[s]]
    /\ \A s \in Store : DbData(db[s], rows)
    /\ \A t \in Tab : TabData(tabs[t], rows)
    /\ \A k \in Socket : UpData(sockets[k].up)
    /\ TableData(rows)
    /\ memory.seenRefs = RefsOf(rows)
    /\ budget \in [Bounded -> Nat]
    /\ gap \in BOOLEAN /\ replaced \in BOOLEAN

-----------------------------------------------------------------------------
(* The cursor.                                                             *)

(* The commits that the server does not send again to a client that says   *)
(* it has this cursor.                                                     *)
Needed(table, cursor) ==
    {table[n].ref : n \in {m \in DOMAIN table : table[m].remoteSyncId <= cursor}}

(* The job persists the commit, or does if what came before it from socket *)
(* k is not lost.                                                          *)
Brings(job, k, r) ==
    /\ job.op = "persist" \/ (job.op = "commits" /\ job.from = k)
    /\ r \in Refs(job.commits)

(* A commit that is stored, or is persisted by one of the first n jobs.    *)
IsFound(q, n, k, stored, r) == r \in stored \/ \E i \in 1 .. n : Brings(q[i], k, r)

Origin(job) == IF job.op = "persist" THEN NoSocket ELSE job.from

EventsSafe(q, stored, table) ==
    \A n \in DOMAIN q : IsEvent(q[n]) =>
        \A r \in Needed(table, q[n].cursor) : IsFound(q, n, Origin(q[n]), stored, r)

(* What other tabs pass on is stored.                                      *)
LocalSafe(q, stored) ==
    \A job \in Elements(q) :
        job.op = "event" /\ ~job.remoteOrigin => Refs(job.commits) \subseteq stored

TabSafe(tab, stored, table) ==
    /\ LocalSafe(tab.localQueue, stored)
    /\ tab.dbOpen => EventsSafe(tab.remoteQueue, stored, table)

UpSafe(up, stored) == \A m \in Elements(up) : Refs(m.commits) \subseteq stored

(* The socket k of a tab, whose database has these commits.                *)
SocketSafe(k, socket, tab, stored, table) ==
    /\ tab.open
    /\ UpSafe(socket.up, stored)
    /\ socket.state = "connecting" /\ tab.dbOpen => Needed(table, socket.cursor) \subseteq stored
    /\ socket.state = "open" /\ tab.dbOpen =>
           \A r \in RefsOf(table) : IsFound(tab.remoteQueue, Len(tab.remoteQueue), k, stored, r)

Home(t) == Stored(db[storeOf[t]])

DbSafe(d, table) == Needed(table, d.lastSyncCursor) \subseteq Stored(d)

SafeInv ==
    /\ \A s \in Store : DbSafe(db[s], rows)
    /\ \A t \in Tab : TabSafe(tabs[t], Home(t), rows)
    /\ \A k \in Socket : sockets[k].state # "closed" =>
          /\ sockets[k].tab \in Tab
          /\ sockets[k].cursor \in 0 .. LastId(rows)
          /\ \A t \in Tab : sockets[k].tab = t =>
                SocketSafe(k, sockets[k], tabs[t], Home(t), rows)
    /\ \A t \in Tab, k \in Socket : IsActive(sockets[k]) /\ tabs[t].remote = k =>
          sockets[k].tab = t

CursorInv == ~gap => SafeInv

-----------------------------------------------------------------------------
(* The transactions of the repository.                                     *)

LEMMA LastIdNat ==
    ASSUME NEW table, TableData(table)
    PROVE  LastId(table) \in Nat /\ LastId(table) = IF table = <<>> THEN 0 ELSE Last(table).remoteSyncId
<1>1. Len(table) \in Nat /\ DOMAIN table = 1 .. Len(table) /\ (table = <<>> <=> Len(table) = 0)
      BY QueueDomain DEF TableData
<1>2. CASE table = <<>>
      BY <1>2 DEF LastId
<1>3. CASE table # <<>>
  <2>1. Len(table) \in DOMAIN table
        BY <1>1, <1>3
  <2>2. table[Len(table)].remoteSyncId \in 1 .. LastId(table)
        BY <2>1 DEF TableData
  <2>3. LastId(table) = table[Len(table)].remoteSyncId
        BY <1>3 DEF LastId
  <2> QED
      BY <1>3, <2>2, <2>3 DEF Last
<1> QED
    BY <1>2, <1>3

(* A database in order, the commits and the cursor of which are these.     *)
DbIs(d, table, stored, cursor) ==
    DbData(d, table) /\ Stored(d) = stored /\ d.lastSyncCursor = cursor

LEMMA EmptyDbData ==
    ASSUME NEW table, TableData(table)
    PROVE  DbIs(EmptyDb, table, {}, 0)
<1>1. LastId(table) \in Nat
      BY LastIdNat
<1>2. Stored(EmptyDb) = {}
      BY DEF Stored, EmptyDb
<1>3. IsFiniteSet(Stored(EmptyDb))
      BY <1>2, FS_EmptySet
<1>4. EmptyDb \in [commits : {EmptyDb.commits}, heads : {EmptyDb.heads},
                   lastSyncCursor : 0 .. LastId(table)]
      BY <1>1 DEF EmptyDb
<1>5. EmptyDb.heads = {} /\ EmptyDb.lastSyncCursor = 0
      BY DEF EmptyDb
<1> QED
    BY <1>2, <1>3, <1>4, <1>5 DEF DbIs, DbData

(* The parts of a database are replaced.                                   *)
LEMMA DbReplaced ==
    ASSUME NEW d, NEW table, DbData(d, table), NEW c, NEW h, NEW cursor \in 0 .. LastId(table),
           IsFiniteSet(DOMAIN c), h \subseteq DOMAIN c,
           \A r \in DOMAIN c : CommitData(c[r]) /\ (c[r].synced => r \in RefsOf(table)),
           NEW e, e = [d EXCEPT !.commits = c, !.heads = h, !.lastSyncCursor = cursor]
    PROVE  DbIs(e, table, DOMAIN c, cursor)
<1>1. e \in [commits : {c}, heads : {h}, lastSyncCursor : {cursor}]
      BY DEF DbData
<1> QED
    BY <1>1 DEF DbIs, DbData, Stored

LEMMA LastSyncIdNat ==
    ASSUME NEW d, NEW table, DbData(d, table)
    PROVE  LastSyncId(d) \in Nat /\ \A r \in Stored(d) : d.commits[r].syncId <= LastSyncId(d)
<1> DEFINE S == {0} \cup {d.commits[r].syncId : r \in Stored(d)}
           f == [r \in Stored(d) |-> d.commits[r].syncId]
           T == {d.commits[r].syncId : r \in Stored(d)}
<1>1. f \in Surjection(Stored(d), T)
      BY DEF Surjection
<1>2. IsFiniteSet(T)
  <2>1. IsFiniteSet(Stored(d))
        BY DEF DbData
  <2> HIDE DEF f, T
  <2> QED
      BY <1>1, <2>1, FS_Surjection
<1>3. T \subseteq Nat
      BY DEF DbData, CommitData
<1>4. S = T \cup {0}
      OBVIOUS
<1>5. IsFiniteSet(S)
  <2> HIDE DEF S, T
  <2> QED
      BY <1>2, <1>4, FS_AddElement
<1>6. S \subseteq Nat /\ S # {}
      BY <1>3
<1> HIDE DEF S
<1>7. \E x \in S : \A y \in S : y <= x
      BY <1>5, <1>6, Greatest
<1>8. \E x \in S : \A y \in S : x >= y
      BY <1>6, <1>7
<1>9. Max(S) \in S /\ \A y \in S : Max(S) >= y
      BY <1>8 DEF Max
<1> QED
    BY <1>6, <1>9 DEF LastSyncId, S

LEMMA AddCommitsData ==
    ASSUME NEW d, NEW table, DbData(d, table), NEW batch, BatchOK(batch),
           NEW remote \in BOOLEAN, remote => Refs(batch) \subseteq RefsOf(table)
    PROVE  DbIs(AddCommits(d, batch, remote), table, Stored(d) \cup Refs(batch),
                d.lastSyncCursor)
<1> DEFINE more == {n \in DOMAIN batch : batch[n].ref \notin Stored(d)}
           At(r) == CHOOSE n \in more : batch[n].ref = r
           c == [r \in Stored(d) \cup Refs(batch) |->
               IF r \in Stored(d)
               THEN UpdateCommit(d.commits[r], remote /\ r \in Refs(batch))
               ELSE StoreNew(batch[At(r)], LastSyncId(d) + At(r), remote)]
           h == HeadsWith(d, batch)
           new == AddCommits(d, batch, remote)
<1>1. /\ d \in [commits : {d.commits}, heads : {d.heads}, lastSyncCursor : 0 .. LastId(table)]
      /\ d.lastSyncCursor \in 0 .. LastId(table) /\ d.heads \subseteq Stored(d)
      BY DEF DbData
<1>2. new = [d EXCEPT !.commits = c, !.heads = h]
      BY DEF AddCommits
<1>3. DOMAIN c = Stored(d) \cup Refs(batch)
      OBVIOUS
<1>4. h \subseteq DOMAIN c
      BY <1>1, <1>3 DEF HeadsWith
<1>5. IsFiniteSet(DOMAIN c)
  <2>1. Refs(batch) = {x.ref : x \in Elements(batch)}
        BY DEF Refs, Elements
  <2> DEFINE f == [x \in Elements(batch) |-> x.ref]
  <2>2. f \in Surjection(Elements(batch), Refs(batch))
        BY <2>1 DEF Surjection
  <2>3. IsFiniteSet(Elements(batch))
        BY FiniteElements DEF BatchOK
  <2> HIDE DEF f
  <2>4. IsFiniteSet(Refs(batch))
        BY <2>2, <2>3, FS_Surjection
  <2>5. IsFiniteSet(Stored(d))
        BY DEF DbData
  <2> HIDE DEF c
  <2> QED
      BY <1>3, <2>4, <2>5, FS_Union
<1>6. ASSUME NEW r \in DOMAIN c
      PROVE  CommitData(c[r]) /\ (c[r].synced => r \in RefsOf(table))
  <2>1. CASE r \in Stored(d)
    <3> DEFINE on == remote /\ r \in Refs(batch)
    <3>1. c[r] = UpdateCommit(d.commits[r], on)
          BY <1>3, <1>6, <2>1
    <3>2. CommitData(d.commits[r]) /\ (d.commits[r].synced => r \in RefsOf(table))
          BY <2>1 DEF DbData
    <3>3. on \in BOOLEAN /\ (on => r \in RefsOf(table))
          OBVIOUS
    <3> HIDE DEF on, c
    <3>4. CASE on = TRUE
          BY <3>1, <3>2, <3>3, <3>4 DEF UpdateCommit, CommitData
    <3>5. CASE on = FALSE
          BY <3>1, <3>2, <3>3, <3>5 DEF UpdateCommit, CommitData
    <3> QED
        BY <3>3, <3>4, <3>5
  <2>2. CASE r \notin Stored(d)
    <3> DEFINE n == At(r)
    <3>1. r \in Refs(batch)
          BY <1>3, <1>6, <2>2
    <3>2. \E m \in more : batch[m].ref = r
          BY <3>1, <2>2 DEF Refs
    <3>3. n \in more /\ batch[n].ref = r
          BY <3>2
    <3>4. c[r] = StoreNew(batch[n], LastSyncId(d) + n, remote)
          BY <1>3, <1>6, <2>2
    <3> HIDE DEF n, c
    <3>5. n \in Nat \ {0} /\ batch[n].syncId \in Nat
          BY <3>3, QueueDomain DEF BatchOK
    <3>6. LastSyncId(d) + n \in Nat \ {0}
          BY <3>5, LastSyncIdNat
    <3>7. CASE batch[n].syncId = 0
      <4>1. c[r] = [syncId |-> LastSyncId(d) + n, synced |-> remote]
            BY <3>4, <3>7 DEF StoreNew
      <4>2. CommitData(c[r]) /\ c[r].synced = remote
            BY <3>6, <4>1 DEF CommitData
      <4> QED
          BY <3>1, <4>2
    <3>8. CASE batch[n].syncId # 0
      <4>1. c[r] = [syncId |-> batch[n].syncId, synced |-> FALSE]
            BY <3>4, <3>8 DEF StoreNew
      <4> QED
          BY <3>5, <3>8, <4>1 DEF CommitData
    <3> QED
        BY <3>7, <3>8
  <2> QED
      BY <2>1, <2>2
<1> HIDE DEF c, h, new
<1>7. new = [d EXCEPT !.commits = c, !.heads = h, !.lastSyncCursor = d.lastSyncCursor]
      BY <1>1, <1>2
<1>8. DbIs(new, table, DOMAIN c, d.lastSyncCursor)
      BY <1>1, <1>4, <1>5, <1>6, <1>7, DbReplaced
<1> QED
    BY <1>3, <1>8 DEF new

LEMMA AcknowledgeData ==
    ASSUME NEW d, NEW table, DbData(d, table), NEW acks, acks \subseteq RefsOf(table)
    PROVE  DbIs(AcknowledgeRemoteCommits(d, acks), table, Stored(d), d.lastSyncCursor)
<1> DEFINE c == [r \in Stored(d) |-> UpdateCommit(d.commits[r], r \in acks)]
           new == AcknowledgeRemoteCommits(d, acks)
<1>1. /\ d \in [commits : {d.commits}, heads : {d.heads}, lastSyncCursor : 0 .. LastId(table)]
      /\ d.lastSyncCursor \in 0 .. LastId(table) /\ d.heads \subseteq Stored(d)
      /\ IsFiniteSet(Stored(d))
      BY DEF DbData
<1>2. new = [d EXCEPT !.commits = c]
      BY DEF AcknowledgeRemoteCommits
<1>3. DOMAIN c = Stored(d)
      OBVIOUS
<1>4. ASSUME NEW r \in DOMAIN c
      PROVE  CommitData(c[r]) /\ (c[r].synced => r \in RefsOf(table))
  <2> DEFINE on == r \in acks
  <2>1. c[r] = UpdateCommit(d.commits[r], on)
        OBVIOUS
  <2>2. CommitData(d.commits[r]) /\ (d.commits[r].synced => r \in RefsOf(table))
        BY DEF DbData
  <2>3. on \in BOOLEAN /\ (on => r \in RefsOf(table))
        OBVIOUS
  <2> HIDE DEF on, c
  <2>4. CASE on = TRUE
        BY <2>1, <2>2, <2>3, <2>4 DEF UpdateCommit, CommitData
  <2>5. CASE on = FALSE
        BY <2>1, <2>2, <2>3, <2>5 DEF UpdateCommit, CommitData
  <2> QED
      BY <2>3, <2>4, <2>5
<1> HIDE DEF c, new
<1>5. new = [d EXCEPT !.commits = c, !.heads = d.heads, !.lastSyncCursor = d.lastSyncCursor]
      BY <1>1, <1>2
<1>6. DbIs(new, table, DOMAIN c, d.lastSyncCursor)
      BY <1>1, <1>3, <1>4, <1>5, DbReplaced
<1> QED
    BY <1>3, <1>6 DEF new

LEMMA CursorData ==
    ASSUME NEW d, NEW table, DbData(d, table), NEW cursor \in 0 .. LastId(table)
    PROVE  DbIs(UpsertRemoteSyncInfo(d, cursor), table, Stored(d), cursor)
BY DEF DbIs, DbData, UpsertRemoteSyncInfo, Stored

LEMMA ResetData ==
    ASSUME NEW d, NEW table, DbData(d, table), TableData(table)
    PROVE  DbIs(ResetDocRemoteSyncData(d), table, Stored(d), 0)
<1> DEFINE c == [r \in Stored(d) |-> [d.commits[r] EXCEPT !.synced = FALSE]]
           new == ResetDocRemoteSyncData(d)
<1>1. /\ d \in [commits : {d.commits}, heads : {d.heads}, lastSyncCursor : 0 .. LastId(table)]
      /\ d.heads \subseteq Stored(d) /\ IsFiniteSet(Stored(d))
      BY DEF DbData
<1>2. new = [d EXCEPT !.commits = c, !.lastSyncCursor = 0]
      BY DEF ResetDocRemoteSyncData
<1>3. DOMAIN c = Stored(d)
      OBVIOUS
<1>4. ASSUME NEW r \in DOMAIN c
      PROVE  CommitData(c[r]) /\ (c[r].synced => r \in RefsOf(table))
  <2>1. CommitData(d.commits[r]) /\ c[r] = [d.commits[r] EXCEPT !.synced = FALSE]
        BY DEF DbData
  <2> QED
      BY <2>1 DEF CommitData
<1> HIDE DEF c, new
<1>5. new = [d EXCEPT !.commits = c, !.heads = d.heads, !.lastSyncCursor = 0]
      BY <1>1, <1>2
<1>6. 0 \in 0 .. LastId(table)
      BY LastIdNat
<1>7. DbIs(new, table, DOMAIN c, 0)
      BY <1>1, <1>3, <1>4, <1>5, <1>6, DbReplaced
<1> QED
    BY <1>3, <1>7 DEF new

(* What is uploaded is stored.                                             *)
LEMMA UploadData ==
    ASSUME NEW d, NEW table, DbData(d, table)
    PROVE  BatchOK(CommitsForRemote(d)) /\ Refs(CommitsForRemote(d)) \subseteq Stored(d)
<1> DEFINE S == {r \in Stored(d) : Unsent(d, r)}
           key == [r \in S |-> d.commits[r].syncId]
           card == Cardinality(S)
           q == Sorted(S, LAMBDA p, r : d.commits[p].syncId <= d.commits[r].syncId)
           batch == [n \in DOMAIN q |-> [ref |-> q[n], syncId |-> d.commits[q[n]].syncId]]
<1>1. IsFiniteSet(S)
  <2>1. S \subseteq Stored(d) /\ IsFiniteSet(Stored(d))
        BY DEF DbData
  <2> HIDE DEF S
  <2> QED
      BY <2>1, FS_Subset
<1>2. key \in [S -> Nat]
      BY DEF DbData, CommitData
<1>3. \A r \in S : r \in Stored(d) /\ key[r] = d.commits[r].syncId /\ key[r] \in Nat
      BY <1>2
<1>4. q = CHOOSE f \in [1 .. card -> S] : \A i, j \in 1 .. card :
              i < j => f[i] # f[j] /\ d.commits[f[i]].syncId <= d.commits[f[j]].syncId
      BY DEF Sorted
<1>5. CommitsForRemote(d) = batch
      BY DEF CommitsForRemote
<1> HIDE DEF q, S, key
<1>6. PICK p \in [1 .. card -> S] :
          \A i, j \in 1 .. card : i < j => p[i] # p[j] /\ key[p[i]] <= key[p[j]]
      BY <1>1, <1>2, SortingByKey
<1> HIDE DEF card
<1>7. q \in [1 .. card -> S]
      BY <1>3, <1>4, <1>6
<1>8. card \in Nat
      BY <1>1, FS_CardinalityType DEF card
<1>9. DOMAIN batch = 1 .. card /\ batch = [n \in 1 .. card |-> batch[n]]
      BY <1>7
<1>10. \A n \in 1 .. card : batch[n].ref \in Stored(d) /\ batch[n].syncId \in Nat
      BY <1>3, <1>7
<1> HIDE DEF batch
<1>11. IsQueue(batch)
      BY <1>8, <1>9, ListedQueue
<1> QED
    BY <1>5, <1>9, <1>10, <1>11 DEF BatchOK, Refs

-----------------------------------------------------------------------------
(* What a step may do to the events in a queue.                            *)

(* Each event was there, and what has been found when it is worked off is  *)
(* still found.                                                            *)
EventsFollow(q, stored, p, now) ==
    \A n \in DOMAIN p : IsEvent(p[n]) =>
        \E m \in DOMAIN q :
            /\ IsEvent(q[m]) /\ q[m].cursor = p[n].cursor
            /\ \A r : IsFound(q, m, Origin(q[m]), stored, r) =>
                      IsFound(p, n, Origin(p[n]), now, r)

(* What socket k has brought is still there, or is stored now.             *)
KeepsAll(q, stored, p, now, k) ==
    \A r : IsFound(q, Len(q), k, stored, r) => IsFound(p, Len(p), k, now, r)

Follows(q, stored, p, now) ==
    EventsFollow(q, stored, p, now) /\ \A k : KeepsAll(q, stored, p, now, k)

LEMMA FollowsSame ==
    ASSUME NEW q, NEW stored, NEW now, stored \subseteq now
    PROVE  Follows(q, stored, q, now)
BY DEF Follows, EventsFollow, KeepsAll, IsFound

LEMMA FollowsOn ==
    ASSUME NEW q, NEW a, NEW p, NEW b, NEW o, NEW c, Follows(q, a, p, b), Follows(p, b, o, c)
    PROVE  Follows(q, a, o, c)
<1>1. ASSUME NEW n \in DOMAIN o, IsEvent(o[n])
      PROVE  \E m \in DOMAIN q :
                /\ IsEvent(q[m]) /\ q[m].cursor = o[n].cursor
                /\ \A r : IsFound(q, m, Origin(q[m]), a, r) =>
                          IsFound(o, n, Origin(o[n]), c, r)
  <2>1. PICK i \in DOMAIN p :
            /\ IsEvent(p[i]) /\ p[i].cursor = o[n].cursor
            /\ \A r : IsFound(p, i, Origin(p[i]), b, r) => IsFound(o, n, Origin(o[n]), c, r)
        BY <1>1 DEF Follows, EventsFollow
  <2>2. PICK m \in DOMAIN q :
            /\ IsEvent(q[m]) /\ q[m].cursor = p[i].cursor
            /\ \A r : IsFound(q, m, Origin(q[m]), a, r) => IsFound(p, i, Origin(p[i]), b, r)
        BY <2>1 DEF Follows, EventsFollow
  <2> QED
      BY <2>1, <2>2
<1>2. EventsFollow(q, a, o, c)
      BY <1>1 DEF EventsFollow
<1>3. \A k : KeepsAll(q, a, o, c, k)
      BY DEF Follows, KeepsAll
<1> QED
    BY <1>2, <1>3 DEF Follows

(* A queue with something behind it.                                       *)
Extends(p, q) ==
    /\ IsQueue(p) /\ IsQueue(q)
    /\ Len(q) <= Len(p)
    /\ \A n \in 1 .. Len(q) : p[n] = q[n]

LEMMA FoundExtended ==
    ASSUME NEW p, NEW q, Extends(p, q), NEW n \in 0 .. Len(q), NEW m \in 0 .. Len(p), n <= m,
           NEW k, NEW stored, NEW r, IsFound(q, n, k, stored, r)
    PROVE  IsFound(p, m, k, stored, r)
<1>1. Len(q) \in Nat /\ Len(p) \in Nat
      BY QueueDomain DEF Extends
<1>2. CASE r \in stored
      BY <1>2 DEF IsFound
<1>3. ASSUME NEW i \in 1 .. n, Brings(q[i], k, r)
      PROVE  IsFound(p, m, k, stored, r)
  <2>1. i \in 1 .. Len(q) /\ i \in 1 .. m
        BY <1>1
  <2>2. p[i] = q[i]
        BY <2>1 DEF Extends
  <2> QED
      BY <1>3, <2>1, <2>2 DEF IsFound
<1> QED
    BY <1>2, <1>3 DEF IsFound

LEMMA FollowsExtended ==
    ASSUME NEW p, NEW q, Extends(p, q), NEW stored,
           \A n \in 1 .. Len(p) : n > Len(q) => ~IsEvent(p[n])
    PROVE  Follows(q, stored, p, stored)
<1>1. /\ Len(q) \in Nat /\ Len(p) \in Nat
      /\ DOMAIN q = 1 .. Len(q) /\ DOMAIN p = 1 .. Len(p) /\ Len(q) <= Len(p)
      BY QueueDomain DEF Extends
<1>2. ASSUME NEW n \in DOMAIN p, IsEvent(p[n])
      PROVE  \E m \in DOMAIN q :
                /\ IsEvent(q[m]) /\ q[m].cursor = p[n].cursor
                /\ \A r : IsFound(q, m, Origin(q[m]), stored, r) =>
                          IsFound(p, n, Origin(p[n]), stored, r)
  <2>1. n \in 1 .. Len(q)
        BY <1>1, <1>2
  <2>2. p[n] = q[n] /\ n \in 0 .. Len(q) /\ n \in 0 .. Len(p)
        BY <1>1, <2>1 DEF Extends
  <2>3. ASSUME NEW r, IsFound(q, n, Origin(q[n]), stored, r)
        PROVE  IsFound(p, n, Origin(q[n]), stored, r)
        BY <1>1, <2>2, <2>3, FoundExtended
  <2> QED
      BY <1>1, <1>2, <2>1, <2>2, <2>3
<1>3. ASSUME NEW k, NEW r, IsFound(q, Len(q), k, stored, r)
      PROVE  IsFound(p, Len(p), k, stored, r)
  <2>1. Len(q) \in 0 .. Len(q) /\ Len(p) \in 0 .. Len(p)
        BY <1>1
  <2> QED
      BY <1>1, <1>3, <2>1, FoundExtended
<1>4. EventsFollow(q, stored, p, stored)
      BY <1>2 DEF EventsFollow
<1> QED
    BY <1>3, <1>4 DEF Follows, KeepsAll

LEMMA ExtendsAppend ==
    ASSUME NEW q, IsQueue(q), NEW job
    PROVE  Extends(Append(q, job), q)
<1>1. Len(q) \in Nat
      BY QueueDomain
<1> QED
    BY <1>1, QueueAppend DEF Extends

LEMMA ExtendsConcat ==
    ASSUME NEW q, IsQueue(q), NEW p, IsQueue(p)
    PROVE  Extends(q \o p, q)
<1>1. Len(q) \in Nat /\ Len(p) \in Nat
      BY QueueDomain
<1> QED
    BY <1>1, QueueConcat DEF Extends

(* A job that is no event is put at the end.                               *)
LEMMA FollowsAppend ==
    ASSUME NEW q, IsQueue(q), NEW job, ~IsEvent(job), NEW stored
    PROVE  Follows(q, stored, Append(q, job), stored)
<1>1. Extends(Append(q, job), q)
      BY ExtendsAppend
<1>2. Len(q) \in Nat
      BY QueueDomain
<1>3. Len(Append(q, job)) = Len(q) + 1 /\ Append(q, job)[Len(q) + 1] = job
      BY QueueAppend
<1>4. \A n \in 1 .. Len(Append(q, job)) : n > Len(q) => n = Len(q) + 1
      BY <1>2, <1>3
<1>5. \A n \in 1 .. Len(Append(q, job)) : n > Len(q) => ~IsEvent(Append(q, job)[n])
      BY <1>3, <1>4
<1> QED
    BY <1>1, <1>5, FollowsExtended

LEMMA FollowsConcat ==
    ASSUME NEW q, IsQueue(q), NEW p, IsQueue(p), \A job \in Elements(p) : ~IsEvent(job),
           NEW stored
    PROVE  Follows(q, stored, q \o p, stored)
<1>1. Extends(q \o p, q)
      BY ExtendsConcat
<1>2. Len(q) \in Nat /\ Len(p) \in Nat /\ DOMAIN p = 1 .. Len(p)
      BY QueueDomain
<1>3. Len(q \o p) = Len(q) + Len(p) /\ \A n \in 1 .. Len(p) : (q \o p)[Len(q) + n] = p[n]
      BY QueueConcat
<1>4. ASSUME NEW n \in 1 .. Len(q \o p), n > Len(q)
      PROVE  ~IsEvent((q \o p)[n])
  <2> DEFINE m == n - Len(q)
  <2>1. m \in 1 .. Len(p) /\ n = Len(q) + m
        BY <1>2, <1>3, <1>4
  <2> HIDE DEF m
  <2>2. (q \o p)[n] = p[m]
        BY <1>3, <2>1
  <2> QED
      BY <1>2, <2>1, <2>2 DEF Elements
<1> QED
    BY <1>1, <1>4, FollowsExtended

(* The first job is done: what it brings is stored.                        *)
LEMMA FollowsTail ==
    ASSUME NEW q, IsQueue(q), q # <<>>, NEW stored, NEW now, stored \subseteq now,
           Head(q).op # "commits", Head(q).op = "persist" => Refs(Head(q).commits) \subseteq now
    PROVE  Follows(q, stored, Tail(q), now)
<1> DEFINE p == Tail(q)
<1>1. /\ Len(q) \in Nat /\ DOMAIN q = 1 .. Len(q) /\ Len(q) # 0
      /\ IsQueue(p) /\ Len(p) = Len(q) - 1 /\ DOMAIN p = 1 .. Len(p)
      /\ \A n \in 1 .. Len(q) - 1 : p[n] = q[n + 1]
      /\ Head(q) = q[1]
      BY QueueDomain, QueueTail
<1> HIDE DEF p
<1>2. ASSUME NEW n \in 0 .. Len(p), NEW k, NEW r, IsFound(q, n + 1, k, stored, r)
      PROVE  IsFound(p, n, k, now, r)
  <2>1. CASE r \in stored
        BY <2>1 DEF IsFound
  <2>2. ASSUME NEW i \in 1 .. n + 1, Brings(q[i], k, r)
        PROVE  IsFound(p, n, k, now, r)
    <3>1. CASE i = 1
          BY <1>1, <2>2, <3>1 DEF IsFound, Brings
    <3>2. CASE i # 1
      <4>1. i - 1 \in 1 .. n /\ p[i - 1] = q[i]
            BY <1>1, <3>2
      <4> QED
          BY <2>2, <4>1 DEF IsFound
    <3> QED
        BY <3>1, <3>2
  <2> QED
      BY <1>2, <2>1, <2>2 DEF IsFound
<1>3. ASSUME NEW n \in DOMAIN p, IsEvent(p[n])
      PROVE  \E m \in DOMAIN q :
                /\ IsEvent(q[m]) /\ q[m].cursor = p[n].cursor
                /\ \A r : IsFound(q, m, Origin(q[m]), stored, r) =>
                          IsFound(p, n, Origin(p[n]), now, r)
  <2>1. n + 1 \in DOMAIN q /\ p[n] = q[n + 1] /\ n \in 0 .. Len(p)
        BY <1>1
  <2>2. \A r : IsFound(q, n + 1, Origin(p[n]), stored, r) => IsFound(p, n, Origin(p[n]), now, r)
        BY <1>2, <2>1
  <2> QED
      BY <1>3, <2>1, <2>2
<1>4. ASSUME NEW k, NEW r, IsFound(q, Len(q), k, stored, r)
      PROVE  IsFound(p, Len(p), k, now, r)
  <2>1. Len(p) \in 0 .. Len(p) /\ Len(q) = Len(p) + 1
        BY <1>1
  <2> QED
      BY <1>2, <1>4, <2>1
<1>5. EventsFollow(q, stored, p, now)
      BY <1>3 DEF EventsFollow
<1>6. Follows(q, stored, p, now)
      BY <1>4, <1>5 DEF Follows, KeepsAll
<1> QED
    BY <1>6 DEF p

(* The first job goes on as another.                                       *)
GoesOn(old, job) ==
    \/ /\ old.op = "commits" /\ job.op = "persist"
       /\ job.commits = old.commits /\ job.cursor = old.cursor
    \/ old.op \notin {"commits", "persist"} /\ ~IsEvent(job)

LEMMA FollowsHead ==
    ASSUME NEW q, IsQueue(q), q # <<>>, NEW stored, NEW job, GoesOn(Head(q), job)
    PROVE  Follows(q, stored, [q EXCEPT ![1] = job], stored)
<1> DEFINE p == [q EXCEPT ![1] = job]
<1>1. /\ Len(q) \in Nat /\ DOMAIN q = 1 .. Len(q) /\ Len(q) # 0
      /\ DOMAIN p = 1 .. Len(q)
      /\ p[1] = job /\ \A n \in 1 .. Len(q) : n # 1 => p[n] = q[n]
      /\ Head(q) = q[1]
      BY QueueDomain, QueueTail
<1>2. Len(p) = Len(q)
  <2>1. p = [n \in 1 .. Len(q) |-> p[n]]
        BY <1>1
  <2> HIDE DEF p
  <2> QED
      BY <1>1, <2>1, ListedQueue
<1> HIDE DEF p
<1>3. ASSUME NEW k, NEW r, Brings(q[1], k, r)
      PROVE  \A j : Brings(p[1], j, r)
      BY <1>1, <1>3 DEF Brings, GoesOn
<1>4. ASSUME NEW n \in 1 .. Len(q), NEW k, NEW r, IsFound(q, n, k, stored, r)
      PROVE  IsFound(p, n, k, stored, r)
  <2>1. CASE r \in stored
        BY <2>1 DEF IsFound
  <2>2. ASSUME NEW i \in 1 .. n, Brings(q[i], k, r)
        PROVE  IsFound(p, n, k, stored, r)
    <3>1. CASE i = 1
          BY <1>3, <2>2, <3>1 DEF IsFound
    <3>2. CASE i # 1
      <4>1. p[i] = q[i]
            BY <1>1, <3>2
      <4> QED
          BY <2>2, <4>1 DEF IsFound
    <3> QED
        BY <3>1, <3>2
  <2> QED
      BY <1>4, <2>1, <2>2 DEF IsFound
<1>5. ASSUME NEW n \in DOMAIN p, IsEvent(p[n])
      PROVE  \E m \in DOMAIN q :
                /\ IsEvent(q[m]) /\ q[m].cursor = p[n].cursor
                /\ \A r : IsFound(q, m, Origin(q[m]), stored, r) =>
                          IsFound(p, n, Origin(p[n]), stored, r)
  <2>1. CASE n = 1
    <3>1. IsEvent(q[1]) /\ q[1].cursor = p[1].cursor
          BY <1>1, <1>5, <2>1 DEF GoesOn, IsEvent
    <3>2. ASSUME NEW r, IsFound(q, 1, Origin(q[1]), stored, r)
          PROVE  IsFound(p, 1, Origin(p[1]), stored, r)
      <4>1. r \in stored \/ Brings(q[1], Origin(q[1]), r)
            BY <3>2 DEF IsFound
      <4> QED
          BY <1>3, <4>1 DEF IsFound
    <3> QED
        BY <1>1, <2>1, <3>1, <3>2
  <2>2. CASE n # 1
    <3>1. p[n] = q[n]
          BY <1>1, <2>2
    <3> QED
        BY <1>1, <1>4, <1>5, <3>1
  <2> QED
      BY <2>1, <2>2
<1>6. ASSUME NEW k, NEW r, IsFound(q, Len(q), k, stored, r)
      PROVE  IsFound(p, Len(p), k, stored, r)
  <2>1. Len(q) \in 1 .. Len(q)
        BY <1>1
  <2> QED
      BY <1>2, <1>4, <1>6, <2>1
<1>7. EventsFollow(q, stored, p, stored)
      BY <1>5 DEF EventsFollow
<1>8. Follows(q, stored, p, stored)
      BY <1>6, <1>7 DEF Follows, KeepsAll
<1> QED
    BY <1>8 DEF p

(* Events of a socket are lost, those from one on.                         *)
LEMMA FollowsArrived ==
    ASSUME NEW q, IsQueue(q), NEW k, NEW lost \in Nat, NEW stored,
           \A m \in DOMAIN q : q[m].op \in {"commits", "ack"} => q[m].from # NoSocket
    PROVE  /\ EventsFollow(q, stored, Arrived(q, k, lost), stored)
           /\ \A j : j # k => KeepsAll(q, stored, Arrived(q, k, lost), stored, j)
<1> DEFINE From(m) == q[m].op \in {"commits", "ack"} /\ q[m].from = k
           sent(m) == {x \in 1 .. m : From(x)}
           kept == {m \in DOMAIN q : From(m) => Cardinality(sent(m)) <= lost}
           p == Arrived(q, k, lost)
           card == Cardinality(kept)
           at(i) == Nth(kept, i)
<1>0. Len(q) \in Nat /\ DOMAIN q = 1 .. Len(q)
      BY QueueDomain
<1>1. kept \subseteq DOMAIN q
      OBVIOUS
<1>2. p = Among(q, kept)
      BY DEF Arrived
<1> HIDE DEF kept, p
<1>3. /\ IsQueue(p) /\ card \in Nat /\ Len(p) = card
      /\ \A i \in 1 .. card : at(i) \in kept /\ p[i] = q[at(i)]
      /\ \A m \in kept : \E i \in 1 .. card : at(i) = m
      /\ \A i, j \in 1 .. card : i < j => at(i) < at(j)
      BY <1>1, <1>2, AmongQueue
<1>4. DOMAIN p = 1 .. card
      BY <1>3, QueueDomain
<1> HIDE DEF card, at
(* An event that stays keeps those before it of its socket.                *)
<1>5. ASSUME NEW m \in kept, NEW x \in 1 .. m, From(m)
      PROVE  x \in kept
  <2>1. m \in Nat /\ x \in DOMAIN q
        BY <1>0, <1>1
  <2>2. Cardinality(sent(m)) <= lost
        BY <1>5 DEF kept
  <2>3. IsFiniteSet(sent(m))
    <3>1. IsFiniteSet(1 .. m)
          BY <2>1, FS_Interval
    <3>2. sent(m) \subseteq 1 .. m
          OBVIOUS
    <3> HIDE DEF From, sent
    <3> QED
        BY <3>1, <3>2, FS_Subset
  <2>4. sent(x) \subseteq sent(m)
        BY <2>1
  <2> HIDE DEF From, sent
  <2>5. IsFiniteSet(sent(x))
        BY <2>3, <2>4, FS_Subset
  <2>6. Cardinality(sent(x)) <= Cardinality(sent(m))
        BY <2>3, <2>4, FS_Subset
  <2>7. Cardinality(sent(x)) \in Nat /\ Cardinality(sent(m)) \in Nat
        BY <2>3, <2>5, FS_CardinalityType
  <2>8. Cardinality(sent(x)) <= lost
        BY <2>2, <2>6, <2>7
  <2> QED
      BY <2>1, <2>8 DEF kept
<1>6. ASSUME NEW x \in DOMAIN q, ~From(x)
      PROVE  x \in kept
      BY <1>6 DEF kept
<1>7. ASSUME NEW n \in DOMAIN p, IsEvent(p[n])
      PROVE  \E m \in DOMAIN q :
                /\ IsEvent(q[m]) /\ q[m].cursor = p[n].cursor
                /\ \A r : IsFound(q, m, Origin(q[m]), stored, r) =>
                          IsFound(p, n, Origin(p[n]), stored, r)
  <2> DEFINE m == at(n)
             o == Origin(q[m])
  <2>1. m \in kept /\ m \in DOMAIN q /\ p[n] = q[m]
        BY <1>1, <1>3, <1>4
  <2>2. ASSUME NEW r, IsFound(q, m, o, stored, r)
        PROVE  IsFound(p, n, o, stored, r)
    <3>1. CASE r \in stored
          BY <3>1 DEF IsFound
    <3>2. ASSUME NEW x \in 1 .. m, Brings(q[x], o, r)
          PROVE  IsFound(p, n, o, stored, r)
      <4>1. x \in DOMAIN q /\ m \in Nat /\ x \in Nat /\ x <= m
            BY <1>0, <2>1
      <4>2. x \in kept
        <5>1. CASE From(m)
              BY <1>5, <2>1, <5>1
        <5>2. CASE ~From(m)
          <6>1. ~From(x)
            <7>1. SUFFICES ASSUME From(x) PROVE FALSE
                  OBVIOUS
            <7>2. q[x].op = "commits" /\ q[x].from = o /\ o = k
                  BY <3>2, <7>1 DEF Brings
            <7>3. q[m].op # "persist"
                  BY <4>1, <7>2 DEF Origin
            <7>4. q[m].op \in {"commits", "ack"}
                  BY <1>7, <2>1, <7>3 DEF IsEvent
            <7> QED
                BY <5>2, <7>2, <7>3, <7>4 DEF Origin
          <6> QED
              BY <1>6, <4>1, <6>1
        <5> QED
            BY <5>1, <5>2
      <4>3. PICK i \in 1 .. card : at(i) = x
            BY <1>3, <4>2
      <4>4. i <= n
        <5>1. n \in 1 .. card /\ card \in Nat
              BY <1>3, <1>4
        <5>2. ~(n < i)
              BY <1>3, <4>1, <4>3, <5>1
        <5> QED
            BY <5>1, <5>2
      <4>5. i \in 1 .. n /\ p[i] = q[x]
            BY <1>3, <1>4, <4>3, <4>4
      <4> QED
          BY <3>2, <4>5 DEF IsFound
    <3> HIDE DEF o, m
    <3> QED
        BY <2>2, <3>1, <3>2 DEF IsFound
  <2> HIDE DEF m
  <2> QED
      BY <1>7, <2>1, <2>2
<1>8. ASSUME NEW j, j # k, NEW r, IsFound(q, Len(q), j, stored, r)
      PROVE  IsFound(p, Len(p), j, stored, r)
  <2>1. CASE r \in stored
        BY <2>1 DEF IsFound
  <2>2. ASSUME NEW x \in 1 .. Len(q), Brings(q[x], j, r)
        PROVE  IsFound(p, Len(p), j, stored, r)
    <3>1. x \in kept
      <4>1. ~From(x)
            BY <1>8, <2>2 DEF Brings
      <4> QED
          BY <1>0, <1>6, <4>1
    <3>2. PICK i \in 1 .. card : at(i) = x
          BY <1>3, <3>1
    <3>3. p[i] = q[x] /\ i \in 1 .. Len(p)
          BY <1>3, <3>2
    <3> QED
        BY <2>2, <3>3 DEF IsFound
  <2> QED
      BY <1>8, <2>1, <2>2 DEF IsFound
<1>9. EventsFollow(q, stored, p, stored)
      BY <1>7 DEF EventsFollow
<1>10. \A j : j # k => KeepsAll(q, stored, p, stored, j)
      BY <1>8 DEF KeepsAll
<1> QED
    BY <1>9, <1>10 DEF p

(* Events that follow safe ones are safe.                                  *)
LEMMA FollowsSafe ==
    ASSUME NEW q, NEW stored, NEW p, NEW now, NEW table,
           EventsFollow(q, stored, p, now), EventsSafe(q, stored, table)
    PROVE  EventsSafe(p, now, table)
<1>1. ASSUME NEW n \in DOMAIN p, IsEvent(p[n]), NEW r \in Needed(table, p[n].cursor)
      PROVE  IsFound(p, n, Origin(p[n]), now, r)
  <2>1. PICK m \in DOMAIN q :
            /\ IsEvent(q[m]) /\ q[m].cursor = p[n].cursor
            /\ \A x : IsFound(q, m, Origin(q[m]), stored, x) =>
                      IsFound(p, n, Origin(p[n]), now, x)
        BY <1>1 DEF EventsFollow
  <2>2. IsFound(q, m, Origin(q[m]), stored, r)
        BY <1>1, <2>1 DEF EventsSafe
  <2> QED
      BY <2>1, <2>2
<1> QED
    BY <1>1 DEF EventsSafe

-----------------------------------------------------------------------------
(* Stores: the code's methods, and the data in their queues.               *)

(* What nearly every step makes of a store: the databases of the stores    *)
(* had the commits `stored' and now have the commits `now'.                *)
Moves(a, b, table, stored, now) ==
    /\ SameTab(a, b)
    /\ b.open = a.open /\ (b.dbOpen => a.dbOpen)
    /\ TabData(a, table) => TabData(b, table)
    /\ LocalSafe(a.localQueue, stored) => LocalSafe(b.localQueue, now)
    /\ b.dbOpen => Follows(a.remoteQueue, stored, b.remoteQueue, now)

LEMMA MovesOn ==
    ASSUME NEW a, NEW b, NEW c, NEW table, NEW stored, NEW mid, NEW now,
           Moves(a, b, table, stored, mid), Moves(b, c, table, mid, now)
    PROVE  Moves(a, c, table, stored, now)
<1>1. c.dbOpen => Follows(a.remoteQueue, stored, c.remoteQueue, now)
      BY FollowsOn DEF Moves
<1>2. SameTab(a, c)
      BY DEF Moves, SameTab
<1> QED
    BY <1>1, <1>2 DEF Moves

LEMMA MovesNot ==
    ASSUME NEW tab, TabInv(tab), NEW table, NEW stored, NEW now, stored \subseteq now
    PROVE  Moves(tab, tab, table, stored, now)
<1>1. Follows(tab.remoteQueue, stored, tab.remoteQueue, now)
      BY FollowsSame
<1>2. LocalSafe(tab.localQueue, stored) => LocalSafe(tab.localQueue, now)
      BY DEF LocalSafe
<1> QED
    BY <1>1, <1>2 DEF Moves, SameTab

(* Only the queue of the remote changes.                                   *)
LEMMA MovesQueue ==
    ASSUME NEW tab, TabInv(tab), NEW q, NEW table, NEW stored, NEW now, stored \subseteq now,
           SameTab(tab, [tab EXCEPT !.remoteQueue = q]),
           QueueData(tab.remoteQueue, table) => QueueData(q, table),
           tab.dbOpen => Follows(tab.remoteQueue, stored, q, now)
    PROVE  Moves(tab, [tab EXCEPT !.remoteQueue = q], table, stored, now)
<1> DEFINE b == [tab EXCEPT !.remoteQueue = q]
<1>1. /\ b.open = tab.open /\ b.dbOpen = tab.dbOpen /\ b.leader = tab.leader
      /\ b.timer = tab.timer /\ b.localQueue = tab.localQueue /\ b.remoteQueue = q
      BY DEF TabInv, TabShape
<1>2. LocalSafe(tab.localQueue, stored) => LocalSafe(tab.localQueue, now)
      BY DEF LocalSafe
<1>3. SameTab(tab, b)
      OBVIOUS
<1> HIDE DEF b
<1>4. Moves(tab, b, table, stored, now)
      BY <1>1, <1>2, <1>3 DEF Moves, TabData
<1> QED
    BY <1>4 DEF b

LEMMA MovesFields ==
    ASSUME NEW tab, TabInv(tab), NEW v, NEW table, NEW stored
    PROVE  /\ v \in BOOLEAN => Moves(tab, [tab EXCEPT !.leader = v], table, stored, stored)
           /\ v \in BOOLEAN => Moves(tab, [tab EXCEPT !.timer = v], table, stored, stored)
           /\ Moves(tab, [tab EXCEPT !.known = v], table, stored, stored)
           /\ Moves(tab, [tab EXCEPT !.missed = v], table, stored, stored)
<1> DEFINE a == [tab EXCEPT !.leader = v]
           b == [tab EXCEPT !.timer = v]
           c == [tab EXCEPT !.known = v]
           d == [tab EXCEPT !.missed = v]
<1>1. SameTab(tab, a) /\ SameTab(tab, b) /\ SameTab(tab, c) /\ SameTab(tab, d)
      BY TabFields
<1>2. /\ a.open = tab.open /\ a.dbOpen = tab.dbOpen /\ a.leader = v
      /\ a.timer = tab.timer /\ a.localQueue = tab.localQueue
      /\ a.remoteQueue = tab.remoteQueue
      BY DEF TabInv, TabShape
<1>3. /\ b.open = tab.open /\ b.dbOpen = tab.dbOpen /\ b.leader = tab.leader
      /\ b.timer = v /\ b.localQueue = tab.localQueue
      /\ b.remoteQueue = tab.remoteQueue
      BY DEF TabInv, TabShape
<1>4. /\ c.open = tab.open /\ c.dbOpen = tab.dbOpen /\ c.leader = tab.leader
      /\ c.timer = tab.timer /\ c.localQueue = tab.localQueue
      /\ c.remoteQueue = tab.remoteQueue
      BY DEF TabInv, TabShape
<1>9. /\ d.open = tab.open /\ d.dbOpen = tab.dbOpen /\ d.leader = tab.leader
      /\ d.timer = tab.timer /\ d.localQueue = tab.localQueue
      /\ d.remoteQueue = tab.remoteQueue
      BY DEF TabInv, TabShape
<1>5. Follows(tab.remoteQueue, stored, tab.remoteQueue, stored)
      BY FollowsSame
<1> HIDE DEF a, b, c, d
<1>6. v \in BOOLEAN => Moves(tab, a, table, stored, stored)
      BY <1>1, <1>2, <1>5 DEF Moves, TabData
<1>7. v \in BOOLEAN => Moves(tab, b, table, stored, stored)
      BY <1>1, <1>3, <1>5 DEF Moves, TabData
<1>8. Moves(tab, c, table, stored, stored)
      BY <1>1, <1>4, <1>5 DEF Moves, TabData
<1>10. Moves(tab, d, table, stored, stored)
       BY <1>1, <1>9, <1>5 DEF Moves, TabData
<1> QED
    BY <1>6, <1>7, <1>8, <1>10 DEF a, b, c, d

(* Only the local queue changes.                                           *)
LEMMA MovesLocal ==
    ASSUME NEW tab, TabInv(tab), NEW q, NEW table, NEW stored, NEW now, stored \subseteq now,
           LocalData(tab.localQueue) => LocalData(q),
           LocalSafe(tab.localQueue, stored) => LocalSafe(q, now)
    PROVE  Moves(tab, [tab EXCEPT !.localQueue = q], table, stored, now)
<1> DEFINE b == [tab EXCEPT !.localQueue = q]
<1>1. /\ b.open = tab.open /\ b.dbOpen = tab.dbOpen /\ b.leader = tab.leader
      /\ b.timer = tab.timer /\ b.localQueue = q /\ b.remoteQueue = tab.remoteQueue
      BY DEF TabInv, TabShape
<1>2. SameTab(tab, b)
      BY TabFields
<1>3. Follows(tab.remoteQueue, stored, tab.remoteQueue, now)
      BY FollowsSame
<1> HIDE DEF b
<1>4. Moves(tab, b, table, stored, now)
      BY <1>1, <1>2, <1>3 DEF Moves, TabData
<1> QED
    BY <1>4 DEF b

LEMMA LocalAppend ==
    ASSUME NEW q, NEW job, NEW stored,
           LocalJobData(job),
           job.op = "event" => job.remoteOrigin \/ Refs(job.commits) \subseteq stored
    PROVE  /\ LocalData(q) => LocalData(Append(q, job))
           /\ LocalData(q) /\ LocalSafe(q, stored) => LocalSafe(Append(q, job), stored)
<1>1. ASSUME LocalData(q)
      PROVE  IsQueue(Append(q, job)) /\ Elements(Append(q, job)) = Elements(q) \cup {job}
      BY <1>1, QueueAppend DEF LocalData
<1>2. LocalData(q) => LocalData(Append(q, job))
      BY <1>1 DEF LocalData
<1>3. LocalData(q) /\ LocalSafe(q, stored) => LocalSafe(Append(q, job), stored)
      BY <1>1 DEF LocalSafe
<1> QED
    BY <1>2, <1>3

LEMMA LocalTail ==
    ASSUME NEW q, LocalData(q), q # <<>>, NEW stored
    PROVE  /\ LocalData(Tail(q))
           /\ LocalSafe(q, stored) => LocalSafe(Tail(q), stored)
           /\ LocalJobData(Head(q)) /\ Head(q) \in Elements(q)
<1>1. IsQueue(Tail(q)) /\ Elements(q) = Elements(Tail(q)) \cup {Head(q)}
      BY QueueTail DEF LocalData
<1> QED
    BY <1>1 DEF LocalData, LocalSafe

(* A job that is no event is appended to the queue of the remote.          *)
LEMMA MovesAppend ==
    ASSUME NEW tab, TabInv(tab), NEW job, NEW table, NEW stored,
           ~IsEvent(job), RemoteJobData(job, table)
    PROVE  LET q == Append(tab.remoteQueue, job)
           IN  SameTab(tab, [tab EXCEPT !.remoteQueue = q]) =>
                   Moves(tab, [tab EXCEPT !.remoteQueue = q], table, stored, stored)
<1> DEFINE q == Append(tab.remoteQueue, job)
<1>1. IsQueue(tab.remoteQueue)
      BY DEF TabInv
<1>2. Elements(q) = Elements(tab.remoteQueue) \cup {job}
      BY <1>1, QueueAppend
<1>3. QueueData(tab.remoteQueue, table) => QueueData(q, table)
      BY <1>2 DEF QueueData
<1>4. Follows(tab.remoteQueue, stored, q, stored)
      BY <1>1, FollowsAppend
<1> HIDE DEF q
<1>5. SameTab(tab, [tab EXCEPT !.remoteQueue = q]) =>
          Moves(tab, [tab EXCEPT !.remoteQueue = q], table, stored, stored)
      BY <1>3, <1>4, MovesQueue
<1> QED
    BY <1>5 DEF q

LEMMA MovesCloseRemote ==
    ASSUME NEW tab, TabInv(tab), NEW reconnect \in BOOLEAN, NEW table, NEW stored
    PROVE  Moves(tab, CloseRemote(tab, reconnect), table, stored, stored)
<1> DEFINE q == Append(tab.remoteQueue, Close(FALSE))
           timed == [tab EXCEPT !.timer = reconnect]
<1>1. CloseRemote(tab, reconnect) = [timed EXCEPT !.remoteQueue = q]
          /\ timed.remoteQueue = tab.remoteQueue
      BY DEF CloseRemote, TabInv, TabShape
<1>2. Moves(tab, timed, table, stored, stored)
      BY MovesFields
<1>3. TabInv(timed)
      BY <1>2 DEF Moves, SameTab
<1>4. IsQueue(q) /\ (ClosePending(tab.remoteQueue) => ClosePending(q))
      BY AppendQueue DEF TabInv
<1>5. ~IsEvent(Close(FALSE)) /\ RemoteJobData(Close(FALSE), table)
      BY DEF IsEvent, RemoteJobData, Close
<1> HIDE DEF timed
<1>6. SameTab(timed, [timed EXCEPT !.remoteQueue = q])
      BY <1>1, <1>3, <1>4, TabQueue
<1>7. Moves(timed, [timed EXCEPT !.remoteQueue = q], table, stored, stored)
      BY <1>1, <1>3, <1>5, <1>6, MovesAppend
<1> QED
    BY <1>1, <1>2, <1>7, MovesOn

LEMMA MovesConnectRemote ==
    ASSUME NEW tab, TabInv(tab), NEW table, NEW stored
    PROVE  Moves(tab, ConnectRemote(tab), table, stored, stored)
<1>1. ~IsEvent(Job("connect")) /\ RemoteJobData(Job("connect"), table)
      BY DEF IsEvent, RemoteJobData, Job
<1>2. SameTab(tab, ConnectRemote(tab))
      BY ConnectRemoteTab
<1> QED
    BY <1>1, <1>2, MovesAppend DEF ConnectRemote

LEMMA MovesShutDown ==
    ASSUME NEW tab, TabInv(tab), NEW table, NEW stored
    PROVE  Moves(tab, ShutDown(tab), table, stored, stored)
<1>1. CASE ShutDown(tab) = tab
      BY <1>1, MovesNot
<1> DEFINE q == Append(tab.remoteQueue, Close(TRUE))
           b == [tab EXCEPT !.closed = TRUE, !.timer = FALSE, !.remoteQueue = q]
<1>2. CASE ShutDown(tab) = b
  <2>1. IsQueue(tab.remoteQueue)
        BY DEF TabInv
  <2>2. Elements(q) = Elements(tab.remoteQueue) \cup {Close(TRUE)}
        BY <2>1, QueueAppend
  <2>3. ~IsEvent(Close(TRUE)) /\ RemoteJobData(Close(TRUE), table)
        BY DEF IsEvent, RemoteJobData, Close
  <2>4. QueueData(tab.remoteQueue, table) => QueueData(q, table)
        BY <2>2, <2>3 DEF QueueData
  <2>5. Follows(tab.remoteQueue, stored, q, stored)
        BY <2>1, <2>3, FollowsAppend
  <2>6. SameTab(tab, b)
        BY <1>2, ShutDownTab
  <2> HIDE DEF q
  <2>7. /\ b.open = tab.open /\ b.dbOpen = tab.dbOpen /\ b.leader = tab.leader
        /\ b.timer = FALSE /\ b.localQueue = tab.localQueue /\ b.remoteQueue = q
        BY DEF TabInv, TabShape
  <2> HIDE DEF b
  <2>8. Moves(tab, b, table, stored, stored)
        BY <2>4, <2>5, <2>6, <2>7 DEF Moves, TabData
  <2> QED
      BY <1>2, <2>8
<1> QED
    BY <1>1, <1>2 DEF ShutDown

(* A job of the remote is done.                                            *)
LEMMA MovesDoneRemote ==
    ASSUME NEW tab, TabInv(tab), tab.remoteQueue # <<>>, NEW table, NEW stored, NEW now,
           stored \subseteq now,
           Head(tab.remoteQueue).op \notin {"close", "commits"},
           tab.dbOpen /\ Head(tab.remoteQueue).op = "persist" =>
               Refs(Head(tab.remoteQueue).commits) \subseteq now
    PROVE  Moves(tab, DoneRemote(tab), table, stored, now)
<1> DEFINE q == Tail(tab.remoteQueue)
<1>1. IsQueue(tab.remoteQueue)
      BY DEF TabInv
<1>2. Elements(tab.remoteQueue) = Elements(q) \cup {Head(tab.remoteQueue)}
      BY <1>1, QueueTail
<1>3. QueueData(tab.remoteQueue, table) => QueueData(q, table)
      BY <1>2 DEF QueueData
<1>4. tab.dbOpen => Follows(tab.remoteQueue, stored, q, now)
      BY <1>1, FollowsTail
<1>5. SameTab(tab, [tab EXCEPT !.remoteQueue = q])
      BY DoneRemoteTab DEF DoneRemote
<1> HIDE DEF q
<1>6. Moves(tab, [tab EXCEPT !.remoteQueue = q], table, stored, now)
      BY <1>3, <1>4, <1>5, MovesQueue
<1> QED
    BY <1>6 DEF DoneRemote, q

LEMMA MovesThenRemote ==
    ASSUME NEW tab, TabInv(tab), tab.remoteQueue # <<>>, NEW table, NEW stored, NEW job,
           Head(tab.remoteQueue).op # "close", GoesOn(Head(tab.remoteQueue), job),
           RemoteJobData(Head(tab.remoteQueue), table) => RemoteJobData(job, table)
    PROVE  Moves(tab, ThenRemote(tab, job), table, stored, stored)
<1> DEFINE old == tab.remoteQueue
           q == [old EXCEPT ![1] = job]
<1>1. IsQueue(old)
      BY DEF TabInv
<1>2. Len(old) \in Nat /\ DOMAIN old = 1 .. Len(old) /\ Len(old) # 0 /\ Head(old) = old[1]
      BY <1>1, QueueDomain, QueueTail
<1>3. ASSUME QueueData(old, table)
      PROVE  QueueData(q, table)
  <2>1. ASSUME NEW n \in DOMAIN q
        PROVE  RemoteJobData(q[n], table)
    <3>1. n \in DOMAIN old
          OBVIOUS
    <3>2. RemoteJobData(old[n], table)
          BY <1>3, <3>1 DEF QueueData, Elements
    <3>3. CASE n = 1
          BY <1>2, <3>2, <3>3
    <3>4. CASE n # 1
          BY <3>1, <3>2, <3>4
    <3> QED
        BY <3>3, <3>4
  <2> QED
      BY <2>1 DEF QueueData, Elements
<1>4. Follows(old, stored, q, stored)
      BY <1>1, FollowsHead
<1>5. ThenRemote(tab, job) = [tab EXCEPT !.remoteQueue = q]
      BY DEF ThenRemote, TabInv, TabShape
<1>6. SameTab(tab, ThenRemote(tab, job))
      BY ThenRemoteTab
<1> HIDE DEF q
<1>7. Moves(tab, [tab EXCEPT !.remoteQueue = q], table, stored, stored)
      BY <1>3, <1>4, <1>5, <1>6, MovesQueue
<1> QED
    BY <1>5, <1>7

LEMMA MovesDoneLocal ==
    ASSUME NEW tab, TabInv(tab), NEW table, TabData(tab, table), tab.localQueue # <<>>,
           NEW stored, NEW now, stored \subseteq now
    PROVE  Moves(tab, DoneLocal(tab), table, stored, now)
<1> DEFINE q == Tail(tab.localQueue)
<1>1. LocalData(tab.localQueue)
      BY DEF TabData
<1>2. LocalData(q)
      BY <1>1, LocalTail
<1>3. LocalSafe(tab.localQueue, stored) => LocalSafe(q, stored)
      BY <1>1, LocalTail
<1>4. LocalSafe(q, stored) => LocalSafe(q, now)
      BY DEF LocalSafe
<1> HIDE DEF q
<1>5. Moves(tab, [tab EXCEPT !.localQueue = q], table, stored, now)
      BY <1>2, <1>3, <1>4, MovesLocal
<1> QED
    BY <1>5 DEF DoneLocal, q

(* A commit is learned and a local job done.                               *)
LEMMA MovesLearned ==
    ASSUME NEW tab, TabInv(tab), NEW table, TabData(tab, table), tab.localQueue # <<>>,
           NEW known, NEW stored
    PROVE  Moves(tab, DoneLocal([tab EXCEPT !.known = known]), table, stored, stored)
<1> DEFINE knows == [tab EXCEPT !.known = known]
<1>1. Moves(tab, knows, table, stored, stored)
      BY MovesFields
<1>2. knows.localQueue = tab.localQueue
      BY DEF TabInv, TabShape
<1> HIDE DEF knows
<1>3. TabInv(knows) /\ TabData(knows, table)
      BY <1>1 DEF Moves, SameTab
<1>4. Moves(knows, DoneLocal(knows), table, stored, stored)
      BY <1>2, <1>3, MovesDoneLocal
<1>5. Moves(tab, DoneLocal(knows), table, stored, stored)
      BY <1>1, <1>4, MovesOn
<1> QED
    BY <1>5 DEF knows

-----------------------------------------------------------------------------
(* Steps that leave the server alone.                                      *)

CursorStepInv == ConnectionInv /\ DataInv /\ CursorInv

(* The databases after a step: no commit goes, and a cursor is safe.       *)
DbMoves(d, e, table, safe) ==
    /\ DbData(e, table)
    /\ Stored(d) \subseteq Stored(e)
    /\ safe => (DbSafe(d, table) => DbSafe(e, table))

(* A socket after a step: closed, or the same with more messages.          *)
SocketMoves(a, b, now, safe) ==
    /\ UpData(a.up) => UpData(b.up)
    /\ b.state # "closed" =>
          /\ b.state = a.state /\ b.tab = a.tab /\ b.cursor = a.cursor
          /\ safe => (UpSafe(a.up, now) => UpSafe(b.up, now))

Same == UNCHANGED <<storeOf, rows, memory>>

LEMMA DataStep ==
    ASSUME DataInv, Same,
           db' = [s \in Store |-> db'[s]], \A s \in Store : DbData(db'[s], rows),
           \A t \in Tab : TabData(tabs'[t], rows),
           \A k \in Socket : UpData(sockets'[k].up),
           budget' \in [Bounded -> Nat], gap' \in BOOLEAN, replaced' \in BOOLEAN
    PROVE  DataInv'
BY DEF DataInv, Same

LEMMA SpendNat ==
    ASSUME DataInv, NEW kind \in Bounded, Spend(kind)
    PROVE  budget' \in [Bounded -> Nat]
BY DEF DataInv, Spend

LEMMA HomeGrows ==
    ASSUME DataInv, storeOf' = storeOf, NEW t \in Tab,
           \A s \in Store : Stored(db[s]) \subseteq Stored(db'[s])
    PROVE  Home(t) \subseteq Home(t)'
<1>1. storeOf[t] \in Store
      BY DEF DataInv
<1>2. Home(t)' = Stored(db'[storeOf[t]])
      BY DEF Home, Stored
<1> QED
    BY <1>1, <1>2 DEF Home

(* The socket of a tab, before and after.                                  *)
LEMMA SocketStays ==
    ASSUME NEW k, NEW a, NEW b, NEW tab, NEW new, NEW stored, NEW now, stored \subseteq now,
           NEW table, SocketSafe(k, a, tab, stored, table), b.state = a.state,
           b.cursor = a.cursor, UpSafe(a.up, now) => UpSafe(b.up, now),
           tab.open => new.open, new.dbOpen => tab.dbOpen,
           a.state = "open" /\ new.dbOpen => KeepsAll(tab.remoteQueue, stored, new.remoteQueue, now, k)
    PROVE  SocketSafe(k, b, new, now, table)
<1>1. UpSafe(b.up, now)
      BY DEF SocketSafe, UpSafe
<1>2. b.state = "connecting" /\ new.dbOpen => Needed(table, b.cursor) \subseteq now
      BY DEF SocketSafe
<1>3. ASSUME b.state = "open", new.dbOpen, NEW r \in RefsOf(table)
      PROVE  IsFound(new.remoteQueue, Len(new.remoteQueue), k, now, r)
      BY <1>3 DEF SocketSafe, KeepsAll
<1> QED
    BY <1>1, <1>2, <1>3 DEF SocketSafe

(* The whole system, when nothing is lost.                                 *)
LEMMA MovedStep ==
    ASSUME CursorStepInv, Same, gap' = gap,
           db' = [s \in Store |-> db'[s]],
           \A s \in Store : DbMoves(db[s], db'[s], rows, ~gap),
           \A t \in Tab : Moves(tabs[t], tabs'[t], rows, Home(t), Home(t)'),
           \A k \in Socket : \A t : sockets[k].tab = t =>
               SocketMoves(sockets[k], sockets'[k], Home(t)', ~gap),
           budget' \in [Bounded -> Nat], replaced' \in BOOLEAN
    PROVE  DataInv' /\ CursorInv'
<1>0. ConnectionInv /\ DataInv /\ CursorInv
      BY DEF CursorStepInv
<1>1. DataInv'
  <2>1. \A s \in Store : DbData(db'[s], rows)
        BY DEF DbMoves
  <2>2. \A t \in Tab : TabData(tabs'[t], rows)
        BY <1>0 DEF Moves, DataInv
  <2>3. \A k \in Socket : UpData(sockets'[k].up)
        BY <1>0 DEF SocketMoves, DataInv
  <2>4. gap' \in BOOLEAN
        BY <1>0 DEF DataInv
  <2> QED
      BY <1>0, <2>1, <2>2, <2>3, <2>4, DataStep
<1>2. ASSUME ~gap
      PROVE  SafeInv'
  <2>1. SafeInv
        BY <1>0, <1>2 DEF CursorInv
  <2>2. \A s \in Store : DbSafe(db'[s], rows)
        BY <1>2, <2>1 DEF DbMoves, SafeInv
  <2>3. ASSUME NEW t \in Tab
        PROVE  TabSafe(tabs'[t], Home(t)', rows)
    <3>1. TabSafe(tabs[t], Home(t), rows) /\ Moves(tabs[t], tabs'[t], rows, Home(t), Home(t)')
          BY <2>1 DEF SafeInv
    <3>2. LocalSafe(tabs'[t].localQueue, Home(t)')
          BY <3>1 DEF TabSafe, Moves
    <3>3. ASSUME tabs'[t].dbOpen
          PROVE  EventsSafe(tabs'[t].remoteQueue, Home(t)', rows)
      <4>1. EventsSafe(tabs[t].remoteQueue, Home(t), rows)
            BY <3>1, <3>3 DEF TabSafe, Moves
      <4>2. EventsFollow(tabs[t].remoteQueue, Home(t), tabs'[t].remoteQueue, Home(t)')
            BY <3>1, <3>3 DEF Moves, Follows
      <4> QED
          BY <4>1, <4>2, FollowsSafe
    <3> QED
        BY <3>2, <3>3 DEF TabSafe
  <2>4. ASSUME NEW k \in Socket, sockets'[k].state # "closed"
        PROVE  /\ sockets'[k].tab \in Tab
               /\ sockets'[k].cursor \in 0 .. LastId(rows)
               /\ \A t \in Tab : sockets'[k].tab = t =>
                     SocketSafe(k, sockets'[k], tabs'[t], Home(t)', rows)
    <3>0. PICK t : t = sockets[k].tab
          OBVIOUS
    <3>1. /\ sockets'[k].state = sockets[k].state /\ sockets'[k].tab = t
          /\ sockets'[k].cursor = sockets[k].cursor
          /\ UpSafe(sockets[k].up, Home(t)') => UpSafe(sockets'[k].up, Home(t)')
          BY <1>2, <2>4, <3>0 DEF SocketMoves
    <3>2. /\ t \in Tab /\ sockets[k].cursor \in 0 .. LastId(rows)
          /\ SocketSafe(k, sockets[k], tabs[t], Home(t), rows)
          BY <2>1, <2>4, <3>0, <3>1 DEF SafeInv
    <3>3. Home(t) \subseteq Home(t)'
          BY <1>0, <3>2, HomeGrows DEF DbMoves, Same
    <3>4. /\ tabs[t].open => tabs'[t].open
          /\ tabs'[t].dbOpen => tabs[t].dbOpen
          /\ tabs'[t].dbOpen =>
                KeepsAll(tabs[t].remoteQueue, Home(t), tabs'[t].remoteQueue, Home(t)', k)
          BY <3>2 DEF Moves, Follows
    <3>5. SocketSafe(k, sockets'[k], tabs'[t], Home(t)', rows)
          BY <3>1, <3>2, <3>3, <3>4, SocketStays
    <3> QED
        BY <3>1, <3>2, <3>5
  <2>5. ASSUME NEW t \in Tab, NEW k \in Socket, IsActive(sockets'[k]), tabs'[t].remote = k
        PROVE  sockets'[k].tab = t
    <3>1. IsActive(sockets[k]) /\ sockets'[k].tab = sockets[k].tab
          BY <2>5 DEF SocketMoves, IsActive
    <3>2. tabs[t].remote = k
          BY <2>5 DEF Moves, SameTab
    <3> QED
        BY <2>1, <3>1, <3>2 DEF SafeInv
  <2>6. rows' = rows
        BY DEF Same
  <2> QED
      BY <2>2, <2>3, <2>4, <2>5, <2>6 DEF SafeInv
<1>3. CursorInv'
      BY <1>2 DEF CursorInv
<1> QED
    BY <1>1, <1>3

-----------------------------------------------------------------------------
(* The parts of such a step.                                               *)

LEMMA DbStays ==
    ASSUME DataInv, db' = db
    PROVE  /\ db' = [s \in Store |-> db'[s]]
           /\ \A s \in Store : DbMoves(db[s], db'[s], rows, ~gap)
BY DEF DataInv, DbMoves

LEMMA OneDbMoves ==
    ASSUME DataInv, NEW s, NEW d, db' = [db EXCEPT ![s] = d],
           s \in Store => DbMoves(db[s], d, rows, ~gap)
    PROVE  /\ db' = [x \in Store |-> db'[x]]
           /\ \A x \in Store : DbMoves(db[x], db'[x], rows, ~gap)
<1>1. \A x \in Store : db'[x] = IF x = s THEN d ELSE db[x]
      BY DEF DataInv
<1>2. \A x \in Store : DbMoves(db[x], db[x], rows, ~gap)
      BY DEF DataInv, DbMoves
<1>3. db' = [x \in Store |-> db'[x]]
      BY DEF DataInv
<1> QED
    BY <1>1, <1>2, <1>3

LEMMA HomeStays ==
    ASSUME db' = db, storeOf' = storeOf, NEW t
    PROVE  Home(t)' = Home(t)
BY DEF Home, Stored

LEMMA OneMoves ==
    ASSUME ConnectionInv, NEW t, NEW tab,
           \A x \in Tab : Home(x) \subseteq Home(x)',
           t \in Tab => Moves(tabs[t], tab, rows, Home(t), Home(t)')
    PROVE  \A x \in Tab : Moves(tabs[x], [tabs EXCEPT ![t] = tab][x], rows, Home(x), Home(x)')
<1>1. \A x \in Tab : [tabs EXCEPT ![t] = tab][x] = IF x = t THEN tab ELSE tabs[x]
      BY DEF ConnectionInv
<1>2. \A x \in Tab : Moves(tabs[x], tabs[x], rows, Home(x), Home(x)')
      BY TabFact, MovesNot
<1> QED
    BY <1>1, <1>2

(* Commits are passed on to the other tabs of the browser.                 *)
LEMMA AnnounceMoves ==
    ASSUME DataInv, NEW t, NEW ts,
           \A x \in Tab : Moves(tabs[x], ts[x], rows, Home(x), Home(x)'),
           NEW batch, BatchOK(batch), NEW origin,
           origin \/ \A o \in Siblings(t) : Refs(batch) \subseteq Home(o)',
           NEW x \in Tab
    PROVE  Moves(tabs[x], Announce(ts, t, batch, origin)[x], rows, Home(x), Home(x)')
<1> DEFINE new == Announce(ts, t, batch, origin)
           job == [op |-> "event", commits |-> batch, remoteOrigin |-> origin]
           q == Append(ts[x].localQueue, job)
<1>1. CASE x \notin Siblings(t)
      BY <1>1 DEF Announce
<1>2. CASE x \in Siblings(t)
  <2>1. new[x] = [ts[x] EXCEPT !.localQueue = q]
        BY <1>2 DEF Announce
  <2>2. TabInv(ts[x]) /\ TabData(ts[x], rows)
        BY DEF Moves, SameTab, DataInv
  <2>3. LocalJobData(job)
        BY DEF LocalJobData
  <2>4. job.op = "event" => job.remoteOrigin \/ Refs(job.commits) \subseteq Home(x)'
        BY <1>2
  <2> HIDE DEF job
  <2>5. LocalData(ts[x].localQueue)
        BY <2>2 DEF TabData
  <2>6. LocalData(q)
        BY <2>3, <2>4, <2>5, LocalAppend
  <2>7. LocalSafe(ts[x].localQueue, Home(x)') => LocalSafe(q, Home(x)')
        BY <2>3, <2>4, <2>5, LocalAppend
  <2> HIDE DEF q, new
  <2>8. Moves(ts[x], [ts[x] EXCEPT !.localQueue = q], rows, Home(x)', Home(x)')
        BY <2>2, <2>6, <2>7, MovesLocal
  <2>9. Moves(tabs[x], ts[x], rows, Home(x), Home(x)')
        OBVIOUS
  <2>10. Moves(tabs[x], new[x], rows, Home(x), Home(x)')
         BY <2>1, <2>8, <2>9, MovesOn
  <2> QED
      BY <2>10 DEF new
<1> QED
    BY <1>1, <1>2

LEMMA SocketStill ==
    ASSUME DataInv, NEW k \in Socket, NEW now
    PROVE  SocketMoves(sockets[k], sockets[k], now, ~gap)
BY DEF SocketMoves

LEMMA SocketEnds ==
    ASSUME NEW socket, NEW now
    PROVE  SocketMoves(socket, ClosedSocket, now, ~gap)
<1>1. ClosedSocket.state = "closed" /\ ClosedSocket.up = <<>>
      BY DEF ClosedSocket, NewSocket
<1>2. UpData(<<>>)
      BY EmptyQueue DEF UpData
<1> QED
    BY <1>1, <1>2 DEF SocketMoves

(* A batch is sent.                                                        *)
LEMMA SentMoves ==
    ASSUME ConnectionInv, DataInv, NEW x, NEW batch, BatchOK(batch), NEW now,
           NEW k \in Socket,
           ~gap /\ x = k /\ IsActive(sockets[k]) => Refs(batch) \subseteq now
    PROVE  SocketMoves(sockets[k], Send(sockets, x, batch)[k], now, ~gap)
<1> DEFINE a == sockets[k]
           m == [op |-> "commits", commits |-> batch]
           up == Append(a.up, m)
           b == [a EXCEPT !.up = up]
<1>1. CASE Send(sockets, x, batch)[k] = a
      BY <1>1, SocketStill
<1>2. CASE Send(sockets, x, batch)[k] # a
  <2>1. Send(sockets, x, batch)[k] = b /\ x = k /\ IsActive(a)
        BY <1>2 DEF Send, IsActive
  <2>2. SocketShape(a) /\ UpData(a.up)
        BY DEF ConnectionInv, DataInv
  <2>3. b.state = a.state /\ b.tab = a.tab /\ b.cursor = a.cursor /\ b.up = up
        BY <2>2 DEF SocketShape
  <2>4. IsQueue(up) /\ Elements(up) = Elements(a.up) \cup {m}
        BY <2>2, QueueAppend DEF UpData
  <2>5. m.commits = batch
        OBVIOUS
  <2>6. ~gap => Refs(batch) \subseteq now
        BY <2>1
  <2> HIDE DEF m, up, b, a
  <2>7. UpData(up)
        BY <2>2, <2>4, <2>5 DEF UpData
  <2>8. ~gap => (UpSafe(a.up, now) => UpSafe(up, now))
        BY <2>4, <2>5, <2>6 DEF UpSafe
  <2>9. SocketMoves(a, b, now, ~gap)
        BY <2>3, <2>7, <2>8 DEF SocketMoves
  <2> QED
      BY <2>1, <2>9 DEF a
<1> QED
    BY <1>1, <1>2

-----------------------------------------------------------------------------
(* Steps of one store.                                                     *)

Unmoved == UNCHANGED <<storeOf, db, rows, memory, gap>>

LEMMA SocketsStep ==
    ASSUME CursorStepInv, NEW t, NEW tab, tabs' = [tabs EXCEPT ![t] = tab], Unmoved,
           t \in Tab => Moves(tabs[t], tab, rows, Home(t), Home(t)),
           \A k \in Socket : \A x : sockets[k].tab = x =>
               SocketMoves(sockets[k], sockets'[k], Home(x), ~gap),
           budget' \in [Bounded -> Nat], replaced' \in BOOLEAN
    PROVE  DataInv' /\ CursorInv'
<1>1. ConnectionInv /\ DataInv
      BY DEF CursorStepInv
<1>2. /\ db' = [s \in Store |-> db'[s]]
      /\ \A s \in Store : DbMoves(db[s], db'[s], rows, ~gap)
      BY <1>1, DbStays DEF Unmoved
<1>3. \A x : Home(x)' = Home(x)
      BY HomeStays DEF Unmoved
<1>4. \A x \in Tab : Moves(tabs[x], tabs'[x], rows, Home(x), Home(x)')
      BY <1>1, <1>3, OneMoves
<1>5. \A k \in Socket : \A x : sockets[k].tab = x =>
          SocketMoves(sockets[k], sockets'[k], Home(x)', ~gap)
      BY <1>3
<1>6. Same /\ gap' = gap
      BY DEF Unmoved, Same
<1> QED
    BY <1>2, <1>4, <1>5, <1>6, MovedStep

LEMMA QuietStep ==
    ASSUME CursorStepInv, NEW t, NEW tab, tabs' = [tabs EXCEPT ![t] = tab],
           Unmoved, sockets' = sockets, budget' \in [Bounded -> Nat], replaced' = replaced,
           t \in Tab => Moves(tabs[t], tab, rows, Home(t), Home(t))
    PROVE  DataInv' /\ CursorInv'
<1>1. \A k \in Socket : \A x : sockets[k].tab = x =>
          SocketMoves(sockets[k], sockets'[k], Home(x), ~gap)
      BY SocketStill DEF CursorStepInv
<1>2. replaced' \in BOOLEAN
      BY DEF CursorStepInv, DataInv
<1> QED
    BY <1>1, <1>2, SocketsStep

LEMMA Facts ==
    ASSUME CursorStepInv, NEW t \in Tab
    PROVE  /\ TabInv(tabs[t]) /\ TabData(tabs[t], rows)
           /\ QueueData(tabs[t].remoteQueue, rows) /\ LocalData(tabs[t].localQueue)
           /\ tabs[t].remoteQueue # <<>> =>
                  RemoteJobData(Head(tabs[t].remoteQueue), rows)
           /\ tabs[t].localQueue # <<>> => LocalJobData(Head(tabs[t].localQueue))
           /\ budget \in [Bounded -> Nat] /\ DbData(db[storeOf[t]], rows)
           /\ storeOf[t] \in Store
<1>1. ConnectionInv /\ DataInv
      BY DEF CursorStepInv
<1>2. TabInv(tabs[t]) /\ TabData(tabs[t], rows)
      BY <1>1, TabFact DEF DataInv
<1>3. QueueData(tabs[t].remoteQueue, rows) /\ LocalData(tabs[t].localQueue)
      BY <1>2 DEF TabData
<1>4. IsQueue(tabs[t].remoteQueue)
      BY <1>2 DEF TabInv
<1>5. tabs[t].remoteQueue # <<>> =>
          Head(tabs[t].remoteQueue) \in Elements(tabs[t].remoteQueue)
      BY <1>4, QueueTail
<1>6. tabs[t].localQueue # <<>> => LocalJobData(Head(tabs[t].localQueue))
      BY <1>3, LocalTail
<1> QED
    BY <1>1, <1>2, <1>3, <1>5, <1>6 DEF QueueData, DataInv

LEMMA FreshBatch ==
    ASSUME NEW r
    PROVE  BatchOK(<<Fresh(r)>>)
<1> DEFINE x == Fresh(r)
<1>1. x.syncId \in Nat
      BY DEF Fresh
<1> HIDE DEF x
<1>2. <<x>> \in Seq({x}) /\ DOMAIN <<x>> = 1 .. 1 /\ <<x>>[1] = x
      OBVIOUS
<1>3. IsQueue(<<x>>)
      BY <1>2 DEF IsQueue
<1>4. ASSUME NEW n \in DOMAIN <<x>>
      PROVE  <<x>>[n].syncId \in Nat
  <2>1. n = 1
        BY <1>2
  <2> QED
      BY <2>1, <1>1, <1>2
<1>5. BatchOK(<<x>>)
      BY <1>3, <1>4 DEF BatchOK
<1> QED
    BY <1>5 DEF x

LEMMA EditSafe ==
    ASSUME CursorStepInv, NEW t \in Tab, Edit(t)
    PROVE  DataInv' /\ CursorInv'
<1> DEFINE r == EditRef(Childless(tabs[t].known), t)
           known == tabs[t].known \cup {r}
           job == [op |-> "update", commits |-> <<Fresh(r)>>]
           queue == Append(tabs[t].localQueue, job)
           knows == [tabs[t] EXCEPT !.known = known]
           tab == [knows EXCEPT !.localQueue = queue]
<1>1. tabs' = [tabs EXCEPT ![t].known = known, ![t].localQueue = queue]
      BY DEF Edit
<1>2. TabInv(tabs[t]) /\ TabData(tabs[t], rows) /\ LocalData(tabs[t].localQueue)
      BY Facts
<1>3. tabs' = [tabs EXCEPT ![t] = tab]
      BY <1>1, <1>2 DEF CursorStepInv, ConnectionInv, TabInv, TabShape
<1>4. LocalJobData(job) /\ job.op # "event"
      BY FreshBatch DEF LocalJobData
<1>5. Moves(tabs[t], knows, rows, Home(t), Home(t))
      BY <1>2, MovesFields
<1>6. knows.localQueue = tabs[t].localQueue /\ TabInv(knows)
      BY <1>2, <1>5 DEF Moves, SameTab, TabInv, TabShape
<1> HIDE DEF knows, job
<1>7. /\ LocalData(tabs[t].localQueue) => LocalData(queue)
      /\ LocalSafe(tabs[t].localQueue, Home(t)) => LocalSafe(queue, Home(t))
      BY <1>2, <1>4, LocalAppend
<1> HIDE DEF queue
<1>8. Moves(knows, tab, rows, Home(t), Home(t))
      BY <1>6, <1>7, MovesLocal
<1> HIDE DEF tab
<1>9. Moves(tabs[t], tab, rows, Home(t), Home(t))
      BY <1>5, <1>8, MovesOn
<1>10. budget' \in [Bounded -> Nat]
       BY SpendNat DEF Edit, CursorStepInv, Bounded
<1>11. Unmoved /\ sockets' = sockets /\ replaced' = replaced
       BY DEF Edit, Unmoved, server
<1> QED
    BY <1>3, <1>9, <1>10, <1>11, QuietStep

LEMMA PromoteSafe ==
    ASSUME CursorStepInv, NEW t \in Tab, Promote(t)
    PROVE  DataInv' /\ CursorInv'
<1> DEFINE led == [tabs[t] EXCEPT !.leader = TRUE]
<1>1. Moves(tabs[t], led, rows, Home(t), Home(t))
      BY Facts, MovesFields
<1>2. tabs' = [tabs EXCEPT ![t] = ConnectRemote(led)]
      BY DEF Promote
<1> HIDE DEF led
<1>3. Moves(led, ConnectRemote(led), rows, Home(t), Home(t))
      BY <1>1, MovesConnectRemote DEF Moves, SameTab
<1>4. Moves(tabs[t], ConnectRemote(led), rows, Home(t), Home(t))
      BY <1>1, <1>3, MovesOn
<1>5. budget' \in [Bounded -> Nat]
  <2>1. Spend("leaders") \/ budget' = budget
        BY DEF Promote
  <2> QED
      BY <2>1, SpendNat, Facts DEF CursorStepInv, Bounded
<1>6. Unmoved /\ sockets' = sockets /\ replaced' = replaced
      BY DEF Promote, Unmoved, server
<1> QED
    BY <1>2, <1>4, <1>5, <1>6, QuietStep

LEMMA DemoteSafe ==
    ASSUME CursorStepInv, NEW t \in Tab, Demote(t)
    PROVE  DataInv' /\ CursorInv'
<1> DEFINE follower == [tabs[t] EXCEPT !.leader = FALSE]
<1>1. Moves(tabs[t], follower, rows, Home(t), Home(t))
      BY Facts, MovesFields
<1>2. tabs' = [tabs EXCEPT ![t] = CloseRemote(follower, FALSE)]
      BY DEF Demote
<1> HIDE DEF follower
<1>3. Moves(follower, CloseRemote(follower, FALSE), rows, Home(t), Home(t))
      BY <1>1, MovesCloseRemote DEF Moves, SameTab
<1>4. Moves(tabs[t], CloseRemote(follower, FALSE), rows, Home(t), Home(t))
      BY <1>1, <1>3, MovesOn
<1>5. Unmoved /\ sockets' = sockets /\ replaced' = replaced /\ budget' = budget
      BY DEF Demote, Unmoved, server, counters
<1> QED
    BY <1>2, <1>4, <1>5, Facts, QuietStep

LEMMA ReconnectSafe ==
    ASSUME CursorStepInv, NEW t \in Tab, Reconnect(t)
    PROVE  DataInv' /\ CursorInv'
<1> DEFINE fired == [tabs[t] EXCEPT !.timer = FALSE]
<1>1. Moves(tabs[t], fired, rows, Home(t), Home(t))
      BY Facts, MovesFields
<1>2. tabs' = [tabs EXCEPT ![t] = ConnectRemote(fired)]
      BY DEF Reconnect
<1> HIDE DEF fired
<1>3. Moves(fired, ConnectRemote(fired), rows, Home(t), Home(t))
      BY <1>1, MovesConnectRemote DEF Moves, SameTab
<1>4. Moves(tabs[t], ConnectRemote(fired), rows, Home(t), Home(t))
      BY <1>1, <1>3, MovesOn
<1>5. Unmoved /\ sockets' = sockets /\ replaced' = replaced /\ budget' = budget
      BY DEF Reconnect, Unmoved, server, counters
<1> QED
    BY <1>2, <1>4, <1>5, Facts, QuietStep

LEMMA ShutdownSafe ==
    ASSUME CursorStepInv, NEW t \in Tab, Shutdown(t)
    PROVE  DataInv' /\ CursorInv'
<1>1. tabs' = [tabs EXCEPT ![t] = ShutDown(tabs[t])]
      BY DEF Shutdown
<1>2. Moves(tabs[t], ShutDown(tabs[t]), rows, Home(t), Home(t))
      BY Facts, MovesShutDown
<1>3. Unmoved /\ sockets' = sockets /\ replaced' = replaced
      BY DEF Shutdown, Unmoved, server
<1>4. budget' \in [Bounded -> Nat]
      BY SpendNat DEF Shutdown, CursorStepInv, Bounded
<1> QED
    BY <1>1, <1>2, <1>3, <1>4, QuietStep

LEMMA ConnectClosedSafe ==
    ASSUME CursorStepInv, NEW t \in Tab, ConnectClosed(t)
    PROVE  DataInv' /\ CursorInv'
<1> DEFINE fired == [tabs[t] EXCEPT !.timer = FALSE]
           done == DoneRemote(tabs[t])
<1>1. /\ tabs[t].remoteQueue # <<>> /\ Head(tabs[t].remoteQueue).op = "connect"
      /\ \/ tabs' = [tabs EXCEPT ![t] = DoneRemote(fired)]
         \/ tabs' = [tabs EXCEPT ![t] = CloseRemote(done, TRUE)]
      BY DEF ConnectClosed, NextRemote
<1>2. Moves(tabs[t], fired, rows, Home(t), Home(t))
      BY Facts, MovesFields
<1>3. fired.remoteQueue = tabs[t].remoteQueue
      BY Facts DEF TabInv, TabShape
<1> HIDE DEF fired, done
<1>4. TabInv(fired) /\ TabInv(tabs[t])
      BY <1>2, Facts DEF Moves, SameTab
<1>5. Moves(fired, DoneRemote(fired), rows, Home(t), Home(t))
      BY <1>1, <1>3, <1>4, MovesDoneRemote
<1>6. Moves(tabs[t], DoneRemote(fired), rows, Home(t), Home(t))
      BY <1>2, <1>5, MovesOn
<1>7. Moves(tabs[t], done, rows, Home(t), Home(t))
      BY <1>1, <1>4, MovesDoneRemote DEF done
<1>8. Moves(done, CloseRemote(done, TRUE), rows, Home(t), Home(t))
      BY <1>7, MovesCloseRemote DEF Moves, SameTab
<1>9. Moves(tabs[t], CloseRemote(done, TRUE), rows, Home(t), Home(t))
      BY <1>7, <1>8, MovesOn
<1>10. Unmoved /\ sockets' = sockets /\ replaced' = replaced /\ budget' = budget
       BY DEF ConnectClosed, Unmoved, server, counters
<1>11. budget' \in [Bounded -> Nat]
       BY <1>10, Facts
<1> QED
    BY <1>1, <1>6, <1>9, <1>10, <1>11, QuietStep

LEMMA OnErrorSafe ==
    ASSUME CursorStepInv, NEW t \in Tab, OnError(t)
    PROVE  DataInv' /\ CursorInv'
<1> DEFINE event == Head(tabs[t].remoteQueue)
           done == DoneRemote(tabs[t])
<1>1. /\ tabs[t].remoteQueue # <<>> /\ event.op = "error"
      /\ tabs' = [tabs EXCEPT ![t] = CloseRemote(done, event.reconnect)]
      BY DEF OnError, NextRemote
<1>2. event.reconnect \in BOOLEAN
      BY <1>1, Facts DEF RemoteJobData
<1>3. Moves(tabs[t], done, rows, Home(t), Home(t))
      BY <1>1, Facts, MovesDoneRemote
<1> HIDE DEF done, event
<1>4. Moves(done, CloseRemote(done, event.reconnect), rows, Home(t), Home(t))
      BY <1>2, <1>3, MovesCloseRemote DEF Moves, SameTab
<1>5. Moves(tabs[t], CloseRemote(done, event.reconnect), rows, Home(t), Home(t))
      BY <1>3, <1>4, MovesOn
<1>6. Unmoved /\ sockets' = sockets /\ replaced' = replaced /\ budget' = budget
      BY DEF OnError, Unmoved, server, counters
<1>7. budget' \in [Bounded -> Nat]
      BY <1>6, Facts
<1> QED
    BY <1>1, <1>5, <1>6, <1>7, QuietStep

LEMMA CloseDatabaseSafe ==
    ASSUME CursorStepInv, NEW t \in Tab, CloseDatabase(t)
    PROVE  DataInv' /\ CursorInv'
<1> DEFINE tab == [tabs[t] EXCEPT !.dbOpen = FALSE, !.leader = FALSE]
<1>1. TabInv(tabs[t]) /\ tabs[t].closed /\ ~ClosePending(tabs[t].remoteQueue)
      BY Facts DEF CloseDatabase, ClosePending, ToSet
<1>2. tabs[t].remote = NoSocket
      BY <1>1 DEF TabInv
<1>3. SameTab(tabs[t], tab)
      BY <1>1, <1>2 DEF SameTab, TabInv, TabShape
<1>4. /\ tab.open = tabs[t].open /\ tab.dbOpen = FALSE /\ tab.leader = FALSE
      /\ tab.timer = tabs[t].timer /\ tab.localQueue = tabs[t].localQueue
      /\ tab.remoteQueue = tabs[t].remoteQueue
      BY <1>1 DEF TabInv, TabShape
<1>5. tabs' = [tabs EXCEPT ![t] = tab]
      BY DEF CloseDatabase
<1> HIDE DEF tab
<1>6. Moves(tabs[t], tab, rows, Home(t), Home(t))
      BY <1>3, <1>4 DEF Moves, TabData
<1>7. Unmoved /\ sockets' = sockets /\ replaced' = replaced /\ budget' = budget
      BY DEF CloseDatabase, Unmoved, server, counters
<1>8. budget' \in [Bounded -> Nat]
      BY <1>7, Facts
<1> QED
    BY <1>5, <1>6, <1>7, <1>8, QuietStep

LEMMA LoadSafe ==
    ASSUME CursorStepInv, NEW t \in Tab, Load(t)
    PROVE  DataInv' /\ CursorInv'
<1> DEFINE known == tabs[t].known \cup Stored(db[storeOf[t]])
           missed == tabs[t].missed \cup Unheard(t)
           knows == [tabs[t] EXCEPT !.known = known]
           misses == [knows EXCEPT !.missed = missed]
           tab == DoneLocal(misses)
<1>1. tabs' = [tabs EXCEPT ![t] = tab] /\ tabs[t].localQueue # <<>>
      BY LoadedIs DEF Load, NextLocal, Loaded
<1> HIDE DEF known, missed
<1>5. Moves(tabs[t], knows, rows, Home(t), Home(t))
      BY Facts, MovesFields
<1>6. knows.localQueue = tabs[t].localQueue
      BY Facts DEF TabInv, TabShape
<1> HIDE DEF knows
<1>7. TabInv(knows) /\ TabData(knows, rows)
      BY <1>5, Facts DEF Moves, SameTab
<1>8. Moves(knows, misses, rows, Home(t), Home(t))
      BY <1>7, MovesFields
<1>9. misses.localQueue = knows.localQueue
      BY <1>7 DEF TabInv, TabShape
<1> HIDE DEF misses
<1>10. TabInv(misses) /\ TabData(misses, rows)
       BY <1>7, <1>8 DEF Moves, SameTab
<1>11. Moves(misses, tab, rows, Home(t), Home(t))
       BY <1>1, <1>6, <1>9, <1>10, MovesDoneLocal
<1>2. Moves(tabs[t], tab, rows, Home(t), Home(t))
      BY <1>5, <1>8, <1>11, MovesOn
<1>3. Unmoved /\ sockets' = sockets /\ replaced' = replaced /\ budget' = budget
      BY DEF Load, Unmoved, server, counters
<1>4. budget' \in [Bounded -> Nat]
      BY <1>3, Facts
<1> HIDE DEF tab
<1> QED
    BY <1>1, <1>2, <1>3, <1>4, QuietStep

-----------------------------------------------------------------------------
(* Steps that send to the server.                                          *)

(* The remote of a store is a socket of its own.                           *)
LEMMA OwnSocket ==
    ASSUME CursorStepInv, ~gap, NEW t \in Tab, NEW k \in Socket,
           tabs[t].remote = k, IsActive(sockets[k]), NEW x, sockets[k].tab = x
    PROVE  x = t
BY DEF CursorStepInv, CursorInv, SafeInv

LEMMA UploadSafe ==
    ASSUME CursorStepInv, NEW t \in Tab, Upload(t)
    PROVE  DataInv' /\ CursorInv'
<1> DEFINE batch == CommitsForRemote(db[storeOf[t]])
           tab == DoneRemote(tabs[t])
           remote == tabs[t].remote
<1>1. /\ tabs[t].remoteQueue # <<>> /\ Head(tabs[t].remoteQueue).op = "upload"
      /\ tabs' = [tabs EXCEPT ![t] = tab] /\ sockets' = Send(sockets, remote, batch)
      BY DEF Upload, NextRemote
<1>2. Moves(tabs[t], tab, rows, Home(t), Home(t))
      BY <1>1, Facts, MovesDoneRemote
<1>3. BatchOK(batch) /\ Refs(batch) \subseteq Home(t)
      BY Facts, UploadData DEF Home
<1> HIDE DEF batch, tab
<1>4. ASSUME NEW k \in Socket, NEW x, sockets[k].tab = x
      PROVE  SocketMoves(sockets[k], sockets'[k], Home(x), ~gap)
  <2>1. ~gap /\ remote = k /\ IsActive(sockets[k]) => Refs(batch) \subseteq Home(x)
        BY <1>3, <1>4, OwnSocket
  <2> QED
      BY <1>1, <1>3, <2>1, SentMoves DEF CursorStepInv
<1>5. Unmoved /\ replaced' = replaced /\ budget' = budget
      BY DEF Upload, Unmoved, server, counters
<1>6. budget' \in [Bounded -> Nat] /\ replaced' \in BOOLEAN
      BY <1>5, Facts DEF CursorStepInv, DataInv
<1> QED
    BY <1>1, <1>2, <1>4, <1>5, <1>6, SocketsStep

LEMMA LocalEventSafe ==
    ASSUME CursorStepInv, NEW t \in Tab, LocalEvent(t)
    PROVE  DataInv' /\ CursorInv'
<1> DEFINE event == Head(tabs[t].localQueue)
           batch == event.commits
           known == tabs[t].known \cup Refs(batch)
           tab == DoneLocal([tabs[t] EXCEPT !.known = known])
           remote == tabs[t].remote
<1>1. /\ tabs[t].localQueue # <<>> /\ event.op = "event"
      /\ tabs' = [tabs EXCEPT ![t] = tab]
      /\ \/ sockets' = sockets
         \/ ~event.remoteOrigin /\ sockets' = Send(sockets, remote, batch)
      BY DEF LocalEvent, NextLocal, PassesOn
<1>2. BatchOK(batch) /\ event \in Elements(tabs[t].localQueue)
      BY <1>1, Facts, LocalTail DEF LocalJobData
<1>3. ~gap => TabSafe(tabs[t], Home(t), rows)
      BY DEF CursorStepInv, CursorInv, SafeInv
<1>4. ~gap /\ ~event.remoteOrigin => Refs(batch) \subseteq Home(t)
      BY <1>1, <1>2, <1>3 DEF TabSafe, LocalSafe
<1> HIDE DEF known
<1>5. Moves(tabs[t], tab, rows, Home(t), Home(t))
      BY <1>1, Facts, MovesLearned
<1> HIDE DEF tab
<1>6. ASSUME NEW k \in Socket, NEW x, sockets[k].tab = x
      PROVE  SocketMoves(sockets[k], sockets'[k], Home(x), ~gap)
  <2>1. CASE sockets' = sockets
        BY <2>1, SocketStill DEF CursorStepInv
  <2>2. CASE ~event.remoteOrigin /\ sockets' = Send(sockets, remote, batch)
    <3>1. ~gap /\ remote = k /\ IsActive(sockets[k]) => Refs(batch) \subseteq Home(x)
          BY <1>4, <1>6, <2>2, OwnSocket
    <3> HIDE DEF batch
    <3> QED
        BY <1>2, <2>2, <3>1, SentMoves DEF CursorStepInv
  <2> QED
      BY <1>1, <2>1, <2>2
<1>7. Unmoved /\ replaced' = replaced /\ budget' = budget
      BY DEF LocalEvent, Unmoved, server, counters
<1>8. budget' \in [Bounded -> Nat] /\ replaced' \in BOOLEAN
      BY <1>7, Facts DEF CursorStepInv, DataInv
<1> QED
    BY <1>1, <1>5, <1>6, <1>7, <1>8, SocketsStep

(* A socket that was being closed is closed.                               *)
LEMMA SocketClosesSafe ==
    ASSUME CursorStepInv, NEW k \in Socket, SocketCloses(k)
    PROVE  DataInv' /\ CursorInv'
<1>0. PICK t : t = sockets[k].tab
      OBVIOUS
<1> DEFINE job == ErrorEvent(k, TRUE)
           queue == Append(tabs[t].remoteQueue, job)
           tab == [tabs[t] EXCEPT !.remoteQueue = queue]
<1>1. /\ sockets' = [sockets EXCEPT ![k] = ClosedSocket]
      /\ tabs' = [tabs EXCEPT ![t] = tab]
      BY <1>0 DEF SocketCloses
<1>2. ~IsEvent(job) /\ RemoteJobData(job, rows)
      BY DEF ErrorEvent, IsEvent, RemoteJobData
<1> HIDE DEF job
<1>3. ASSUME t \in Tab
      PROVE  Moves(tabs[t], tab, rows, Home(t), Home(t))
  <2>1. TabInv(tabs[t])
        BY <1>3, Facts
  <2>2. SameTab(tabs[t], tab)
        BY <2>1, AppendQueue, TabQueue DEF TabInv
  <2> QED
      BY <1>2, <2>1, <2>2, MovesAppend
<1>4. ASSUME NEW x \in Socket, NEW o, sockets[x].tab = o
      PROVE  SocketMoves(sockets[x], sockets'[x], Home(o), ~gap)
  <2>1. sockets'[x] = IF x = k THEN ClosedSocket ELSE sockets[x]
        BY <1>1 DEF CursorStepInv, ConnectionInv
  <2> QED
      BY <2>1, SocketStill, SocketEnds DEF CursorStepInv
<1> HIDE DEF tab
<1>5. Unmoved /\ replaced' = replaced /\ budget' = budget
      BY DEF SocketCloses, Unmoved, server, counters
<1>6. budget' \in [Bounded -> Nat] /\ replaced' \in BOOLEAN
      BY <1>5 DEF CursorStepInv, DataInv
<1> QED
    BY <1>1, <1>3, <1>4, <1>5, <1>6, SocketsStep

-----------------------------------------------------------------------------
(* Steps that write to a database.                                         *)

(* One database changes, one store, and perhaps others' local queues.      *)
LEMMA StoredStep ==
    ASSUME CursorStepInv, NEW t \in Tab, NEW d,
           db' = [db EXCEPT ![storeOf[t]] = d],
           DbMoves(db[storeOf[t]], d, rows, ~gap),
           storeOf' = storeOf
    PROVE  /\ db' = [s \in Store |-> db'[s]]
           /\ \A s \in Store : DbMoves(db[s], db'[s], rows, ~gap)
           /\ \A x \in Tab : Home(x) \subseteq Home(x)'
           /\ \A x \in Tab : storeOf[x] = storeOf[t] => Home(x)' = Stored(d)
<1>1. DataInv
      BY DEF CursorStepInv
<1>2. /\ db' = [s \in Store |-> db'[s]]
      /\ \A s \in Store : DbMoves(db[s], db'[s], rows, ~gap)
      BY <1>1, OneDbMoves
<1>3. \A s \in Store : Stored(db[s]) \subseteq Stored(db'[s])
      BY <1>2 DEF DbMoves
<1>4. \A x \in Tab : Home(x) \subseteq Home(x)'
      BY <1>1, <1>3, HomeGrows
<1>5. ASSUME NEW x \in Tab, storeOf[x] = storeOf[t]
      PROVE  Home(x)' = Stored(d)
  <2>1. storeOf[t] \in Store
        BY Facts
  <2>2. db'[storeOf[x]] = d
        BY <1>1, <1>5, <2>1 DEF DataInv
  <2> QED
      BY <2>2 DEF Home, Stored
<1> QED
    BY <1>2, <1>4, <1>5

(* The same when the database is closed and nothing is written.            *)
LEMMA UnstoredStep ==
    ASSUME CursorStepInv, db' = db, storeOf' = storeOf
    PROVE  /\ db' = [s \in Store |-> db'[s]]
           /\ \A s \in Store : DbMoves(db[s], db'[s], rows, ~gap)
           /\ \A x \in Tab : Home(x)' = Home(x)
BY DbStays, HomeStays DEF CursorStepInv

(* The first event of a queue: what is needed at its cursor is stored, or  *)
(* persisted by it.                                                        *)
LEMMA FirstEvent ==
    ASSUME CursorStepInv, ~gap, NEW t \in Tab, tabs[t].remoteQueue # <<>>, tabs[t].dbOpen,
           NEW job, job = Head(tabs[t].remoteQueue), job.op \in {"persist", "ack"},
           NEW r \in Needed(rows, job.cursor)
    PROVE  r \in Home(t) \/ (job.op = "persist" /\ r \in Refs(job.commits))
<1> DEFINE q == tabs[t].remoteQueue
<1>1. EventsSafe(q, Home(t), rows)
      BY DEF CursorStepInv, CursorInv, SafeInv, TabSafe
<1>2. IsQueue(q)
      BY Facts DEF TabInv
<1>3. 1 \in DOMAIN q /\ q[1] = job
      BY <1>2, QueueDomain, QueueTail
<1> HIDE DEF q
<1>4. IsEvent(job)
      BY DEF IsEvent
<1>5. IsFound(q, 1, Origin(job), Home(t), r)
      BY <1>1, <1>3, <1>4 DEF EventsSafe
<1>6. r \in Home(t) \/ Brings(q[1], Origin(job), r)
      BY <1>5 DEF IsFound
<1> QED
    BY <1>3, <1>6 DEF Brings

LEMMA PersistSafe ==
    ASSUME CursorStepInv, NEW t \in Tab, Persist(t)
    PROVE  DataInv' /\ CursorInv'
<1> DEFINE event == Head(tabs[t].remoteQueue)
           tab == DoneRemote(tabs[t])
           d == db[storeOf[t]]
           added == AddCommits(d, event.commits, TRUE)
           e == UpsertRemoteSyncInfo(added, event.cursor)
<1>1. /\ tabs[t].remoteQueue # <<>> /\ event.op = "persist"
      /\ tabs' = [tabs EXCEPT ![t] = tab] /\ sockets' = sockets
      BY DEF Persist, NextRemote
<1>2. /\ BatchOK(event.commits) /\ Refs(event.commits) \subseteq RefsOf(rows)
      /\ event.cursor \in 0 .. LastId(rows)
      BY <1>1, Facts DEF RemoteJobData, IsEvent
<1>3. Same /\ gap' = gap /\ replaced' = replaced /\ budget' = budget
      BY DEF Persist, Same, server, counters
<1>4. budget' \in [Bounded -> Nat] /\ replaced' \in BOOLEAN
      BY <1>3, Facts DEF CursorStepInv, DataInv
<1>5. \A k \in Socket : \A x : sockets[k].tab = x =>
          SocketMoves(sockets[k], sockets'[k], Home(x)', ~gap)
      BY <1>1, SocketStill DEF CursorStepInv
<1>6. TabInv(tabs[t]) /\ DbData(d, rows) /\ ConnectionInv
      BY Facts DEF CursorStepInv
<1>7. CASE ~tabs[t].dbOpen
  <2>1. db' = db
        BY <1>7 DEF Persist
  <2>2. /\ db' = [s \in Store |-> db'[s]]
        /\ \A s \in Store : DbMoves(db[s], db'[s], rows, ~gap)
        /\ \A x \in Tab : Home(x)' = Home(x)
        BY <1>3, <2>1, UnstoredStep DEF Same
  <2>3. Moves(tabs[t], tab, rows, Home(t), Home(t)')
        BY <1>1, <1>6, <1>7, <2>2, MovesDoneRemote
  <2> HIDE DEF tab
  <2>4. \A x \in Tab : Moves(tabs[x], tabs'[x], rows, Home(x), Home(x)')
        BY <1>1, <1>6, <2>2, <2>3, OneMoves
  <2> QED
      BY <1>3, <1>4, <1>5, <2>2, <2>4, MovedStep
<1>8. CASE tabs[t].dbOpen
  <2>1. db' = [db EXCEPT ![storeOf[t]] = e]
        BY <1>8, <1>6 DEF Persist
  <2>2. DbIs(added, rows, Stored(d) \cup Refs(event.commits), d.lastSyncCursor)
        BY <1>2, <1>6, AddCommitsData
  <2> HIDE DEF added
  <2>3. DbIs(e, rows, Stored(added), event.cursor)
        BY <1>2, <2>2, CursorData DEF DbIs
  <2>4. /\ DbData(e, rows) /\ Stored(e) = Stored(d) \cup Refs(event.commits)
        /\ e.lastSyncCursor = event.cursor
        BY <2>2, <2>3 DEF DbIs
  <2> HIDE DEF e
  <2>5. ASSUME ~gap
        PROVE  DbSafe(e, rows)
        BY <1>1, <1>8, <2>4, <2>5, FirstEvent DEF DbSafe, Home
  <2>6. DbMoves(d, e, rows, ~gap)
        BY <2>4, <2>5 DEF DbMoves
  <2>7. /\ db' = [s \in Store |-> db'[s]]
        /\ \A s \in Store : DbMoves(db[s], db'[s], rows, ~gap)
        /\ \A x \in Tab : Home(x) \subseteq Home(x)'
        /\ \A x \in Tab : storeOf[x] = storeOf[t] => Home(x)' = Stored(e)
        BY <1>3, <2>1, <2>6, StoredStep DEF Same
  <2>8. Home(t) \subseteq Home(t)' /\ Refs(event.commits) \subseteq Home(t)'
        BY <2>4, <2>7
  <2>9. Moves(tabs[t], tab, rows, Home(t), Home(t)')
        BY <1>1, <1>6, <2>8, MovesDoneRemote
  <2> HIDE DEF tab
  <2>10. \A x \in Tab : Moves(tabs[x], tabs'[x], rows, Home(x), Home(x)')
         BY <1>1, <1>6, <2>7, <2>9, OneMoves
  <2> QED
      BY <1>3, <1>4, <1>5, <2>7, <2>10, MovedStep
<1> QED
    BY <1>7, <1>8, <1>6 DEF TabInv, TabShape

LEMMA AckSafe ==
    ASSUME CursorStepInv, NEW t \in Tab, Ack(t)
    PROVE  DataInv' /\ CursorInv'
<1> DEFINE event == Head(tabs[t].remoteQueue)
           tab == DoneRemote(tabs[t])
           d == db[storeOf[t]]
           marked == AcknowledgeRemoteCommits(d, event.acks)
           e == UpsertRemoteSyncInfo(marked, event.cursor)
<1>1. /\ tabs[t].remoteQueue # <<>> /\ event.op = "ack"
      /\ tabs' = [tabs EXCEPT ![t] = tab] /\ sockets' = sockets
      BY DEF Ack, NextRemote
<1>2. event.acks \subseteq RefsOf(rows) /\ event.cursor \in 0 .. LastId(rows)
      BY <1>1, Facts DEF RemoteJobData, IsEvent
<1>3. Same /\ gap' = gap /\ replaced' = replaced /\ budget' = budget
      BY DEF Ack, Same, server, counters
<1>4. budget' \in [Bounded -> Nat] /\ replaced' \in BOOLEAN
      BY <1>3, Facts DEF CursorStepInv, DataInv
<1>5. \A k \in Socket : \A x : sockets[k].tab = x =>
          SocketMoves(sockets[k], sockets'[k], Home(x)', ~gap)
      BY <1>1, SocketStill DEF CursorStepInv
<1>6. TabInv(tabs[t]) /\ DbData(d, rows) /\ ConnectionInv
      BY Facts DEF CursorStepInv
<1>7. CASE ~tabs[t].dbOpen
  <2>1. db' = db
        BY <1>7 DEF Ack
  <2>2. /\ db' = [s \in Store |-> db'[s]]
        /\ \A s \in Store : DbMoves(db[s], db'[s], rows, ~gap)
        /\ \A x \in Tab : Home(x)' = Home(x)
        BY <1>3, <2>1, UnstoredStep DEF Same
  <2>3. Moves(tabs[t], tab, rows, Home(t), Home(t)')
        BY <1>1, <1>6, <1>7, <2>2, MovesDoneRemote
  <2> HIDE DEF tab
  <2>4. \A x \in Tab : Moves(tabs[x], tabs'[x], rows, Home(x), Home(x)')
        BY <1>1, <1>6, <2>2, <2>3, OneMoves
  <2> QED
      BY <1>3, <1>4, <1>5, <2>2, <2>4, MovedStep
<1>8. CASE tabs[t].dbOpen
  <2>1. db' = [db EXCEPT ![storeOf[t]] = e]
        BY <1>8, <1>6 DEF Ack
  <2>2. DbIs(marked, rows, Stored(d), d.lastSyncCursor)
        BY <1>2, <1>6, AcknowledgeData
  <2> HIDE DEF marked
  <2>3. DbIs(e, rows, Stored(marked), event.cursor)
        BY <1>2, <2>2, CursorData DEF DbIs
  <2>4. /\ DbData(e, rows) /\ Stored(e) = Stored(d)
        /\ e.lastSyncCursor = event.cursor
        BY <2>2, <2>3 DEF DbIs
  <2> HIDE DEF e
  <2>5. ASSUME ~gap
        PROVE  DbSafe(e, rows)
        BY <1>1, <1>8, <2>4, <2>5, FirstEvent DEF DbSafe, Home
  <2>6. DbMoves(d, e, rows, ~gap)
        BY <2>4, <2>5 DEF DbMoves
  <2>7. /\ db' = [s \in Store |-> db'[s]]
        /\ \A s \in Store : DbMoves(db[s], db'[s], rows, ~gap)
        /\ \A x \in Tab : Home(x) \subseteq Home(x)'
        BY <1>3, <2>1, <2>6, StoredStep DEF Same
  <2>8. Home(t) \subseteq Home(t)'
        BY <2>7
  <2>9. Moves(tabs[t], tab, rows, Home(t), Home(t)')
        BY <1>1, <1>6, <2>8, MovesDoneRemote
  <2> HIDE DEF tab
  <2>10. \A x \in Tab : Moves(tabs[x], tabs'[x], rows, Home(x), Home(x)')
         BY <1>1, <1>6, <2>7, <2>9, OneMoves
  <2> QED
      BY <1>3, <1>4, <1>5, <2>7, <2>10, MovedStep
<1> QED
    BY <1>7, <1>8, <1>6 DEF TabInv, TabShape

(* An own commit is stored, announced and sent.                            *)
LEMMA UpdateSafe ==
    ASSUME CursorStepInv, NEW t \in Tab, Update(t)
    PROVE  DataInv' /\ CursorInv'
<1> DEFINE batch == Head(tabs[t].localQueue).commits
           tab == DoneLocal(tabs[t])
           done == [tabs EXCEPT ![t] = tab]
           d == db[storeOf[t]]
           e == AddCommits(d, batch, FALSE)
           remote == tabs[t].remote
<1>1. tabs[t].localQueue # <<>> /\ Head(tabs[t].localQueue).op = "update"
      BY DEF Update, NextLocal
<1>2. BatchOK(batch)
      BY <1>1, Facts DEF LocalJobData
<1>3. Same /\ gap' = gap /\ replaced' = replaced /\ budget' = budget
      BY DEF Update, Same, server, counters
<1>4. budget' \in [Bounded -> Nat] /\ replaced' \in BOOLEAN
      BY <1>3, Facts DEF CursorStepInv, DataInv
<1>6. TabInv(tabs[t]) /\ TabData(tabs[t], rows) /\ DbData(d, rows) /\ ConnectionInv /\ DataInv
      BY Facts DEF CursorStepInv
<1> HIDE DEF batch
<1>7. CASE ~tabs[t].dbOpen
  <2>1. db' = db /\ sockets' = sockets /\ tabs' = done
        BY <1>7 DEF Update
  <2>2. /\ db' = [s \in Store |-> db'[s]]
        /\ \A s \in Store : DbMoves(db[s], db'[s], rows, ~gap)
        /\ \A x \in Tab : Home(x)' = Home(x)
        BY <1>3, <2>1, UnstoredStep DEF Same
  <2>3. Moves(tabs[t], tab, rows, Home(t), Home(t)')
        BY <1>1, <1>6, <2>2, MovesDoneLocal
  <2> HIDE DEF tab
  <2>4. \A x \in Tab : Moves(tabs[x], tabs'[x], rows, Home(x), Home(x)')
        BY <1>6, <2>1, <2>2, <2>3, OneMoves
  <2>5. \A k \in Socket : \A x : sockets[k].tab = x =>
            SocketMoves(sockets[k], sockets'[k], Home(x)', ~gap)
        BY <2>1, SocketStill DEF CursorStepInv
  <2> QED
      BY <1>3, <1>4, <2>2, <2>4, <2>5, MovedStep
<1>8. CASE tabs[t].dbOpen
  <2>1. /\ db' = [db EXCEPT ![storeOf[t]] = e]
        /\ tabs' = Announce(done, t, batch, FALSE)
        /\ sockets' = Send(sockets, remote, batch)
        BY <1>8, <1>6 DEF Update, batch
  <2>2. DbIs(e, rows, Stored(d) \cup Refs(batch), d.lastSyncCursor)
        BY <1>2, <1>6, AddCommitsData
  <2> HIDE DEF e
  <2>3. /\ DbData(e, rows) /\ Stored(e) = Stored(d) \cup Refs(batch)
        /\ e.lastSyncCursor = d.lastSyncCursor
        BY <2>2 DEF DbIs
  <2>6. DbMoves(d, e, rows, ~gap)
        BY <2>3 DEF DbMoves, DbSafe
  <2>7. /\ db' = [s \in Store |-> db'[s]]
        /\ \A s \in Store : DbMoves(db[s], db'[s], rows, ~gap)
        /\ \A x \in Tab : Home(x) \subseteq Home(x)'
        /\ \A x \in Tab : storeOf[x] = storeOf[t] => Home(x)' = Stored(e)
        BY <1>3, <2>1, <2>6, StoredStep DEF Same
  <2>8. \A x \in Tab : storeOf[x] = storeOf[t] => Refs(batch) \subseteq Home(x)'
        BY <2>3, <2>7
  <2>9. Moves(tabs[t], tab, rows, Home(t), Home(t)')
        BY <1>1, <1>6, <2>7, MovesDoneLocal
  <2> HIDE DEF tab
  <2>10. \A x \in Tab : Moves(tabs[x], done[x], rows, Home(x), Home(x)')
         BY <1>6, <2>7, <2>9, OneMoves
  <2> HIDE DEF done
  <2>11. \A o \in Siblings(t) : Refs(batch) \subseteq Home(o)'
         BY <2>8 DEF Siblings
  <2>12. \A x \in Tab : Moves(tabs[x], tabs'[x], rows, Home(x), Home(x)')
         BY <1>2, <1>6, <2>1, <2>10, <2>11, AnnounceMoves
  <2>13. ASSUME NEW k \in Socket, NEW x, sockets[k].tab = x
         PROVE  SocketMoves(sockets[k], sockets'[k], Home(x)', ~gap)
    <3>1. ~gap /\ remote = k /\ IsActive(sockets[k]) => Refs(batch) \subseteq Home(x)'
          BY <2>8, <2>13, OwnSocket
    <3> QED
        BY <1>2, <1>6, <2>1, <3>1, SentMoves
  <2> QED
      BY <1>3, <1>4, <2>7, <2>12, <2>13, MovedStep
<1> QED
    BY <1>7, <1>8, <1>6 DEF TabInv, TabShape

(* The client has the commits and the other tabs get them; they are        *)
(* persisted next.                                                         *)
LEMMA RemoteCommitsSafe ==
    ASSUME CursorStepInv, NEW t \in Tab, RemoteCommits(t)
    PROVE  DataInv' /\ CursorInv'
<1> DEFINE event == Head(tabs[t].remoteQueue)
           batch == event.commits
           known == tabs[t].known \cup Refs(event.commits)
           rest == [op |-> "persist", commits |-> event.commits, cursor |-> event.cursor]
           knows == [tabs[t] EXCEPT !.known = known]
           tab == ThenRemote(knows, rest)
           done == [tabs EXCEPT ![t] = tab]
<1>1. /\ tabs[t].remoteQueue # <<>> /\ event.op = "commits"
      /\ tabs' = Announce(done, t, batch, TRUE) /\ sockets' = sockets /\ db' = db
      BY DEF RemoteCommits, NextRemote
<1>2. /\ BatchOK(batch) /\ Refs(batch) \subseteq RefsOf(rows)
      /\ event.cursor \in 0 .. LastId(rows)
      BY <1>1, Facts DEF RemoteJobData, IsEvent
<1>3. Same /\ gap' = gap /\ replaced' = replaced /\ budget' = budget
      BY DEF RemoteCommits, Same, server, counters
<1>4. budget' \in [Bounded -> Nat] /\ replaced' \in BOOLEAN
      BY <1>3, Facts DEF CursorStepInv, DataInv
<1>5. \A k \in Socket : \A x : sockets[k].tab = x =>
          SocketMoves(sockets[k], sockets'[k], Home(x)', ~gap)
      BY <1>1, SocketStill DEF CursorStepInv
<1>6. TabInv(tabs[t]) /\ ConnectionInv /\ DataInv
      BY Facts DEF CursorStepInv
<1>7. /\ db' = [s \in Store |-> db'[s]]
      /\ \A s \in Store : DbMoves(db[s], db'[s], rows, ~gap)
      /\ \A x \in Tab : Home(x)' = Home(x)
      BY <1>1, <1>3, UnstoredStep DEF Same
<1>8. RemoteJobData(rest, rows)
      BY <1>2 DEF RemoteJobData, IsEvent
<1>9. GoesOn(event, rest)
      BY <1>1 DEF GoesOn
<1>10. Moves(tabs[t], knows, rows, Home(t), Home(t)')
       BY <1>6, <1>7, MovesFields
<1>11. TabInv(knows) /\ knows.remoteQueue = tabs[t].remoteQueue
       BY <1>6, TabFields DEF SameTab
<1> HIDE DEF knows, rest
<1>12. Moves(knows, tab, rows, Home(t)', Home(t)')
       BY <1>1, <1>8, <1>9, <1>11, MovesThenRemote
<1> HIDE DEF tab
<1>13. Moves(tabs[t], tab, rows, Home(t), Home(t)')
       BY <1>10, <1>12, MovesOn
<1>14. \A x \in Tab : Moves(tabs[x], done[x], rows, Home(x), Home(x)')
       BY <1>6, <1>7, <1>13, OneMoves
<1> HIDE DEF done, batch
<1>15. \A x \in Tab : Moves(tabs[x], tabs'[x], rows, Home(x), Home(x)')
       BY <1>1, <1>2, <1>6, <1>14, AnnounceMoves
<1> QED
    BY <1>3, <1>4, <1>5, <1>7, <1>15, MovedStep

LEMMA NeededAtZero ==
    ASSUME NEW table, TableData(table)
    PROVE  Needed(table, 0) = {}
BY LastIdNat DEF TableData, Needed

LEMMA ResetSafe ==
    ASSUME CursorStepInv, NEW s \in Store, Reset(s)
    PROVE  DataInv' /\ CursorInv'
<1> DEFINE d == db[s]
           e == ResetDocRemoteSyncData(d)
<1>1. ConnectionInv /\ DataInv
      BY DEF CursorStepInv
<1>2. db' = [db EXCEPT ![s] = e] /\ tabs' = tabs /\ sockets' = sockets
      BY <1>1 DEF Reset, DataInv
<1>3. Same /\ gap' = gap /\ replaced' = replaced
      BY DEF Reset, Same, server
<1>4. budget' \in [Bounded -> Nat] /\ replaced' \in BOOLEAN
      BY <1>1, <1>3, SpendNat DEF Reset, DataInv, Bounded
<1>5. DbIs(e, rows, Stored(d), 0)
      BY <1>1, ResetData DEF DataInv
<1> HIDE DEF e
<1>6. Needed(rows, 0) = {}
      BY <1>1, NeededAtZero DEF DataInv
<1>7. DbMoves(d, e, rows, ~gap)
      BY <1>5, <1>6 DEF DbIs, DbMoves, DbSafe
<1>8. /\ db' = [x \in Store |-> db'[x]]
      /\ \A x \in Store : DbMoves(db[x], db'[x], rows, ~gap)
      BY <1>1, <1>2, <1>7, OneDbMoves
<1>9. \A x \in Store : Stored(db[x]) \subseteq Stored(db'[x])
      BY <1>8 DEF DbMoves
<1>10. \A x \in Tab : Home(x) \subseteq Home(x)'
       BY <1>1, <1>3, <1>9, HomeGrows DEF Same
<1>11. \A x \in Tab : Moves(tabs[x], tabs'[x], rows, Home(x), Home(x)')
       BY <1>1, <1>2, <1>10, TabFact, MovesNot
<1>12. \A k \in Socket : \A x : sockets[k].tab = x =>
           SocketMoves(sockets[k], sockets'[k], Home(x)', ~gap)
       BY <1>1, <1>2, SocketStill
<1> QED
    BY <1>3, <1>4, <1>8, <1>11, <1>12, MovedStep

LEMMA NothingSafe ==
    ASSUME CursorStepInv, UNCHANGED vars
    PROVE  DataInv' /\ CursorInv'
<1>1. db' = db /\ storeOf' = storeOf /\ tabs' = tabs /\ sockets' = sockets
      BY DEF vars
<1>2. Same /\ gap' = gap /\ replaced' = replaced /\ budget' = budget
      BY DEF vars, Same
<1>3. budget' \in [Bounded -> Nat] /\ replaced' \in BOOLEAN /\ ConnectionInv
      BY <1>2 DEF CursorStepInv, DataInv
<1>4. /\ db' = [s \in Store |-> db'[s]]
      /\ \A s \in Store : DbMoves(db[s], db'[s], rows, ~gap)
      /\ \A x \in Tab : Home(x)' = Home(x)
      BY <1>1, UnstoredStep
<1>5. \A x \in Tab : Moves(tabs[x], tabs'[x], rows, Home(x), Home(x)')
      BY <1>1, <1>3, <1>4, TabFact, MovesNot
<1>6. \A k \in Socket : \A x : sockets[k].tab = x =>
          SocketMoves(sockets[k], sockets'[k], Home(x)', ~gap)
      BY <1>1, SocketStill DEF CursorStepInv
<1> QED
    BY <1>2, <1>3, <1>4, <1>5, <1>6, MovedStep

-----------------------------------------------------------------------------
(* Steps after which a client has thrown, or a tab has died within a job.  *)

LEMMA GapStep ==
    ASSUME CursorStepInv, NEW t \in Tab, NEW tab, TabData(tabs[t], rows) => TabData(tab, rows),
           tabs' = [tabs EXCEPT ![t] = tab], Same, gap' = TRUE,
           db' = [s \in Store |-> db'[s]], \A s \in Store : DbData(db'[s], rows),
           \A k \in Socket : UpData(sockets'[k].up),
           budget' \in [Bounded -> Nat], replaced' \in BOOLEAN
    PROVE  DataInv' /\ CursorInv'
<1>1. ConnectionInv /\ DataInv
      BY DEF CursorStepInv
<1>2. \A x \in Tab : tabs'[x] = IF x = t THEN tab ELSE tabs[x]
      BY <1>1 DEF ConnectionInv
<1>3. \A x \in Tab : TabData(tabs'[x], rows)
      BY <1>1, <1>2 DEF DataInv
<1>4. DataInv'
      BY <1>1, <1>3, DataStep
<1> QED
    BY <1>4 DEF CursorInv

(* A client throws.                                                        *)
LEMMA ThrowStep ==
    ASSUME CursorStepInv, NEW t \in Tab, NEW tab, TabData(tabs[t], rows) => TabData(tab, rows),
           tabs' = [tabs EXCEPT ![t] = tab], gap' = TRUE,
           UNCHANGED <<storeOf, db, sockets, server, budget, replaced>>
    PROVE  DataInv' /\ CursorInv'
<1>1. DataInv
      BY DEF CursorStepInv
<1>2. Same /\ db' = db /\ sockets' = sockets /\ budget' = budget /\ replaced' = replaced
      BY DEF Same, server
<1>3. db' = [s \in Store |-> db'[s]] /\ \A s \in Store : DbData(db'[s], rows)
      BY <1>1, <1>2 DEF DataInv
<1>4. \A k \in Socket : UpData(sockets'[k].up)
      BY <1>1, <1>2 DEF DataInv
<1>5. budget' \in [Bounded -> Nat] /\ replaced' \in BOOLEAN
      BY <1>1, <1>2 DEF DataInv
<1> QED
    BY <1>2, <1>3, <1>4, <1>5, GapStep

LEMMA DoneRemoteData ==
    ASSUME NEW tab, TabInv(tab), NEW table, TabData(tab, table), tab.remoteQueue # <<>>
    PROVE  TabData(DoneRemote(tab), table)
<1> DEFINE q == Tail(tab.remoteQueue)
           done == DoneRemote(tab)
<1>1. IsQueue(tab.remoteQueue) /\ TabShape(tab)
      BY DEF TabInv
<1>2. \A job \in Elements(q) : job \in Elements(tab.remoteQueue)
      BY <1>1, QueueTail
<1>3. /\ done.remoteQueue = q /\ done.localQueue = tab.localQueue
      /\ done.leader = tab.leader /\ done.timer = tab.timer
      BY <1>1 DEF DoneRemote, TabShape
<1> HIDE DEF q, done
<1>4. QueueData(q, table)
      BY <1>2 DEF TabData, QueueData
<1>5. TabData(done, table)
      BY <1>3, <1>4 DEF TabData
<1> QED
    BY <1>5 DEF done

LEMMA RemoteCommitsThrowSafe ==
    ASSUME CursorStepInv, NEW t \in Tab, RemoteCommitsThrow(t)
    PROVE  DataInv' /\ CursorInv'
<1> DEFINE done == DoneRemote(tabs[t])
           tab == ShutDown(done)
<1>1. tabs[t].remoteQueue # <<>> /\ Head(tabs[t].remoteQueue).op = "commits"
      BY DEF RemoteCommitsThrow, NextRemote
<1>2. tabs' = [tabs EXCEPT ![t] = tab] /\ gap' = TRUE
      BY DEF RemoteCommitsThrow
<1>3. TabInv(tabs[t]) /\ TabData(tabs[t], rows)
      BY Facts
<1>4. TabInv(done)
      BY <1>1, <1>3, DoneRemoteTab DEF SameTab
<1>5. TabData(done, rows)
      BY <1>1, <1>3, DoneRemoteData
<1> HIDE DEF done
<1>6. TabData(tab, rows)
      BY <1>4, <1>5, MovesShutDown DEF Moves
<1> HIDE DEF tab
<1>7. UNCHANGED <<storeOf, db, sockets, server, budget, replaced>>
      BY DEF RemoteCommitsThrow
<1> QED
    BY <1>2, <1>6, <1>7, ThrowStep

LEMMA LocalThrowsSafe ==
    ASSUME CursorStepInv, NEW t \in Tab, LoadThrows(t) \/ LocalEventThrows(t)
    PROVE  DataInv' /\ CursorInv'
<1> DEFINE done == DoneLocal(tabs[t])
           tab == ShutDown(done)
<1>1. tabs[t].localQueue # <<>>
      BY DEF LoadThrows, LocalEventThrows, NextLocal
<1>2. tabs' = [tabs EXCEPT ![t] = tab] /\ gap' = TRUE
      BY DEF LoadThrows, LocalEventThrows
<1>3. TabInv(tabs[t]) /\ TabData(tabs[t], rows)
      BY Facts
<1>4. Moves(tabs[t], done, rows, {}, {})
      BY <1>1, <1>3, MovesDoneLocal
<1>5. TabInv(done) /\ TabData(done, rows)
      BY <1>3, <1>4 DEF Moves, SameTab
<1> HIDE DEF done
<1>6. TabData(tab, rows)
      BY <1>5, MovesShutDown DEF Moves
<1> HIDE DEF tab
<1>7. UNCHANGED <<storeOf, db, sockets, server, budget, replaced>>
      BY DEF LoadThrows, LocalEventThrows
<1> QED
    BY <1>2, <1>6, <1>7, ThrowStep

-----------------------------------------------------------------------------
(* Tabs that die and tabs that open.                                       *)

LEMMA NewTabData ==
    ASSUME NEW tab \in {NewTab, NoTab}, NEW stored, NEW table
    PROVE  /\ TabInv(tab) /\ tab.remote = NoSocket /\ TabData(tab, table)
           /\ TabSafe(tab, stored, table)
<1> DEFINE load == Job("load")
           q == Append(<<>>, load)
<1>0. q = <<load>>
      OBVIOUS
<1>1. IsQueue(q) /\ Elements(q) = Elements(<<>>) \cup {load}
      BY EmptyQueue, QueueAppend
<1>2. IsQueue(<<>>) /\ Elements(<<>>) = {}
      BY EmptyQueue
<1>3. LocalJobData(load) /\ load.op # "event"
      BY DEF Job, LocalJobData
<1>4. LocalData(q) /\ LocalSafe(q, stored)
      BY <1>1, <1>2, <1>3 DEF LocalData, LocalSafe
<1>5. LocalData(<<>>) /\ LocalSafe(<<>>, stored)
      BY <1>2 DEF LocalData, LocalSafe
<1> HIDE DEF q
<1>6. /\ tab.remoteQueue = <<>> /\ (tab.localQueue = q \/ tab.localQueue = <<>>)
      /\ tab.leader = FALSE /\ tab.timer = FALSE /\ tab.remote = NoSocket
  <2>1. CASE tab = NewTab
        BY <1>0, <2>1 DEF NewTab
  <2>2. CASE tab = NoTab
        BY <2>2 DEF NewTab, NoTab
  <2> QED
      BY <2>1, <2>2
<1>7. QueueData(<<>>, table)
      BY <1>2 DEF QueueData
<1>8. EventsSafe(<<>>, stored, table)
      BY DEF EventsSafe
<1>9. TabInv(tab)
      BY NewTabInv
<1>10. TabData(tab, table)
       BY <1>4, <1>5, <1>6, <1>7 DEF TabData
<1>11. TabSafe(tab, stored, table)
       BY <1>4, <1>5, <1>6, <1>8 DEF TabSafe
<1> QED
    BY <1>6, <1>9, <1>10, <1>11

(* A tab begins anew, and has no sockets.                                  *)
LEMMA AnewStep ==
    ASSUME CursorStepInv, NEW t \in Tab, NEW tab \in {NewTab, NoTab},
           tabs' = [tabs EXCEPT ![t] = tab], Unmoved,
           \A k \in Socket : UpData(sockets'[k].up),
           ~gap => \A k \in Socket : sockets'[k].state # "closed" =>
                       sockets'[k] = sockets[k] /\ sockets[k].tab # t,
           budget' \in [Bounded -> Nat], replaced' \in BOOLEAN
    PROVE  DataInv' /\ CursorInv'
<1>1. ConnectionInv /\ DataInv /\ CursorInv
      BY DEF CursorStepInv
<1>2. Same /\ gap' = gap /\ db' = db /\ rows' = rows
      BY DEF Unmoved, Same
<1>3. \A x \in Tab : tabs'[x] = IF x = t THEN tab ELSE tabs[x]
      BY <1>1 DEF ConnectionInv
<1>4. /\ tab.remote = NoSocket /\ TabData(tab, rows)
      /\ TabSafe(tab, Home(t), rows)
      BY NewTabData
<1>5. DataInv'
  <2>1. \A x \in Tab : TabData(tabs'[x], rows)
        BY <1>1, <1>3, <1>4 DEF DataInv
  <2>2. db' = [s \in Store |-> db'[s]] /\ \A s \in Store : DbData(db'[s], rows)
        BY <1>1, <1>2 DEF DataInv
  <2>3. gap' \in BOOLEAN
        BY <1>1, <1>2 DEF DataInv
  <2> QED
      BY <1>1, <1>2, <2>1, <2>2, <2>3, DataStep
<1>6. \A x : Home(x)' = Home(x)
      BY <1>2, HomeStays DEF Same
<1>7. ASSUME ~gap
      PROVE  SafeInv'
  <2>1. SafeInv
        BY <1>1, <1>7 DEF CursorInv
  <2>2. \A s \in Store : DbSafe(db'[s], rows')
        BY <1>2, <2>1 DEF SafeInv
  <2>3. \A x \in Tab : TabSafe(tabs'[x], Home(x)', rows')
        BY <1>2, <1>3, <1>4, <1>6, <2>1 DEF SafeInv
  <2>4. ASSUME NEW k \in Socket, sockets'[k].state # "closed"
        PROVE  /\ sockets'[k].tab \in Tab
               /\ sockets'[k].cursor \in 0 .. LastId(rows')
               /\ \A x \in Tab : sockets'[k].tab = x =>
                     SocketSafe(k, sockets'[k], tabs'[x], Home(x)', rows')
    <3>1. sockets'[k] = sockets[k] /\ sockets[k].tab # t
          BY <1>7, <2>4
    <3>2. /\ sockets[k].tab \in Tab /\ sockets[k].cursor \in 0 .. LastId(rows)
          /\ \A x \in Tab : sockets[k].tab = x =>
                SocketSafe(k, sockets[k], tabs[x], Home(x), rows)
          BY <2>1, <2>4, <3>1 DEF SafeInv
    <3> QED
        BY <1>2, <1>3, <1>6, <3>1, <3>2
  <2>5. ASSUME NEW x \in Tab, NEW k \in Socket, IsActive(sockets'[k]), tabs'[x].remote = k
        PROVE  sockets'[k].tab = x
    <3>1. sockets'[k] = sockets[k]
          BY <1>7, <2>5 DEF IsActive
    <3>2. tabs[x].remote = k
          BY <1>3, <1>4, <2>5, SocketAssumption
    <3> QED
        BY <2>1, <2>5, <3>1, <3>2 DEF SafeInv
  <2> QED
      BY <2>2, <2>3, <2>4, <2>5 DEF SafeInv
<1> QED
    BY <1>2, <1>5, <1>7 DEF CursorInv

LEMMA OpenSafe ==
    ASSUME CursorStepInv, NEW t \in Tab, Open(t)
    PROVE  DataInv' /\ CursorInv'
<1>1. /\ tabs' = [tabs EXCEPT ![t] = NewTab] /\ sockets' = sockets /\ ~tabs[t].open
      /\ budget' = budget /\ replaced' = replaced
      BY DEF Open, counters
<1>2. Unmoved
      BY DEF Open, Unmoved, server, counters
<1>3. ~gap => \A k \in Socket : sockets'[k].state # "closed" =>
          sockets'[k] = sockets[k] /\ sockets[k].tab # t
      BY <1>1 DEF CursorStepInv, CursorInv, SafeInv, SocketSafe
<1>4. /\ budget' \in [Bounded -> Nat] /\ replaced' \in BOOLEAN
      /\ \A k \in Socket : UpData(sockets'[k].up)
      BY <1>1 DEF CursorStepInv, DataInv
<1> QED
    BY <1>1, <1>2, <1>3, <1>4, AnewStep

(* What is left of a job is in order, though not all of it is there.       *)
LEMMA TornData ==
    ASSUME CursorStepInv, NEW t \in Tab, NEW left \in Torn(t)
    PROVE  DbData(left, rows)
<1> DEFINE d == db[storeOf[t]]
           q == tabs[t].localQueue
           p == tabs[t].remoteQueue
<1>1. DbData(d, rows) /\ LocalData(q) /\ QueueData(p, rows)
      BY Facts
<1>2. CASE \E n \in DOMAIN q : q[n].op = "update" /\ left = AddCommits(d, q[n].commits, FALSE)
  <2>1. PICK n \in DOMAIN q : q[n].op = "update" /\ left = AddCommits(d, q[n].commits, FALSE)
        BY <1>2
  <2>2. BatchOK(q[n].commits)
        BY <1>1, <2>1 DEF LocalData, LocalJobData, Elements
  <2> QED
      BY <1>1, <2>1, <2>2, AddCommitsData DEF DbIs
<1>3. CASE \E n \in DOMAIN p : p[n].op = "persist" /\ left = AddCommits(d, p[n].commits, TRUE)
  <2>1. PICK n \in DOMAIN p : p[n].op = "persist" /\ left = AddCommits(d, p[n].commits, TRUE)
        BY <1>3
  <2>2. BatchOK(p[n].commits) /\ Refs(p[n].commits) \subseteq RefsOf(rows)
        BY <1>1, <2>1 DEF QueueData, RemoteJobData, Elements
  <2> QED
      BY <1>1, <2>1, <2>2, AddCommitsData DEF DbIs
<1>4. CASE \E n \in DOMAIN p : p[n].op = "persist" /\ left = UpsertRemoteSyncInfo(d, p[n].cursor)
  <2>1. PICK n \in DOMAIN p : p[n].op = "persist" /\ left = UpsertRemoteSyncInfo(d, p[n].cursor)
        BY <1>4
  <2>2. p[n].cursor \in 0 .. LastId(rows)
        BY <1>1, <2>1 DEF QueueData, RemoteJobData, IsEvent, Elements
  <2> QED
      BY <1>1, <2>1, <2>2, CursorData DEF DbIs
<1>5. \/ \E n \in DOMAIN q : q[n].op = "update" /\ left = AddCommits(d, q[n].commits, FALSE)
      \/ \E n \in DOMAIN p : p[n].op = "persist" /\ left = AddCommits(d, p[n].commits, TRUE)
      \/ \E n \in DOMAIN p : p[n].op = "persist" /\ left = UpsertRemoteSyncInfo(d, p[n].cursor)
  <2> DEFINE Under(queue, op) == {queue[n] : n \in {m \in DOMAIN queue : m = 1 /\ queue[m].op = op}}
  <2>1. \/ \E job \in Under(q, "update") : left = AddCommits(d, job.commits, FALSE)
        \/ \E job \in Under(p, "persist") : left \in {AddCommits(d, job.commits, TRUE),
                                                    UpsertRemoteSyncInfo(d, job.cursor)}
        BY DEF Torn
  <2>2. CASE \E job \in Under(q, "update") : left = AddCommits(d, job.commits, FALSE)
        BY <2>2
  <2>3. CASE \E job \in Under(p, "persist") : left \in {AddCommits(d, job.commits, TRUE),
                                                      UpsertRemoteSyncInfo(d, job.cursor)}
        BY <2>3
  <2> QED
      BY <2>1, <2>2, <2>3
<1> QED
    BY <1>2, <1>3, <1>4, <1>5

LEMMA CrashSafe ==
    ASSUME CursorStepInv, NEW t \in Tab, Crash(t)
    PROVE  DataInv' /\ CursorInv'
<1>1. ConnectionInv /\ DataInv
      BY DEF CursorStepInv
<1>2. /\ tabs' = [tabs EXCEPT ![t] = NoTab] /\ replaced' = replaced /\ Same
      /\ \A k \in Socket : sockets'[k] = IF sockets[k].tab = t THEN ClosedSocket ELSE sockets[k]
      BY DEF Crash, Same, server
<1>3. budget' \in [Bounded -> Nat] /\ replaced' \in BOOLEAN
      BY <1>1, <1>2, SpendNat DEF Crash, Bounded, DataInv
<1>4. ClosedSocket.state = "closed" /\ ClosedSocket.up = <<>> /\ UpData(<<>>)
      BY EmptyQueue DEF ClosedSocket, NewSocket, UpData
<1>5. \A k \in Socket : UpData(sockets'[k].up)
      BY <1>1, <1>2, <1>4 DEF DataInv
<1>6. \A k \in Socket : sockets'[k].state # "closed" =>
          sockets'[k] = sockets[k] /\ sockets[k].tab # t
      BY <1>2, <1>4
<1>7. CASE UNCHANGED <<db, gap>>
  <2>1. Unmoved
        BY <1>2, <1>7 DEF Unmoved, Same
  <2> QED
      BY <1>2, <1>3, <1>5, <1>6, <2>1, AnewStep
<1>8. CASE /\ gap' = TRUE
           /\ \E left \in Torn(t) : db' = [db EXCEPT ![storeOf[t]] = left]
  <2>1. PICK left \in Torn(t) : db' = [db EXCEPT ![storeOf[t]] = left]
        BY <1>8
  <2>2. DbData(left, rows)
        BY TornData
  <2>3. \A s \in Store : db'[s] = IF s = storeOf[t] THEN left ELSE db[s]
        BY <1>1, <2>1 DEF DataInv
  <2>4. \A s \in Store : DbData(db'[s], rows)
        BY <1>1, <2>2, <2>3 DEF DataInv
  <2>5. db' = [s \in Store |-> db'[s]]
        BY <1>1, <2>1 DEF DataInv
  <2>6. TabData(NoTab, rows)
        BY NewTabData
  <2> QED
      BY <1>2, <1>3, <1>5, <1>8, <2>4, <2>5, <2>6, GapStep
<1> QED
    BY <1>7, <1>8 DEF Crash

-----------------------------------------------------------------------------
(* Connections that begin and end.                                         *)

(* What holds of every store and socket holds of the system.               *)
LEMMA LinkStep ==
    ASSUME CursorStepInv, Same, db' = db, gap' = gap,
           \A t \in Tab : TabData(tabs'[t], rows),
           \A k \in Socket : UpData(sockets'[k].up),
           ~gap => \A t \in Tab : TabSafe(tabs'[t], Home(t), rows),
           ~gap => \A k \in Socket : sockets'[k].state # "closed" =>
               /\ sockets'[k].tab \in Tab
               /\ sockets'[k].cursor \in 0 .. LastId(rows)
               /\ \A t \in Tab : sockets'[k].tab = t =>
                     SocketSafe(k, sockets'[k], tabs'[t], Home(t), rows),
           ~gap => \A t \in Tab, k \in Socket :
               IsActive(sockets'[k]) /\ tabs'[t].remote = k => sockets'[k].tab = t,
           budget' \in [Bounded -> Nat], replaced' \in BOOLEAN
    PROVE  DataInv' /\ CursorInv'
<1>1. DataInv /\ CursorInv
      BY DEF CursorStepInv
<1>2. db' = [s \in Store |-> db'[s]] /\ (\A s \in Store : DbData(db'[s], rows)) /\ gap' \in BOOLEAN
      BY <1>1 DEF DataInv
<1>3. DataInv'
      BY <1>1, <1>2, DataStep
<1>4. \A x : Home(x)' = Home(x)
      BY HomeStays DEF Same
<1>5. ASSUME ~gap
      PROVE  SafeInv'
  <2>1. rows' = rows
        BY DEF Same
  <2>2. \A s \in Store : DbSafe(db'[s], rows')
        BY <1>1, <1>5, <2>1 DEF CursorInv, SafeInv
  <2> QED
      BY <1>4, <1>5, <2>1, <2>2 DEF SafeInv
<1> QED
    BY <1>3, <1>5 DEF CursorInv

(* What is known of a socket and its store before such a step.             *)
LEMMA SocketFacts ==
    ASSUME CursorStepInv, ~gap, NEW k \in Socket, sockets[k].state # "closed"
    PROVE  /\ sockets[k].tab \in Tab
           /\ sockets[k].cursor \in 0 .. LastId(rows)
           /\ \A t \in Tab : sockets[k].tab = t =>
                 SocketSafe(k, sockets[k], tabs[t], Home(t), rows)
           /\ \A t \in Tab : IsActive(sockets[k]) /\ tabs[t].remote = k => sockets[k].tab = t
BY DEF CursorStepInv, CursorInv, SafeInv

LEMMA TabsSafe ==
    ASSUME CursorStepInv, NEW t \in Tab
    PROVE  TabData(tabs[t], rows) /\ (~gap => TabSafe(tabs[t], Home(t), rows))
BY DEF CursorStepInv, DataInv, CursorInv, SafeInv

(* A socket of a store that keeps what the socket has brought.             *)
LEMMA SocketKept ==
    ASSUME NEW k, NEW a, NEW tab, NEW new, NEW stored, NEW table,
           SocketSafe(k, a, tab, stored, table),
           tab.open => new.open, new.dbOpen => tab.dbOpen,
           a.state = "open" /\ new.dbOpen =>
               KeepsAll(tab.remoteQueue, stored, new.remoteQueue, stored, k)
    PROVE  SocketSafe(k, a, new, stored, table)
BY SocketStays

(* A store whose events follow.                                            *)
LEMMA TabFollows ==
    ASSUME NEW a, NEW b, NEW stored, NEW table, TabSafe(a, stored, table),
           b.localQueue = a.localQueue, b.dbOpen => a.dbOpen,
           EventsFollow(a.remoteQueue, stored, b.remoteQueue, stored)
    PROVE  TabSafe(b, stored, table)
BY FollowsSafe DEF TabSafe

LEMMA TabDataQueue ==
    ASSUME NEW a, NEW b, NEW table, TabData(a, table), QueueData(b.remoteQueue, table),
           b.localQueue = a.localQueue, b.leader = a.leader, b.timer \in BOOLEAN
    PROVE  TabData(b, table)
BY DEF TabData

LEMMA ConnectSafe ==
    ASSUME CursorStepInv, NEW t \in Tab, Connect(t)
    PROVE  DataInv' /\ CursorInv'
<1> DEFINE k == CHOOSE x \in Socket : Unused(x)
           cursor == db[storeOf[t]].lastSyncCursor
           socket == NewSocket(t, cursor)
           upload == Job("upload")
           q == tabs[t].remoteQueue
           p == [q EXCEPT ![1] = upload]
           tab == ThenRemote([tabs[t] EXCEPT !.timer = FALSE, !.remote = k], upload)
<1>1. /\ k \in Socket /\ Unused(k)
      BY DEF Connect, Opens
<1> HIDE DEF k
<1>2. /\ q # <<>> /\ Head(q).op = "connect" /\ tabs[t].open /\ tabs[t].dbOpen
      /\ sockets' = [sockets EXCEPT ![k] = socket]
      /\ tabs' = [tabs EXCEPT ![t] = tab]
      BY DEF Connect, Opens, NextRemote, k
<1>3. Same /\ db' = db /\ gap' = gap /\ budget' = budget
      BY DEF Connect, Opens, Same, server
<1>4. ConnectionInv /\ DataInv
      BY DEF CursorStepInv
<1>5. replaced' \in BOOLEAN /\ budget' \in [Bounded -> Nat]
      BY <1>3, <1>4 DEF Connect, Opens, DataInv
<1>6. TabInv(tabs[t]) /\ DbData(db[storeOf[t]], rows) /\ IsQueue(q) /\ QueueData(q, rows)
      BY Facts DEF TabInv
<1>7. /\ socket.state = "connecting" /\ socket.tab = t /\ socket.cursor = cursor
      /\ socket.up = <<>> /\ cursor \in 0 .. LastId(rows)
      BY <1>6 DEF NewSocket, DbData
<1>8. /\ tab.open = tabs[t].open /\ tab.dbOpen = tabs[t].dbOpen /\ tab.remote = k
      /\ tab.localQueue = tabs[t].localQueue /\ tab.leader = tabs[t].leader
      /\ tab.timer = FALSE /\ tab.remoteQueue = p
      BY <1>6 DEF ThenRemote, TabInv, TabShape
<1>9. ~IsEvent(upload) /\ RemoteJobData(upload, rows)
      BY DEF Job, IsEvent, RemoteJobData
<1>10. GoesOn(Head(q), upload)
       BY <1>2, <1>9 DEF GoesOn
<1>11. Follows(q, Home(t), p, Home(t))
       BY <1>2, <1>6, <1>10, FollowsHead
<1>12. QueueData(p, rows)
  <2>1. \A n \in DOMAIN p : p[n] = upload \/ p[n] \in Elements(q)
        BY <1>6 DEF Elements
  <2> HIDE DEF p, upload
  <2> QED
      BY <1>6, <1>9, <2>1 DEF QueueData, Elements
<1> HIDE DEF tab, p, socket
<1>13. /\ \A x \in Tab : tabs'[x] = IF x = t THEN tab ELSE tabs[x]
       /\ \A x \in Socket : sockets'[x] = IF x = k THEN socket ELSE sockets[x]
       BY <1>2, <1>4 DEF ConnectionInv
<1>14. \A x \in Tab : TabData(tabs'[x], rows)
       BY <1>8, <1>12, <1>13, TabsSafe, TabDataQueue
<1>15. \A x \in Socket : UpData(sockets'[x].up)
       BY <1>4, <1>7, <1>13, EmptyQueue DEF DataInv, UpData
<1>16. ASSUME ~gap, NEW x \in Tab
       PROVE  TabSafe(tabs'[x], Home(x), rows)
  <2>1. TabSafe(tabs[x], Home(x), rows)
        BY <1>16, TabsSafe
  <2>2. CASE x = t
        BY <1>8, <1>11, <1>13, <2>1, <2>2, TabFollows DEF Follows
  <2> QED
      BY <1>13, <2>1, <2>2
<1>17. ASSUME ~gap, NEW j \in Socket, sockets'[j].state # "closed"
       PROVE  /\ sockets'[j].tab \in Tab
              /\ sockets'[j].cursor \in 0 .. LastId(rows)
              /\ \A x \in Tab : sockets'[j].tab = x =>
                    SocketSafe(j, sockets'[j], tabs'[x], Home(x), rows)
  <2>1. CASE j = k
    <3>1. Needed(rows, cursor) \subseteq Home(t)
          BY <1>17, Facts DEF CursorStepInv, CursorInv, SafeInv, DbSafe, Home
    <3>2. UpSafe(<<>>, Home(t))
          BY EmptyQueue DEF UpSafe
    <3>3. SocketSafe(k, socket, tab, Home(t), rows)
          BY <1>2, <1>7, <1>8, <3>1, <3>2 DEF SocketSafe
    <3> QED
        BY <1>7, <1>13, <2>1, <3>3
  <2>2. CASE j # k
    <3>1. sockets'[j] = sockets[j]
          BY <1>13, <2>2
    <3>2. ASSUME NEW x \in Tab, sockets[j].tab = x
          PROVE  SocketSafe(j, sockets[j], tabs'[x], Home(x), rows)
      <4>1. SocketSafe(j, sockets[j], tabs[x], Home(x), rows)
            BY <1>17, <3>1, <3>2, SocketFacts
      <4>2. CASE x = t
            BY <1>8, <1>11, <1>13, <4>1, <4>2, SocketKept DEF Follows
      <4> QED
          BY <1>13, <4>1, <4>2
    <3> QED
        BY <1>17, <3>1, <3>2, SocketFacts
  <2> QED
      BY <2>1, <2>2
<1>18. ASSUME ~gap, NEW x \in Tab, NEW j \in Socket, IsActive(sockets'[j]), tabs'[x].remote = j
       PROVE  sockets'[j].tab = x
  <2>1. CASE x = t
        BY <1>7, <1>8, <1>13, <1>18, <2>1
  <2>2. CASE x # t
    <3>1. tabs[x].remote = j /\ j # k
          BY <1>1, <1>13, <1>18, <2>2 DEF Unused
    <3>2. sockets'[j] = sockets[j] /\ sockets[j].state # "closed"
          BY <1>13, <1>18, <3>1 DEF IsActive
    <3> QED
        BY <1>18, <3>1, <3>2, SocketFacts
  <2> QED
      BY <2>1, <2>2
<1> QED
    BY <1>3, <1>5, <1>14, <1>15, <1>16, <1>17, <1>18, LinkStep

-----------------------------------------------------------------------------
(* Events that are lost with a connection.                                 *)

LEMMA ArrivedData ==
    ASSUME NEW q, IsQueue(q), NEW k, NEW n, NEW table, QueueData(q, table)
    PROVE  IsQueue(Arrived(q, k, n)) /\ QueueData(Arrived(q, k, n), table)
<1> DEFINE From(m) == q[m].op \in {"commits", "ack"} /\ q[m].from = k
           kept == {m \in DOMAIN q : From(m) => Cardinality({x \in 1 .. m : From(x)}) <= n}
           new == Among(q, kept)
<1>1. Arrived(q, k, n) = new
      BY DEF Arrived
<1>2. kept \subseteq DOMAIN q
      OBVIOUS
<1> HIDE DEF kept
<1>3. IsQueue(new) /\ Elements(new) = {q[m] : m \in kept}
      BY <1>2, AmongQueue
<1> HIDE DEF new
<1>4. Elements(new) \subseteq Elements(q)
      BY <1>2, <1>3 DEF Elements
<1> QED
    BY <1>1, <1>3, <1>4 DEF QueueData

LEMMA FromSocket ==
    ASSUME NEW q, NEW table, QueueData(q, table)
    PROVE  \A m \in DOMAIN q : q[m].op \in {"commits", "ack"} => q[m].from # NoSocket
BY SocketAssumption DEF QueueData, RemoteJobData, Elements

LEMMA TailData ==
    ASSUME NEW q, IsQueue(q), q # <<>>, NEW table, QueueData(q, table)
    PROVE  IsQueue(Tail(q)) /\ QueueData(Tail(q), table)
BY QueueTail DEF QueueData

LEMMA KeepsOn ==
    ASSUME NEW q, NEW p, NEW o, NEW stored, NEW k,
           KeepsAll(q, stored, p, stored, k), KeepsAll(p, stored, o, stored, k)
    PROVE  KeepsAll(q, stored, o, stored, k)
BY DEF KeepsAll

LEMMA EventsFollowOn ==
    ASSUME NEW q, NEW p, NEW o, NEW stored,
           EventsFollow(q, stored, p, stored), EventsFollow(p, stored, o, stored)
    PROVE  EventsFollow(q, stored, o, stored)
<1>1. ASSUME NEW n \in DOMAIN o, IsEvent(o[n])
      PROVE  \E m \in DOMAIN q :
                 /\ IsEvent(q[m]) /\ q[m].cursor = o[n].cursor
                 /\ \A r : IsFound(q, m, Origin(q[m]), stored, r) =>
                           IsFound(o, n, Origin(o[n]), stored, r)
  <2>1. PICK i \in DOMAIN p :
            /\ IsEvent(p[i]) /\ p[i].cursor = o[n].cursor
            /\ \A r : IsFound(p, i, Origin(p[i]), stored, r) =>
                      IsFound(o, n, Origin(o[n]), stored, r)
        BY <1>1 DEF EventsFollow
  <2>2. PICK m \in DOMAIN q :
            /\ IsEvent(q[m]) /\ q[m].cursor = p[i].cursor
            /\ \A r : IsFound(q, m, Origin(q[m]), stored, r) =>
                      IsFound(p, i, Origin(p[i]), stored, r)
        BY <2>1 DEF EventsFollow
  <2> QED
      BY <2>1, <2>2
<1> QED
    BY <1>1 DEF EventsFollow

(* The remote is given up: its socket begins to close, and events of it    *)
(* that have not arrived never do.                                         *)
LEMMA CloseJobSafe ==
    ASSUME CursorStepInv, NEW t \in Tab, CloseJob(t)
    PROVE  DataInv' /\ CursorInv'
<1> DEFINE k == tabs[t].remote
           q == tabs[t].remoteQueue
           p == Tail(q)
           done == [DoneRemote(tabs[t]) EXCEPT !.remote = NoSocket]
<1>1. TabInv(tabs[t]) /\ IsQueue(q) /\ QueueData(q, rows)
      BY Facts DEF TabInv
<1>2. q # <<>> /\ Head(q).op = "close"
      BY DEF CloseJob, NextRemote
<1>3. done.remoteQueue = p
      BY <1>1 DEF DoneRemote, TabInv, TabShape
<1>4. PICK n \in 0 .. Len(p) : tabs' = [tabs EXCEPT ![t] = [done EXCEPT !.remoteQueue = Arrived(p, k, n)]]
      BY <1>3 DEF CloseJob
<1> DEFINE o == Arrived(p, k, n)
           tab == [done EXCEPT !.remoteQueue = o]
<1>5. \A x \in Socket : sockets'[x] =
          IF x = k /\ sockets[x].state # "closed"
          THEN [sockets[x] EXCEPT !.state = "closing"] ELSE sockets[x]
      BY DEF CloseJob
<1>6. Same /\ db' = db /\ gap' = gap /\ budget' = budget /\ replaced' = replaced
      BY DEF CloseJob, Same, server, counters
<1>7. ConnectionInv /\ DataInv
      BY DEF CursorStepInv
<1>8. replaced' \in BOOLEAN /\ budget' \in [Bounded -> Nat]
      BY <1>6, <1>7 DEF DataInv
<1>9. IsQueue(p) /\ QueueData(p, rows)
      BY <1>1, <1>2, TailData
<1>10. IsQueue(o) /\ QueueData(o, rows)
       BY <1>9, ArrivedData
<1>11. Follows(q, Home(t), p, Home(t))
       BY <1>1, <1>2, FollowsTail
<1>12. n \in Nat
       BY <1>9, QueueDomain
<1> HIDE DEF p, q
<1>13. /\ EventsFollow(p, Home(t), o, Home(t))
       /\ \A j : j # k => KeepsAll(p, Home(t), o, Home(t), j)
       BY <1>9, <1>12, FromSocket, FollowsArrived
<1> HIDE DEF o
<1>14. /\ EventsFollow(q, Home(t), o, Home(t))
       /\ \A j : j # k => KeepsAll(q, Home(t), o, Home(t), j)
       BY <1>11, <1>13, EventsFollowOn, KeepsOn DEF Follows
<1>15. /\ tab.open = tabs[t].open /\ tab.dbOpen = tabs[t].dbOpen /\ tab.remote = NoSocket
       /\ tab.localQueue = tabs[t].localQueue /\ tab.leader = tabs[t].leader
       /\ tab.timer = tabs[t].timer /\ tab.remoteQueue = o
       BY <1>1 DEF DoneRemote, TabInv, TabShape
<1>16. tabs' = [tabs EXCEPT ![t] = tab]
       BY <1>4 DEF o
<1> HIDE DEF tab, done
<1>17. \A x \in Tab : tabs'[x] = IF x = t THEN tab ELSE tabs[x]
       BY <1>7, <1>16 DEF ConnectionInv
<1>18. \A x \in Tab : TabData(tabs'[x], rows)
  <2>1. TabData(tabs[t], rows) /\ tabs[t].timer \in BOOLEAN
        BY TabsSafe DEF TabData
  <2>2. TabData(tab, rows)
        BY <1>10, <1>15, <2>1, TabDataQueue
  <2> QED
      BY <1>17, <2>2, TabsSafe
<1>19. ASSUME NEW j \in Socket
       PROVE  /\ sockets'[j].up = sockets[j].up
              /\ sockets'[j].tab = sockets[j].tab /\ sockets'[j].cursor = sockets[j].cursor
              /\ sockets'[j] = sockets[j] \/ (j = k /\ sockets'[j].state = "closing")
              /\ sockets'[j].state = "closed" <=> sockets[j].state = "closed"
  <2>1. SocketShape(sockets[j])
        BY <1>7 DEF ConnectionInv
  <2> QED
      BY <1>5, <2>1 DEF SocketShape
<1>20. \A x \in Socket : UpData(sockets'[x].up)
       BY <1>7, <1>19 DEF DataInv
<1>21. ASSUME ~gap, NEW x \in Tab
       PROVE  TabSafe(tabs'[x], Home(x), rows)
  <2>1. TabSafe(tabs[x], Home(x), rows)
        BY <1>21, TabsSafe
  <2>2. CASE x = t
        BY <1>14, <1>15, <1>17, <2>1, <2>2, TabFollows DEF q
  <2> QED
      BY <1>17, <2>1, <2>2
<1>22. ASSUME ~gap, NEW j \in Socket, sockets'[j].state # "closed"
       PROVE  /\ sockets'[j].tab \in Tab
              /\ sockets'[j].cursor \in 0 .. LastId(rows)
              /\ \A x \in Tab : sockets'[j].tab = x =>
                    SocketSafe(j, sockets'[j], tabs'[x], Home(x), rows)
  <2>1. sockets[j].tab \in Tab /\ sockets[j].cursor \in 0 .. LastId(rows)
        BY <1>19, <1>22, SocketFacts
  <2>2. ASSUME NEW x \in Tab, sockets[j].tab = x
        PROVE  SocketSafe(j, sockets'[j], tabs'[x], Home(x), rows)
    <3>1. SocketSafe(j, sockets[j], tabs[x], Home(x), rows)
          BY <1>19, <1>22, <2>2, SocketFacts
    <3>2. CASE sockets'[j].state = "closing"
          BY <1>15, <1>17, <1>19, <3>1, <3>2 DEF SocketSafe
    <3>3. CASE sockets'[j] = sockets[j] /\ j # k
      <4>1. CASE x = t
            BY <1>14, <1>15, <1>17, <3>1, <3>3, <4>1, SocketKept DEF q
      <4> QED
          BY <1>17, <3>1, <3>3, <4>1
    <3>4. j = k => sockets'[j].state = "closing"
      <4>1. SocketShape(sockets[j])
            BY <1>7 DEF ConnectionInv
      <4> QED
          BY <1>5, <1>22, <4>1 DEF SocketShape
    <3> QED
        BY <1>19, <3>2, <3>3, <3>4
  <2> QED
      BY <1>19, <2>1, <2>2
<1>23. ASSUME ~gap, NEW x \in Tab, NEW j \in Socket, IsActive(sockets'[j]), tabs'[x].remote = j
       PROVE  sockets'[j].tab = x
  <2>1. x # t
        BY <1>15, <1>17, <1>23, SocketAssumption
  <2>2. tabs[x].remote = j /\ sockets'[j] = sockets[j] /\ sockets[j].state # "closed"
        BY <1>17, <1>19, <1>23, <2>1 DEF IsActive
  <2> QED
      BY <1>23, <2>2, SocketFacts
<1> QED
    BY <1>6, <1>8, <1>18, <1>20, <1>21, <1>22, <1>23, LinkStep

LEMMA EndEventsData ==
    ASSUME NEW k, NEW events \in EndEvents(k), NEW table
    PROVE  /\ IsQueue(events) /\ QueueData(events, table)
           /\ \A job \in Elements(events) : ~IsEvent(job)
<1> DEFINE first == ErrorEvent(k, FALSE)
           last == ErrorEvent(k, TRUE)
<1>1. events = <<last>> \/ events = <<first, last>>
      BY DEF EndEvents
<1>2. ASSUME NEW reconnect \in BOOLEAN
      PROVE  ~IsEvent(ErrorEvent(k, reconnect)) /\ RemoteJobData(ErrorEvent(k, reconnect), table)
      BY DEF ErrorEvent, IsEvent, RemoteJobData
<1>3. ~IsEvent(first) /\ RemoteJobData(first, table) /\ ~IsEvent(last) /\ RemoteJobData(last, table)
      BY <1>2
<1> HIDE DEF first, last
<1>4. \A x, y : <<x>> = Append(<<>>, x) /\ <<y, x>> = Append(<<y>>, x)
      OBVIOUS
<1>5. \A x : IsQueue(<<x>>) /\ Elements(<<x>>) = {x}
  <2> TAKE x
  <2>1. IsQueue(Append(<<>>, x)) /\ Elements(Append(<<>>, x)) = Elements(<<>>) \cup {x}
        BY EmptyQueue, QueueAppend
  <2> QED
      BY <1>4, <2>1, EmptyQueue
<1>6. IsQueue(Append(<<first>>, last))
      /\ Elements(Append(<<first>>, last)) = Elements(<<first>>) \cup {last}
      BY <1>5, QueueAppend
<1>7. IsQueue(events) /\ Elements(events) \subseteq {first, last}
  <2>1. CASE events = <<last>>
        BY <1>5, <2>1
  <2>2. CASE events = <<first, last>>
        BY <1>4, <1>5, <1>6, <2>2
  <2> QED
      BY <1>1, <2>1, <2>2
<1> QED
    BY <1>3, <1>7 DEF QueueData

LEMMA ConcatData ==
    ASSUME NEW q, IsQueue(q), NEW p, IsQueue(p), NEW table,
           QueueData(q, table), QueueData(p, table)
    PROVE  IsQueue(q \o p) /\ QueueData(q \o p, table)
BY QueueConcat DEF QueueData

(* A connection breaks.                                                    *)
LEMMA BreakSafe ==
    ASSUME CursorStepInv, NEW k \in Socket, Break(k)
    PROVE  DataInv' /\ CursorInv'
<1>1. PICK t : t = sockets[k].tab
      OBVIOUS
<1> DEFINE q == tabs[t].remoteQueue
<1>2. PICK events \in EndEvents(k), n \in 0 .. Len(q) :
          tabs' = [tabs EXCEPT ![t].remoteQueue = Arrived(q, k, n) \o events]
      BY <1>1 DEF Break
<1> DEFINE o == Arrived(q, k, n)
           p == o \o events
           tab == [tabs[t] EXCEPT !.remoteQueue = p]
<1>3. ConnectionInv /\ DataInv
      BY DEF CursorStepInv
<1>4. Same /\ db' = db /\ gap' = gap /\ replaced' = replaced
      BY DEF Break, Same, server
<1>5. replaced' \in BOOLEAN /\ budget' \in [Bounded -> Nat]
      BY <1>3, <1>4, SpendNat DEF Break, Bounded, DataInv
<1>6. /\ \A x \in Tab : tabs'[x] = IF x = t THEN tab ELSE tabs[x]
      /\ \A x \in Socket : sockets'[x] = IF x = k THEN ClosedSocket ELSE sockets[x]
      /\ IsActive(sockets[k])
      BY <1>2, <1>3 DEF ConnectionInv, Break, IsActive
<1>7. ClosedSocket.state = "closed" /\ ClosedSocket.up = <<>>
      BY DEF ClosedSocket, NewSocket
<1>8. ASSUME t \in Tab
      PROVE  /\ IsQueue(q) /\ IsQueue(o) /\ QueueData(p, rows)
             /\ EventsFollow(q, Home(t), p, Home(t))
             /\ \A j : j # k => KeepsAll(q, Home(t), p, Home(t), j)
  <2>1. IsQueue(q) /\ QueueData(q, rows)
        BY <1>8, Facts DEF TabInv
  <2>2. IsQueue(o) /\ QueueData(o, rows)
        BY <2>1, ArrivedData
  <2>3. n \in Nat
        BY <2>1, QueueDomain
  <2>4. /\ EventsFollow(q, Home(t), o, Home(t))
        /\ \A j : j # k => KeepsAll(q, Home(t), o, Home(t), j)
        BY <2>1, <2>3, FromSocket, FollowsArrived
  <2>5. /\ IsQueue(events) /\ QueueData(events, rows)
        /\ \A job \in Elements(events) : ~IsEvent(job)
        BY EndEventsData
  <2> HIDE DEF o, q
  <2>6. Follows(o, Home(t), p, Home(t))
        BY <2>2, <2>5, FollowsConcat
  <2>7. QueueData(p, rows)
        BY <2>2, <2>5, ConcatData
  <2> HIDE DEF p
  <2>8. EventsFollow(q, Home(t), p, Home(t))
        BY <2>4, <2>6, EventsFollowOn DEF Follows
  <2>9. \A j : j # k => KeepsAll(q, Home(t), p, Home(t), j)
        BY <2>4, <2>6, KeepsOn DEF Follows
  <2> QED
      BY <2>1, <2>2, <2>7, <2>8, <2>9
<1>9. ASSUME t \in Tab
      PROVE  /\ tab.open = tabs[t].open /\ tab.dbOpen = tabs[t].dbOpen
             /\ tab.remote = tabs[t].remote
             /\ tab.localQueue = tabs[t].localQueue /\ tab.leader = tabs[t].leader
             /\ tab.timer = tabs[t].timer /\ tab.remoteQueue = p
      BY <1>9, Facts DEF TabInv, TabShape
<1> HIDE DEF p, tab
<1>10. \A x \in Tab : TabData(tabs'[x], rows)
  <2>1. ASSUME t \in Tab
        PROVE  TabData(tab, rows)
    <3>1. TabData(tabs[t], rows) /\ tabs[t].timer \in BOOLEAN
          BY <2>1, TabsSafe DEF TabData
    <3> QED
        BY <1>8, <1>9, <2>1, <3>1, TabDataQueue
  <2> QED
      BY <1>6, <2>1, TabsSafe
<1>11. \A x \in Socket : UpData(sockets'[x].up)
       BY <1>3, <1>6, <1>7, EmptyQueue DEF DataInv, UpData
<1>12. ASSUME ~gap, NEW x \in Tab
       PROVE  TabSafe(tabs'[x], Home(x), rows)
  <2>1. TabSafe(tabs[x], Home(x), rows)
        BY <1>12, TabsSafe
  <2>2. CASE x = t
        BY <1>6, <1>8, <1>9, <2>1, <2>2, TabFollows
  <2> QED
      BY <1>6, <2>1, <2>2
<1>13. ASSUME ~gap, NEW j \in Socket, sockets'[j].state # "closed"
       PROVE  /\ sockets'[j].tab \in Tab
              /\ sockets'[j].cursor \in 0 .. LastId(rows)
              /\ \A x \in Tab : sockets'[j].tab = x =>
                    SocketSafe(j, sockets'[j], tabs'[x], Home(x), rows)
  <2>1. j # k /\ sockets'[j] = sockets[j]
        BY <1>6, <1>7, <1>13
  <2>2. sockets[j].tab \in Tab /\ sockets[j].cursor \in 0 .. LastId(rows)
        BY <1>13, <2>1, SocketFacts
  <2>3. ASSUME NEW x \in Tab, sockets[j].tab = x
        PROVE  SocketSafe(j, sockets[j], tabs'[x], Home(x), rows)
    <3>1. SocketSafe(j, sockets[j], tabs[x], Home(x), rows)
          BY <1>13, <2>1, <2>3, SocketFacts
    <3>2. CASE x = t
          BY <1>6, <1>8, <1>9, <2>1, <3>1, <3>2, SocketKept
    <3> QED
        BY <1>6, <3>1, <3>2
  <2> QED
      BY <2>1, <2>2, <2>3
<1>14. ASSUME ~gap, NEW x \in Tab, NEW j \in Socket, IsActive(sockets'[j]), tabs'[x].remote = j
       PROVE  sockets'[j].tab = x
  <2>1. sockets'[j] = sockets[j] /\ sockets[j].state # "closed"
        BY <1>6, <1>7, <1>14 DEF IsActive
  <2>2. tabs[x].remote = j
        BY <1>6, <1>9, <1>14
  <2> QED
      BY <1>14, <2>1, <2>2, SocketFacts
<1> QED
    BY <1>4, <1>5, <1>10, <1>11, <1>12, <1>13, <1>14, LinkStep

-----------------------------------------------------------------------------
(* The server answers init.                                                *)

(* An event is put at the end of a queue, and what it promises is found.   *)
LEMMA EventAppended ==
    ASSUME NEW q, IsQueue(q), NEW job, NEW stored, NEW table,
           EventsSafe(q, stored, table),
           IsEvent(job) => \A r \in Needed(table, job.cursor) :
               IsFound(Append(q, job), Len(q) + 1, Origin(job), stored, r)
    PROVE  EventsSafe(Append(q, job), stored, table)
<1> DEFINE p == Append(q, job)
<1>1. Len(q) \in Nat /\ DOMAIN q = 1 .. Len(q)
      BY QueueDomain
<1>2. /\ IsQueue(p) /\ Len(p) = Len(q) + 1 /\ p[Len(q) + 1] = job
      /\ \A n \in 1 .. Len(q) : p[n] = q[n]
      BY QueueAppend
<1>3. Extends(p, q)
      BY ExtendsAppend
<1>4. DOMAIN p = 1 .. Len(p)
      BY <1>2, QueueDomain
<1>5. ASSUME NEW n \in DOMAIN p, IsEvent(p[n]), NEW r \in Needed(table, p[n].cursor)
      PROVE  IsFound(p, n, Origin(p[n]), stored, r)
  <2>1. CASE n = Len(q) + 1
        BY <1>2, <1>5, <2>1
  <2>2. CASE n # Len(q) + 1
    <3>1. n \in 1 .. Len(q) /\ p[n] = q[n]
          BY <1>1, <1>2, <1>4, <2>2
    <3>2. IsFound(q, n, Origin(p[n]), stored, r)
          BY <1>1, <1>5, <3>1 DEF EventsSafe
    <3>3. n \in 0 .. Len(q) /\ n \in 0 .. Len(p) /\ n <= n
          BY <1>1, <1>2, <3>1
    <3> HIDE DEF p
    <3> QED
        BY <1>3, <3>2, <3>3, FoundExtended
  <2> QED
      BY <2>1, <2>2
<1> QED
    BY <1>5 DEF EventsSafe

(* What the first part of a queue brings, the queue brings.                *)
LEMMA FoundBefore ==
    ASSUME NEW q, NEW p, Extends(p, q), NEW k, NEW stored, NEW r,
           IsFound(q, Len(q), k, stored, r)
    PROVE  IsFound(p, Len(p), k, stored, r)
<1>1. Len(q) \in 0 .. Len(q) /\ Len(q) \in 0 .. Len(p)
      BY QueueDomain DEF Extends
<1>2. Len(p) \in 0 .. Len(p) /\ Len(q) <= Len(p)
      BY QueueDomain DEF Extends
<1> QED
    BY <1>1, <1>2, FoundExtended

LEMMA KeepsExtended ==
    ASSUME NEW q, NEW p, Extends(p, q), NEW k, NEW stored
    PROVE  KeepsAll(q, stored, p, stored, k)
BY FoundBefore DEF KeepsAll

(* A job that brings a commit and is the last.                             *)
LEMMA FoundLast ==
    ASSUME NEW q, IsQueue(q), q # <<>>, NEW k, NEW stored, NEW r, Brings(q[Len(q)], k, r)
    PROVE  IsFound(q, Len(q), k, stored, r)
<1>1. Len(q) \in 1 .. Len(q)
      BY QueueDomain
<1> QED
    BY <1>1 DEF IsFound

(* The commits that are served.                                            *)
LEMMA ServedBatch ==
    ASSUME NEW table, TableData(table), NEW cursor,
           NEW refs, refs = GetCommitsEvent(table, cursor),
           NEW batch, batch = [n \in DOMAIN refs |-> Fresh(refs[n])]
    PROVE  /\ IsQueue(refs)
           /\ BatchOK(batch)
           /\ Refs(batch) = {table[n].ref : n \in Selected(table, cursor)}
           /\ Elements(refs) = Refs(batch)
<1>1. \A n \in DOMAIN table : table[n].remoteSyncId \in Nat /\ table[n].remoteSyncIndex \in Nat
      BY LastIdNat DEF TableData
<1>2. ServesOK(table, cursor, refs)
      BY <1>1, ServesRows DEF TableData
<1>3. IsQueue(refs) /\ Elements(refs) = {table[n].ref : n \in Selected(table, cursor)}
      BY <1>2 DEF ServesOK
<1>4. Len(refs) \in Nat /\ DOMAIN refs = 1 .. Len(refs)
      BY <1>3, QueueDomain
<1>5. batch = [n \in 1 .. Len(refs) |-> batch[n]]
      BY <1>4
<1>6. IsQueue(batch) /\ DOMAIN batch = 1 .. Len(refs)
      BY <1>4, <1>5, ListedQueue
<1>7. \A n \in 1 .. Len(refs) : batch[n].syncId = 0 /\ batch[n].ref = refs[n]
      BY <1>4 DEF Fresh
<1>8. BatchOK(batch)
      BY <1>6, <1>7 DEF BatchOK
<1>9. Refs(batch) = Elements(refs)
      BY <1>4, <1>6, <1>7 DEF Refs, Elements
<1> QED
    BY <1>3, <1>8, <1>9

(* Each row was there at the cursor or is served.                          *)
LEMMA NeededOrServed ==
    ASSUME NEW table, TableData(table), NEW cursor \in 0 .. LastId(table), NEW r \in RefsOf(table)
    PROVE  \/ r \in Needed(table, cursor)
           \/ r \in {table[n].ref : n \in Selected(table, cursor)}
<1>1. PICK n \in DOMAIN table : table[n].ref = r
      BY DEF RefsOf
<1>2. table[n].remoteSyncId \in Nat /\ cursor \in Nat
      BY LastIdNat DEF TableData
<1>3. CASE table[n].remoteSyncId <= cursor
      BY <1>1, <1>3 DEF Needed
<1>4. CASE table[n].remoteSyncId > cursor
      BY <1>1, <1>4 DEF Selected, After
<1> QED
    BY <1>2, <1>3, <1>4

LEMMA NeededRefs ==
    ASSUME NEW table, NEW cursor
    PROVE  Needed(table, cursor) \subseteq RefsOf(table)
BY DEF Needed, RefsOf

LEMMA LastRowId ==
    ASSUME DataInv
    PROVE  LastRow = LastId(rows) /\ LastRow \in 0 .. LastId(rows)
BY LastIdNat DEF DataInv, LastRow

LEMMA ServerInitSafe ==
    ASSUME CursorStepInv, NEW k \in Socket, ServerInit(k)
    PROVE  DataInv' /\ CursorInv'
<1>1. PICK t : t = sockets[k].tab
      OBVIOUS
<1> DEFINE cursor == sockets[k].cursor
           refs == GetCommitsEvent(rows, cursor)
           batch == [n \in DOMAIN refs |-> Fresh(refs[n])]
           event == [op |-> "commits", from |-> k, cursor |-> LastRow, commits |-> batch]
           q == tabs[t].remoteQueue
           p == IF refs = <<>> THEN q ELSE Append(q, event)
           tab == [tabs[t] EXCEPT !.remoteQueue = p]
<1>2. ConnectionInv /\ DataInv
      BY DEF CursorStepInv
<1>3. Same /\ db' = db /\ gap' = gap /\ replaced' = replaced /\ budget' = budget
      BY DEF ServerInit, Same, server, counters
<1>4. replaced' \in BOOLEAN /\ budget' \in [Bounded -> Nat]
      BY <1>2, <1>3 DEF DataInv
<1>5. /\ IsQueue(refs) /\ BatchOK(batch)
      /\ Refs(batch) = {rows[n].ref : n \in Selected(rows, cursor)}
      /\ Elements(refs) = Refs(batch)
      BY <1>2, ServedBatch DEF DataInv
<1>6. /\ sockets[k].state = "connecting"
      /\ sockets' = [sockets EXCEPT ![k].state = "open"]
      /\ tabs' = IF refs = <<>> THEN tabs
                 ELSE [tabs EXCEPT ![t].remoteQueue = Append(q, event)]
      BY <1>1 DEF ServerInit
<1>7. LastRow = LastId(rows) /\ LastRow \in 0 .. LastId(rows)
      BY <1>2, LastRowId
<1>8. /\ event.op = "commits" /\ event.from = k /\ event.cursor = LastRow
      /\ event.commits = batch
      OBVIOUS
<1> HIDE DEF batch, event
<1>9. RemoteJobData(event, rows)
  <2>1. Refs(batch) \subseteq RefsOf(rows)
        BY <1>5 DEF Selected, RefsOf
  <2> QED
      BY <1>5, <1>7, <1>8, <2>1 DEF RemoteJobData, IsEvent
<1>10. refs = <<>> => Refs(batch) = {}
       BY <1>5, EmptyQueue
<1> HIDE DEF refs
<1>11. /\ \A x \in Tab : tabs'[x] = tabs[x] \/ x = t
       /\ t \in Tab => tabs'[t].open = tabs[t].open /\ tabs'[t].dbOpen = tabs[t].dbOpen
             /\ tabs'[t].remote = tabs[t].remote
             /\ tabs'[t].localQueue = tabs[t].localQueue /\ tabs'[t].leader = tabs[t].leader
             /\ tabs'[t].timer = tabs[t].timer /\ tabs'[t].remoteQueue = p
  <2>1. CASE refs = <<>>
        BY <1>6, <2>1
  <2>2. CASE refs # <<>>
    <3>1. tabs' = [tabs EXCEPT ![t] = tab]
          BY <1>6, <2>2
    <3>2. \A x \in Tab : tabs'[x] = IF x = t THEN tab ELSE tabs[x]
          BY <1>2, <3>1 DEF ConnectionInv
    <3>3. t \in Tab => /\ tab.open = tabs[t].open /\ tab.dbOpen = tabs[t].dbOpen
                       /\ tab.remote = tabs[t].remote
                       /\ tab.localQueue = tabs[t].localQueue /\ tab.leader = tabs[t].leader
                       /\ tab.timer = tabs[t].timer /\ tab.remoteQueue = p
          BY Facts DEF TabInv, TabShape
    <3> HIDE DEF tab
    <3> QED
        BY <3>2, <3>3
  <2> QED
      BY <2>1, <2>2
<1>12. ASSUME NEW j \in Socket
       PROVE  /\ sockets'[j].up = sockets[j].up
              /\ sockets'[j].tab = sockets[j].tab /\ sockets'[j].cursor = sockets[j].cursor
              /\ j # k => sockets'[j] = sockets[j]
              /\ j = k => sockets'[j].state = "open"
  <2>1. SocketShape(sockets[j])
        BY <1>2 DEF ConnectionInv
  <2>2. sockets'[j] = IF j = k THEN [sockets[j] EXCEPT !.state = "open"] ELSE sockets[j]
        BY <1>2, <1>6 DEF ConnectionInv
  <2> QED
      BY <2>1, <2>2 DEF SocketShape
<1>13. ASSUME t \in Tab
       PROVE  QueueData(p, rows) /\ Extends(p, q) /\ IsQueue(q)
  <2>1. IsQueue(q) /\ QueueData(q, rows)
        BY <1>13, Facts DEF TabInv
  <2> HIDE DEF q
  <2>2. CASE refs = <<>>
        BY <2>1, <2>2, QueueDomain DEF Extends
  <2>3. CASE refs # <<>>
    <3>1. Extends(Append(q, event), q)
          BY <2>1, ExtendsAppend
    <3>2. QueueData(Append(q, event), rows)
          BY <1>9, <2>1, QueueAppend DEF QueueData
    <3> QED
        BY <2>1, <2>3, <3>1, <3>2
  <2> QED
      BY <2>2, <2>3
<1>14. \A x \in Tab : TabData(tabs'[x], rows)
  <2>1. ASSUME t \in Tab
        PROVE  TabData(tabs'[t], rows)
    <3>1. TabData(tabs[t], rows) /\ tabs[t].timer \in BOOLEAN
          BY <2>1, TabsSafe DEF TabData
    <3> QED
        BY <1>11, <1>13, <2>1, <3>1, TabDataQueue
  <2> QED
      BY <1>11, <2>1, TabsSafe
<1>15. \A x \in Socket : UpData(sockets'[x].up)
       BY <1>2, <1>12 DEF DataInv
(* All that the server has is found at the end of the queue.               *)
<1>16. ASSUME ~gap, t \in Tab, tabs[t].dbOpen, NEW r \in RefsOf(rows)
       PROVE  IsFound(p, Len(p), k, Home(t), r)
  <2>1. cursor \in 0 .. LastId(rows) /\ SocketSafe(k, sockets[k], tabs[t], Home(t), rows)
        BY <1>1, <1>6, <1>16, SocketFacts
  <2>2. CASE r \in Needed(rows, cursor)
        BY <1>6, <1>16, <2>1, <2>2 DEF SocketSafe, IsFound
  <2>3. CASE r \in Refs(batch)
    <3>1. refs # <<>> /\ IsQueue(q)
          BY <1>10, <1>13, <1>16, <2>3
    <3>2. p = Append(q, event)
          BY <3>1
    <3>3. IsQueue(p) /\ Len(p) = Len(q) + 1 /\ p[Len(p)] = event
          BY <3>1, <3>2, QueueAppend
    <3>4. p # <<>>
      <4>1. Len(q) \in Nat
            BY <3>1, QueueDomain
      <4> HIDE DEF p, q
      <4>2. Len(p) # 0
            BY <3>3, <4>1
      <4> QED
          BY <3>3, <4>2, QueueDomain
    <3>5. Brings(p[Len(p)], k, r)
          BY <1>8, <2>3, <3>3 DEF Brings
    <3> QED
        BY <3>3, <3>4, <3>5, FoundLast
  <2> QED
      BY <1>2, <1>5, <1>16, <2>1, <2>2, <2>3, NeededOrServed DEF DataInv
<1>17. ASSUME ~gap, t \in Tab, tabs[t].dbOpen
       PROVE  EventsSafe(p, Home(t), rows)
  <2>1. EventsSafe(q, Home(t), rows)
        BY <1>17, TabsSafe DEF TabSafe
  <2>2. CASE refs = <<>>
        BY <2>1, <2>2
  <2>3. CASE refs # <<>>
    <3>1. IsQueue(q) /\ p = Append(q, event)
          BY <1>13, <1>17, <2>3
    <3>2. Len(p) = Len(q) + 1
          BY <3>1, QueueAppend
    <3>3. Origin(event) = k
          BY <1>8 DEF Origin
    <3>4. \A r \in Needed(rows, event.cursor) :
              IsFound(Append(q, event), Len(q) + 1, Origin(event), Home(t), r)
          BY <1>16, <1>17, <3>1, <3>2, <3>3, NeededRefs
    <3> HIDE DEF q, p
    <3>5. EventsSafe(Append(q, event), Home(t), rows)
          BY <2>1, <3>1, <3>4, EventAppended
    <3> QED
        BY <3>1, <3>5
  <2> QED
      BY <2>2, <2>3
<1>18. ASSUME ~gap, NEW x \in Tab
       PROVE  TabSafe(tabs'[x], Home(x), rows)
  <2>1. TabSafe(tabs[x], Home(x), rows)
        BY <1>18, TabsSafe
  <2>2. CASE x = t
    <3>1. LocalSafe(tabs'[t].localQueue, Home(t))
          BY <1>11, <2>1, <2>2 DEF TabSafe
    <3>2. tabs'[t].dbOpen => EventsSafe(tabs'[t].remoteQueue, Home(t), rows)
          BY <1>11, <1>17, <1>18, <2>2
    <3> QED
        BY <2>2, <3>1, <3>2 DEF TabSafe
  <2>3. CASE x # t
        BY <1>11, <2>1, <2>3
  <2> QED
      BY <2>2, <2>3
<1>19. ASSUME ~gap, NEW j \in Socket, sockets'[j].state # "closed"
       PROVE  /\ sockets'[j].tab \in Tab
              /\ sockets'[j].cursor \in 0 .. LastId(rows)
              /\ \A x \in Tab : sockets'[j].tab = x =>
                    SocketSafe(j, sockets'[j], tabs'[x], Home(x), rows)
  <2>1. sockets[j].state # "closed"
        BY <1>6, <1>12, <1>19
  <2>2. sockets[j].tab \in Tab /\ sockets[j].cursor \in 0 .. LastId(rows)
        BY <1>19, <2>1, SocketFacts
  <2>3. ASSUME NEW x \in Tab, sockets[j].tab = x
        PROVE  SocketSafe(j, sockets'[j], tabs'[x], Home(x), rows)
    <3>1. SocketSafe(j, sockets[j], tabs[x], Home(x), rows)
          BY <1>19, <2>1, <2>3, SocketFacts
    <3>2. CASE j = k
      <4>1. x = t
            BY <1>1, <2>3, <3>2
      <4>2. sockets'[k].state = "open" /\ UpSafe(sockets'[k].up, Home(t)) /\ tabs'[t].open
            BY <1>11, <1>12, <3>1, <3>2, <4>1 DEF SocketSafe
      <4>3. tabs'[t].dbOpen => \A r \in RefsOf(rows) :
                IsFound(tabs'[t].remoteQueue, Len(tabs'[t].remoteQueue), k, Home(t), r)
            BY <1>11, <1>16, <1>19, <4>1
      <4>4. SocketSafe(k, sockets'[k], tabs'[t], Home(t), rows)
            BY <4>2, <4>3 DEF SocketSafe
      <4> QED
          BY <3>2, <4>1, <4>4
    <3>3. CASE j # k
      <4>1. CASE x = t
        <5>1. KeepsAll(q, Home(t), p, Home(t), j)
              BY <1>13, <4>1, KeepsExtended
        <5>2. SocketSafe(j, sockets[j], tabs'[x], Home(x), rows)
              BY <1>11, <3>1, <4>1, <5>1, SocketKept
        <5> QED
            BY <1>12, <3>3, <5>2
      <4>2. CASE x # t
            BY <1>11, <1>12, <3>1, <3>3, <4>2
      <4> QED
          BY <4>1, <4>2
    <3> QED
        BY <3>2, <3>3
  <2> QED
      BY <1>12, <2>2, <2>3
<1>20. ASSUME ~gap, NEW x \in Tab, NEW j \in Socket, IsActive(sockets'[j]), tabs'[x].remote = j
       PROVE  sockets'[j].tab = x
  <2>1. IsActive(sockets[j]) /\ sockets[j].state # "closed"
        BY <1>6, <1>12, <1>20 DEF IsActive
  <2>2. tabs[x].remote = j
        BY <1>11, <1>20
  <2> QED
      BY <1>12, <1>20, <2>1, <2>2, SocketFacts
<1> QED
    BY <1>3, <1>4, <1>14, <1>15, <1>18, <1>19, <1>20, LinkStep

-----------------------------------------------------------------------------
(* The server adds commits.                                                *)

(* The table after the commits of a batch have been added, those that are  *)
(* acknowledged, and the syncId of the last row.                           *)
Grows(old, new, refs, acks, last) ==
    /\ TableData(new)
    /\ LastId(old) <= LastId(new) /\ last = LastId(new)
    /\ RefsOf(old) \subseteq RefsOf(new)
    /\ \A c \in 0 .. LastId(old) : Needed(new, c) \subseteq Needed(old, c)
    /\ RefsOf(new) \subseteq RefsOf(old) \cup (refs \cap acks)
    /\ acks \subseteq RefsOf(new)

LEMMA TableGrows ==
    ASSUME NEW table, TableData(table), NEW memo, memo.seenRefs = RefsOf(table),
           NEW refs, IsQueue(refs), NEW id, id = LastId(table) + 1,
           NEW added, added = LiveDocAddCommits(table, memo, refs, id),
           NEW last, last = IF added.rows = table THEN LastId(table) ELSE id
    PROVE  /\ Grows(table, added.rows, Elements(refs), added.acks, last)
           /\ added.memory.seenRefs = RefsOf(added.rows)
<1> DEFINE new == added.rows
           len == Len(table)
<1>1. LastId(table) \in Nat /\ id \in Nat
      BY LastIdNat
<1>2. IsQueue(table) /\ len \in Nat /\ DOMAIN table = 1 .. len
      BY QueueDomain DEF TableData
<1>3. AddsOK(table, memo, refs, id, added)
      BY <1>2, AddsCommits
<1>4. TableOK(table, memo.seenRefs, new, Elements(refs), added.acks, id)
      BY <1>3 DEF AddsOK
<1>5. /\ IsQueue(new) /\ len <= Len(new) /\ \A m \in 1 .. len : new[m] = table[m]
      /\ \A m \in len + 1 .. Len(new) :
            RowOK(new, len, m, memo.seenRefs, Elements(refs), added.acks, id)
      BY <1>4 DEF TableOK, Later
<1>6. Len(new) \in Nat /\ DOMAIN new = 1 .. Len(new) /\ (new = <<>> <=> Len(new) = 0)
      BY <1>5, QueueDomain
<1>7. ASSUME NEW m \in len + 1 .. Len(new)
      PROVE  /\ new[m].remoteSyncId = id /\ new[m].remoteSyncIndex \in Nat
             /\ new[m].ref \in Elements(refs) /\ new[m].ref \in added.acks
  <2>1. /\ new[m].remoteSyncId = id /\ new[m].remoteSyncIndex = m - len - 1
        /\ new[m].ref \in Elements(refs) /\ new[m].ref \in added.acks
    <3>1. RowOK(new, len, m, memo.seenRefs, Elements(refs), added.acks, id)
          BY <1>5
    <3>2. PICK r, main : new[m] = [ref |-> r, remoteSyncId |-> id,
                                   remoteSyncIndex |-> m - len - 1, main |-> main]
          BY <3>1 DEF RowOK
    <3>3. new[m].ref \in Elements(refs) /\ new[m].ref \in added.acks
          BY <3>1 DEF RowOK
    <3> HIDE DEF new
    <3>4. new[m].remoteSyncId = id /\ new[m].remoteSyncIndex = m - len - 1
          BY <3>2
    <3> QED
        BY <3>3, <3>4
  <2>2. m - len - 1 \in Nat
        BY <1>2, <1>6
  <2> QED
      BY <2>1, <2>2
<1>8. added.memory.seenRefs = memo.seenRefs \cup NewRefs(new, len)
      BY <1>3 DEF AddsOK
<1>9. RefsOf(new) = RefsOf(table) \cup NewRefs(new, len)
  <2>1. \A m \in 1 .. Len(new) : m \in 1 .. len \/ m \in len + 1 .. Len(new)
        BY <1>2, <1>6
  <2>2. \A m \in 1 .. len : m \in 1 .. Len(new)
        BY <1>2, <1>5, <1>6
  <2>3. \A m \in len + 1 .. Len(new) : m \in 1 .. Len(new)
        BY <1>2, <1>5, <1>6
  <2> QED
      BY <1>2, <1>5, <1>6, <2>1, <2>2, <2>3 DEF RefsOf, NewRefs, Later
<1>10. added.acks \subseteq added.memory.seenRefs
       BY <1>3 DEF AddsOK
<1>11. NewRefs(new, len) \subseteq Elements(refs) \cap added.acks
       BY <1>7 DEF NewRefs, Later
<1> HIDE DEF new, len
<1>12. CASE Len(new) = len
  <2>1. \A m \in DOMAIN new : new[m] = table[m]
        BY <1>5, <1>6, <1>12
  <2>2. DOMAIN new = DOMAIN table
        BY <1>2, <1>6, <1>12
  <2>3. new \in Seq(Elements(new)) /\ table \in Seq(Elements(table))
        BY <1>2, <1>5, QueueDomain
  <2>4. new = table
        BY <2>1, <2>2, <2>3
  <2>5. last = LastId(table)
        BY <2>4 DEF new
  <2>6. \A c \in 0 .. LastId(table) : Needed(new, c) \subseteq Needed(table, c)
        BY <2>4
  <2>7. LastId(table) <= LastId(new) /\ last = LastId(new) /\ TableData(new)
        BY <1>1, <2>4, <2>5
  <2>8. Grows(table, new, Elements(refs), added.acks, last)
        BY <1>8, <1>9, <1>10, <1>11, <2>6, <2>7 DEF Grows
  <2> QED
      BY <1>8, <1>9, <2>8 DEF new
<1>13. CASE Len(new) # len
  <2>1. Len(new) \in len + 1 .. Len(new) /\ new # <<>>
    <3>1. len \in Nat /\ Len(new) \in Nat /\ len <= Len(new) /\ Len(new) # len
          BY <1>2, <1>5, <1>6, <1>13
    <3>2. Len(new) # 0 /\ Len(new) \in len + 1 .. Len(new)
          BY <3>1
    <3> QED
        BY <1>6, <3>2
  <2>2. LastId(new) = id
        BY <1>7, <2>1 DEF LastId
  <2>3. new # table
        BY <1>13 DEF len
  <2>4. last = id
        BY <2>3 DEF new
  <2>5. ASSUME NEW m \in DOMAIN new
        PROVE  new[m].remoteSyncId \in 1 .. id /\ new[m].remoteSyncIndex \in Nat
    <3>1. CASE m \in 1 .. len
          BY <1>1, <1>2, <1>5, <3>1 DEF TableData
    <3>2. CASE m \in len + 1 .. Len(new)
          BY <1>1, <1>7, <3>2
    <3> QED
        BY <1>2, <1>6, <3>1, <3>2
  <2>6. TableData(new)
        BY <1>5, <2>2, <2>5 DEF TableData
  <2>7. ASSUME NEW c \in 0 .. LastId(table)
        PROVE  Needed(new, c) \subseteq Needed(table, c)
    <3>1. ASSUME NEW m \in DOMAIN new, new[m].remoteSyncId <= c
          PROVE  m \in DOMAIN table /\ new[m] = table[m]
      <4>1. m \notin len + 1 .. Len(new)
            BY <1>1, <1>7, <3>1
      <4> QED
          BY <1>2, <1>5, <1>6, <4>1
    <3> QED
        BY <3>1 DEF Needed
  <2>8. LastId(table) <= LastId(new) /\ last = LastId(new)
        BY <1>1, <2>2, <2>4
  <2>9. Grows(table, new, Elements(refs), added.acks, last)
        BY <1>8, <1>9, <1>10, <1>11, <2>6, <2>7, <2>8 DEF Grows
  <2> QED
      BY <1>8, <1>9, <2>9 DEF new
<1> QED
    BY <1>12, <1>13

(* What was in order with the table is in order with the grown one.        *)
LEMMA GrownData ==
    ASSUME NEW old, TableData(old), NEW new, NEW refs, NEW acks, NEW last,
           Grows(old, new, refs, acks, last)
    PROVE  /\ \A job : RemoteJobData(job, old) => RemoteJobData(job, new)
           /\ \A q : QueueData(q, old) => QueueData(q, new)
           /\ \A tab : TabData(tab, old) => TabData(tab, new)
           /\ \A d : DbData(d, old) => DbData(d, new)
<1>1. /\ RefsOf(old) \subseteq RefsOf(new) /\ 0 .. LastId(old) \subseteq 0 .. LastId(new)
  <2>1. LastId(old) \in Nat /\ LastId(new) \in Nat /\ LastId(old) <= LastId(new)
        BY LastIdNat DEF Grows
  <2> QED
      BY <2>1 DEF Grows
<1>2. \A job : RemoteJobData(job, old) => RemoteJobData(job, new)
      BY <1>1 DEF RemoteJobData
<1>3. \A q : QueueData(q, old) => QueueData(q, new)
      BY <1>2 DEF QueueData
<1>4. \A tab : TabData(tab, old) => TabData(tab, new)
      BY <1>3 DEF TabData
<1>5. \A d : DbData(d, old) => DbData(d, new)
      BY <1>1 DEF DbData
<1> QED
    BY <1>2, <1>3, <1>4, <1>5

LEMMA GrownEvents ==
    ASSUME NEW old, NEW new, NEW refs, NEW acks, NEW last,
           Grows(old, new, refs, acks, last),
           NEW q, NEW stored, EventsSafe(q, stored, old), QueueData(q, old)
    PROVE  EventsSafe(q, stored, new)
<1>1. ASSUME NEW n \in DOMAIN q, IsEvent(q[n]), NEW r \in Needed(new, q[n].cursor)
      PROVE  IsFound(q, n, Origin(q[n]), stored, r)
  <2>1. q[n].cursor \in 0 .. LastId(old)
        BY <1>1 DEF QueueData, RemoteJobData, Elements
  <2>2. r \in Needed(old, q[n].cursor)
        BY <1>1, <2>1 DEF Grows
  <2> QED
      BY <1>1, <2>2 DEF EventsSafe
<1> QED
    BY <1>1 DEF EventsSafe

-----------------------------------------------------------------------------
(* What each store gets of it.                                             *)

(* The store with more events.                                             *)
Gets(a, b, p) ==
    /\ b.open = a.open /\ b.dbOpen = a.dbOpen /\ b.remote = a.remote
    /\ b.localQueue = a.localQueue /\ b.leader = a.leader /\ b.timer = a.timer
    /\ b.closed = a.closed /\ b.known = a.known /\ b.missed = a.missed
    /\ b.remoteQueue = a.remoteQueue \o p /\ IsQueue(p)

Broadcast(o, last, news) == [op |-> "commits", from |-> o, cursor |-> last, commits |-> news]
Acknowledgement(k, acks, last) ==
    [op |-> "ack", from |-> k, acks |-> acks, cursor |-> last]

OpenSockets(t) == {o \in Socket : sockets[o].tab = t /\ sockets[o].state = "open"}

(* The server's answer to the store that sent, and nothing for the others  *)
(* of its browser.                                                         *)
AnswerOK(p, k, t, sender, acks, last) ==
    \A job \in Elements(p) :
        job = Acknowledgement(k, acks, last) /\ t = sender /\ sockets[k].state = "open"

(* Each open socket of a store of another browser gets the commits.        *)
BroadcastOK(p, t, last, news) ==
    /\ \A n \in DOMAIN p : \E o \in OpenSockets(t) : p[n] = Broadcast(o, last, news)
    /\ \A o \in OpenSockets(t) : \E n \in DOMAIN p : p[n] = Broadcast(o, last, news)

GetsOK(p, k, t, sender, acks, last, news) ==
    IF storeOf[t] = storeOf[sender] THEN AnswerOK(p, k, t, sender, acks, last)
    ELSE BroadcastOK(p, t, last, news)

LEMMA ListedSet ==
    ASSUME NEW S, S \subseteq Socket
    PROVE  /\ IsQueue(SetToSeq(S)) /\ Len(SetToSeq(S)) = Cardinality(S)
           /\ Elements(SetToSeq(S)) = S /\ Cardinality(S) \in Nat
<1> DEFINE card == Cardinality(S)
           q == SetToSeq(S)
<1>1. IsFiniteSet(S)
      BY SocketAssumption, FS_Subset
<1>2. card \in Nat /\ \E f \in [1 .. card -> S] : IsInjective(f)
      BY <1>1, FS_CardinalityType DEF ExistsBijection, Bijection, Injection
<1>3. q \in [1 .. card -> S] /\ IsInjective(q)
      BY <1>2 DEF SetToSeq
<1>4. \A i, j \in 1 .. card : i < j => q[i] # q[j]
      BY <1>2, <1>3 DEF IsInjective
<1> HIDE DEF q
<1>5. IsQueue(q) /\ Len(q) = Cardinality(S) /\ Elements(q) = S
      BY <1>1, <1>3, <1>4, ListsAll
<1> QED
    BY <1>2, <1>5 DEF q

LEMMA ConcatEmpty ==
    ASSUME NEW q, IsQueue(q), NEW p, IsQueue(p), Len(p) = 0
    PROVE  q \o p = q
<1>1. PICK S : q \in Seq(S)
      BY DEF IsQueue
<1>2. p = <<>>
      BY QueueDomain
<1> QED
    BY <1>1, <1>2

LEMMA SingleQueue ==
    ASSUME NEW x
    PROVE  IsQueue(<<x>>) /\ Elements(<<x>>) = {x} /\ Len(<<x>>) = 1
<1>1. <<x>> = Append(<<>>, x) /\ Len(<<x>>) = 1
      OBVIOUS
<1>2. IsQueue(Append(<<>>, x)) /\ Elements(Append(<<>>, x)) = Elements(<<>>) \cup {x}
      BY EmptyQueue, QueueAppend
<1> QED
    BY <1>1, <1>2, EmptyQueue

(* The list of broadcasts to some sockets.                                 *)
ListsBroadcasts(p, S, last, news) ==
    /\ IsQueue(p) /\ Len(p) = Cardinality(S)
    /\ \A n \in DOMAIN p : \E o \in S : p[n] = Broadcast(o, last, news)
    /\ \A o \in S : \E n \in DOMAIN p : p[n] = Broadcast(o, last, news)

LEMMA BroadcastList ==
    ASSUME NEW S, S \subseteq Socket, NEW last, NEW news,
           NEW p, p = [n \in 1 .. Cardinality(S) |-> Broadcast(SetToSeq(S)[n], last, news)]
    PROVE  ListsBroadcasts(p, S, last, news)
<1> DEFINE q == SetToSeq(S)
           card == Cardinality(S)
<1>1. IsQueue(q) /\ Len(q) = card /\ Elements(q) = S /\ card \in Nat
      BY ListedSet
<1>2. DOMAIN q = 1 .. card
      BY <1>1, QueueDomain
<1>3. p = [n \in 1 .. card |-> p[n]] /\ \A n \in 1 .. card : p[n] = Broadcast(q[n], last, news)
      OBVIOUS
<1> HIDE DEF q, card
<1>4. IsQueue(p) /\ Len(p) = card
      BY <1>1, <1>3, ListedQueue
<1>5. DOMAIN p = 1 .. card
      BY <1>3
<1>6. \A n \in DOMAIN p : q[n] \in S
      BY <1>1, <1>2, <1>5 DEF Elements
<1>7. \A o \in S : \E n \in DOMAIN p : q[n] = o
      BY <1>1, <1>2, <1>5 DEF Elements
<1>8. \A n \in DOMAIN p : \E o \in S : p[n] = Broadcast(o, last, news)
      BY <1>3, <1>5, <1>6
<1>9. ASSUME NEW o \in S
      PROVE  \E n \in DOMAIN p : p[n] = Broadcast(o, last, news)
  <2>1. PICK n \in DOMAIN p : q[n] = o
        BY <1>7
  <2>2. p[n] = Broadcast(q[n], last, news)
        BY <1>3, <1>5, <2>1
  <2> QED
      BY <2>1, <2>2
<1> QED
    BY <1>4, <1>8, <1>9 DEF card, ListsBroadcasts

LEMMA GetsQueue ==
    ASSUME NEW a, TabShape(a), NEW p, IsQueue(p), NEW q, q = a.remoteQueue \o p,
           NEW b, b = [a EXCEPT !.remoteQueue = q]
    PROVE  Gets(a, b, p)
<1>1. /\ b.open = a.open /\ b.dbOpen = a.dbOpen /\ b.remote = a.remote
      /\ b.localQueue = a.localQueue /\ b.leader = a.leader /\ b.timer = a.timer
      /\ b.closed = a.closed /\ b.known = a.known /\ b.missed = a.missed
      /\ b.remoteQueue = q
      BY DEF TabShape
<1> QED
    BY <1>1 DEF Gets

LEMMA TabsGet ==
    ASSUME ConnectionInv, NEW k \in Socket, NEW x \in Tab,
           NEW acks, NEW last, NEW news, NEW others,
           others = {o \in Socket : /\ sockets[o].tab = x /\ sockets[o].state = "open"
                                    /\ storeOf[x] # storeOf[sockets[k].tab]},
           NEW ts, ts = Receives(tabs, k, <<Acknowledgement(k, acks, last)>>)[x],
           NEW tab, tab = [ts EXCEPT !.remoteQueue = ts.remoteQueue \o
               [n \in 1 .. Cardinality(others) |-> Broadcast(SetToSeq(others)[n], last, news)]]
    PROVE  \E p : Gets(tabs[x], tab, p) /\ GetsOK(p, k, x, sockets[k].tab, acks, last, news)
<1> DEFINE q == tabs[x].remoteQueue
           list == [n \in 1 .. Cardinality(others) |-> Broadcast(SetToSeq(others)[n], last, news)]
           ack == Acknowledgement(k, acks, last)
           sender == sockets[k].tab
           answered == x = sender /\ sockets[k].state = "open"
           first == q \o <<ack>>
<1>1. TabInv(tabs[x]) /\ TabShape(tabs[x]) /\ IsQueue(q)
      BY TabFact DEF TabInv
<1>2. ts = IF answered THEN [tabs[x] EXCEPT !.remoteQueue = first] ELSE tabs[x]
      BY DEF Receives, ConnectionInv
<1>3. others \subseteq Socket
      OBVIOUS
<1>0. list = [n \in 1 .. Cardinality(others) |-> Broadcast(SetToSeq(others)[n], last, news)]
      OBVIOUS
<1>7. tab = [ts EXCEPT !.remoteQueue = ts.remoteQueue \o list]
      OBVIOUS
<1> HIDE DEF list
<1>4. /\ IsQueue(list) /\ Len(list) = Cardinality(others)
      /\ \A n \in DOMAIN list : \E o \in others : list[n] = Broadcast(o, last, news)
      /\ \A o \in others : \E n \in DOMAIN list : list[n] = Broadcast(o, last, news)
  <2>1. ListsBroadcasts(list, others, last, news)
        BY <1>0, <1>3, BroadcastList
  <2> QED
      BY <2>1 DEF ListsBroadcasts
<1>5. IsQueue(<<ack>>) /\ Elements(<<ack>>) = {ack}
      BY SingleQueue
<1>6. IsQueue(first)
      BY <1>1, <1>5, QueueConcat
<1> HIDE DEF ack, first
<1>8. CASE storeOf[x] = storeOf[sender]
  <2>1. others = {}
        BY <1>8
  <2>2. Len(list) = 0
        BY <1>4, <2>1, FS_EmptySet
  <2>3. CASE answered
    <3>1. first \o list = first
          BY <1>4, <1>6, <2>2, ConcatEmpty
    <3>2. ts = [tabs[x] EXCEPT !.remoteQueue = first] /\ ts.remoteQueue = first
          BY <1>1, <1>2, <2>3 DEF TabShape
    <3>3. tab = [ts EXCEPT !.remoteQueue = first]
          BY <1>7, <3>1, <3>2
    <3>6. tab = [tabs[x] EXCEPT !.remoteQueue = first]
          BY <1>1, <3>2, <3>3 DEF TabShape
    <3>4. Gets(tabs[x], tab, <<ack>>)
          BY <1>1, <1>5, <3>6, GetsQueue DEF first
    <3>5. GetsOK(<<ack>>, k, x, sender, acks, last, news)
          BY <1>5, <1>8, <2>3 DEF GetsOK, AnswerOK, ack
    <3> QED
        BY <3>4, <3>5
  <2>4. CASE ~answered
    <3>1. q \o list = q
          BY <1>1, <1>4, <2>2, ConcatEmpty
    <3>2. ts = tabs[x]
          BY <1>2, <2>4
    <3>3. tab = [tabs[x] EXCEPT !.remoteQueue = q]
          BY <1>7, <3>1, <3>2
    <3>4. Elements(list) = {}
          BY <1>4, <2>1 DEF Elements
    <3>5. Gets(tabs[x], tab, list)
          BY <1>1, <1>4, <3>1, <3>3, GetsQueue
    <3>6. GetsOK(list, k, x, sender, acks, last, news)
          BY <1>8, <3>4 DEF GetsOK, AnswerOK
    <3> QED
        BY <3>5, <3>6
  <2> QED
      BY <2>3, <2>4
<1>9. CASE storeOf[x] # storeOf[sender]
  <2>1. others = OpenSockets(x)
        BY <1>9 DEF OpenSockets
  <2>2. ts = tabs[x]
        BY <1>2, <1>9
  <2>6. tab = [tabs[x] EXCEPT !.remoteQueue = q \o list]
        BY <1>7, <2>2
  <2>3. Gets(tabs[x], tab, list)
        BY <1>1, <1>4, <2>6, GetsQueue
  <2>4. BroadcastOK(list, x, last, news)
        BY <1>4, <2>1 DEF BroadcastOK
  <2>5. GetsOK(list, k, x, sender, acks, last, news)
        BY <1>9, <2>4 DEF GetsOK
  <2> QED
      BY <2>3, <2>5
<1> QED
    BY <1>8, <1>9

(* The commits of the message that are broadcast.                          *)
LEMMA NewsData ==
    ASSUME NEW batch, BatchOK(batch), NEW acks,
           NEW news, news = Among(batch, {n \in DOMAIN batch : batch[n].ref \in acks})
    PROVE  BatchOK(news) /\ Refs(news) = Refs(batch) \cap acks
<1> DEFINE kept == {n \in DOMAIN batch : batch[n].ref \in acks}
<1>1. IsQueue(batch) /\ \A n \in DOMAIN batch : batch[n].syncId \in Nat
      BY DEF BatchOK
<1>2. kept \subseteq DOMAIN batch
      OBVIOUS
<1>3. /\ IsQueue(news) /\ Elements(news) = {batch[n] : n \in kept}
      BY <1>1, <1>2, AmongQueue
<1>4. \A x : x \in Elements(news) <=> \E n \in DOMAIN batch : x = batch[n] /\ batch[n].ref \in acks
      BY <1>3
<1> HIDE DEF kept
<1>5. \A n \in DOMAIN news : news[n].syncId \in Nat
  <2> TAKE n \in DOMAIN news
  <2>1. news[n] \in Elements(news)
        BY DEF Elements
  <2> QED
      BY <1>1, <1>4, <2>1
<1>6. Refs(news) = {y.ref : y \in Elements(news)}
      BY DEF Refs, Elements
<1>7. ASSUME NEW r
      PROVE  r \in Refs(news) <=> r \in Refs(batch) \cap acks
  <2>1. r \in Refs(news) <=> \E n \in DOMAIN batch : r = batch[n].ref /\ batch[n].ref \in acks
        BY <1>4, <1>6
  <2> QED
      BY <2>1 DEF Refs
<1> QED
    BY <1>3, <1>5, <1>7 DEF BatchOK

(* What brings what in a queue with more events.                           *)
LEMMA FoundGrown ==
    ASSUME NEW q, IsQueue(q), NEW p, IsQueue(p), NEW n \in 0 .. Len(p),
           NEW k, NEW stored, NEW r, IsFound(q, Len(q), k, stored, r)
    PROVE  IsFound(q \o p, Len(q) + n, k, stored, r)
<1>1. Len(q) \in Nat /\ Len(p) \in Nat /\ Len(q \o p) = Len(q) + Len(p)
      BY QueueDomain, QueueConcat
<1>2. Extends(q \o p, q)
      BY ExtendsConcat
<1>3. Len(q) \in 0 .. Len(q) /\ Len(q) + n \in 0 .. Len(q \o p) /\ Len(q) <= Len(q) + n
      BY <1>1
<1> QED
    BY <1>2, <1>3, FoundExtended

LEMMA FoundNew ==
    ASSUME NEW q, IsQueue(q), NEW p, IsQueue(p), NEW n \in 0 .. Len(p), NEW m \in 1 .. n,
           NEW k, NEW stored, NEW r, Brings(p[m], k, r)
    PROVE  IsFound(q \o p, Len(q) + n, k, stored, r)
<1>1. Len(q) \in Nat /\ Len(p) \in Nat /\ m \in 1 .. Len(p)
      BY QueueDomain
<1>2. (q \o p)[Len(q) + m] = p[m]
      BY <1>1, QueueConcat
<1>3. Len(q) + m \in 1 .. Len(q) + n
      BY <1>1
<1> QED
    BY <1>2, <1>3 DEF IsFound

LEMMA EventsConcat ==
    ASSUME NEW q, IsQueue(q), NEW p, IsQueue(p), NEW stored, NEW table,
           EventsSafe(q, stored, table),
           \A n \in DOMAIN p : IsEvent(p[n]) => \A r \in Needed(table, p[n].cursor) :
               IsFound(q \o p, Len(q) + n, Origin(p[n]), stored, r)
    PROVE  EventsSafe(q \o p, stored, table)
<1> DEFINE o == q \o p
<1>1. Len(q) \in Nat /\ DOMAIN q = 1 .. Len(q) /\ Len(p) \in Nat /\ DOMAIN p = 1 .. Len(p)
      BY QueueDomain
<1>2. /\ IsQueue(o) /\ Len(o) = Len(q) + Len(p)
      /\ \A n \in 1 .. Len(q) : o[n] = q[n]
      /\ \A n \in 1 .. Len(p) : o[Len(q) + n] = p[n]
      BY QueueConcat
<1>3. Extends(o, q)
      BY ExtendsConcat
<1>4. DOMAIN o = 1 .. Len(o)
      BY <1>2, QueueDomain
<1> HIDE DEF o
<1>5. ASSUME NEW n \in DOMAIN o, IsEvent(o[n]), NEW r \in Needed(table, o[n].cursor)
      PROVE  IsFound(o, n, Origin(o[n]), stored, r)
  <2>1. CASE n \in 1 .. Len(q)
    <3>1. o[n] = q[n] /\ n \in DOMAIN q
          BY <1>1, <1>2, <2>1
    <3>2. IsFound(q, n, Origin(o[n]), stored, r)
          BY <1>5, <3>1 DEF EventsSafe
    <3>3. n \in 0 .. Len(q) /\ n \in 0 .. Len(o) /\ n <= n
          BY <1>1, <1>2, <2>1
    <3> QED
        BY <1>3, <3>2, <3>3, FoundExtended
  <2>2. CASE n \notin 1 .. Len(q)
    <3>1. PICK m : m = n - Len(q)
          OBVIOUS
    <3>2. m \in 1 .. Len(p) /\ n = Len(q) + m
          BY <1>1, <1>2, <1>4, <2>2, <3>1
    <3>3. o[n] = p[m] /\ m \in DOMAIN p
          BY <1>1, <1>2, <3>2
    <3> QED
        BY <1>5, <3>2, <3>3 DEF o
  <2> QED
      BY <2>1, <2>2
<1> QED
    BY <1>5 DEF EventsSafe, o

LEMMA PartData ==
    ASSUME NEW k \in Socket, NEW x, NEW sender, NEW acks, NEW last, NEW news, NEW table, NEW p,
           GetsOK(p, k, x, sender, acks, last, news),
           acks \subseteq RefsOf(table), last \in 0 .. LastId(table),
           BatchOK(news), Refs(news) \subseteq RefsOf(table)
    PROVE  QueueData(p, table)
<1>1. RemoteJobData(Acknowledgement(k, acks, last), table)
      BY DEF RemoteJobData, IsEvent, Acknowledgement
<1>2. ASSUME NEW o \in Socket
      PROVE  RemoteJobData(Broadcast(o, last, news), table)
      BY DEF RemoteJobData, IsEvent, Broadcast
<1>3. ASSUME NEW job \in Elements(p)
      PROVE  RemoteJobData(job, table)
  <2>1. CASE AnswerOK(p, k, x, sender, acks, last)
        BY <1>1, <1>3, <2>1 DEF AnswerOK
  <2>2. CASE BroadcastOK(p, x, last, news)
    <3>1. PICK n \in DOMAIN p : job = p[n]
          BY <1>3 DEF Elements
    <3>2. PICK o \in OpenSockets(x) : p[n] = Broadcast(o, last, news)
          BY <2>2, <3>1 DEF BroadcastOK
    <3> QED
        BY <1>2, <3>1, <3>2 DEF OpenSockets
  <2> QED
      BY <2>1, <2>2 DEF GetsOK
<1> QED
    BY <1>3 DEF QueueData

(* A socket has brought all that the server has now, if it brought all     *)
(* before: what is new was stored before it was sent, or is broadcast.     *)
LEMMA NewFound ==
    ASSUME NEW k, NEW x, NEW sender, NEW acks, NEW last, NEW news, NEW old, NEW new, NEW sent,
           Grows(old, new, sent, acks, last), Refs(news) = sent \cap acks,
           NEW q, IsQueue(q), NEW p, IsQueue(p), NEW n \in 0 .. Len(p), NEW stored, NEW j,
           \A r \in RefsOf(old) : IsFound(q, Len(q), j, stored, r),
           sent \subseteq stored \/ \E m \in 1 .. n : p[m] = Broadcast(j, last, news),
           NEW r \in RefsOf(new)
    PROVE  IsFound(q \o p, Len(q) + n, j, stored, r)
<1>1. CASE r \in RefsOf(old)
      BY <1>1, FoundGrown
<1>2. CASE r \in sent \cap acks
  <2>1. CASE r \in stored
        BY <2>1 DEF IsFound
  <2>2. CASE \E m \in 1 .. n : p[m] = Broadcast(j, last, news)
    <3>1. PICK m \in 1 .. n : p[m] = Broadcast(j, last, news)
          BY <2>2
    <3>2. Brings(p[m], j, r)
          BY <1>2, <3>1 DEF Brings, Broadcast
    <3> QED
        BY <3>2, FoundNew
  <2> QED
      BY <1>2, <2>1, <2>2
<1> QED
    BY <1>1, <1>2 DEF Grows

(* The open sockets of a store have brought all that the server has.       *)
HasAll(tab, x, stored, table) ==
    \A j \in OpenSockets(x) : tab.dbOpen => \A r \in RefsOf(table) :
        IsFound(tab.remoteQueue, Len(tab.remoteQueue), j, stored, r)

TabAndSockets(tab, x, stored, table) ==
    TabSafe(tab, stored, table) /\ HasAll(tab, x, stored, table)

(* The store after the step.                                               *)
LEMMA GetsSafe ==
    ASSUME NEW k \in Socket, NEW x, NEW sender, NEW acks, NEW last, NEW news,
           NEW old, NEW new, NEW sent, TableData(old),
           Grows(old, new, sent, acks, last), Refs(news) = sent \cap acks,
           NEW a, NEW b, NEW p, TabInv(a), TabData(a, old), NEW stored,
           Gets(a, b, p), GetsOK(p, k, x, sender, acks, last, news),
           sockets[k].tab = sender, TabAndSockets(a, x, stored, old),
           storeOf[x] = storeOf[sender] => sent \subseteq stored
    PROVE  TabAndSockets(b, x, stored, new)
<1> DEFINE q == a.remoteQueue
<1>1. /\ b.dbOpen = a.dbOpen /\ b.localQueue = a.localQueue
      /\ b.remoteQueue = q \o p /\ IsQueue(p) /\ IsQueue(q) /\ QueueData(q, old)
      BY DEF Gets, TabInv, TabData
<1>2. Len(q) \in Nat /\ Len(p) \in Nat /\ DOMAIN p = 1 .. Len(p) /\ Len(q \o p) = Len(q) + Len(p)
      BY <1>1, QueueDomain, QueueConcat
<1> HIDE DEF q
<1>3. ASSUME a.dbOpen
      PROVE  EventsSafe(q \o p, stored, new)
  <2>1. EventsSafe(q, stored, new)
        BY <1>1, <1>3, GrownEvents DEF TabAndSockets, TabSafe, q
  <2>2. ASSUME NEW n \in DOMAIN p, NEW r \in Needed(new, p[n].cursor)
        PROVE  IsFound(q \o p, Len(q) + n, Origin(p[n]), stored, r)
    <3>1. r \in RefsOf(new) /\ n \in 0 .. Len(p) /\ n \in 1 .. n
          BY <1>2, <2>2, NeededRefs
    <3>2. CASE storeOf[x] = storeOf[sender]
      <4>1. /\ p[n] = Acknowledgement(k, acks, last) /\ x = sender
            /\ sockets[k].state = "open"
            BY <3>2 DEF GetsOK, AnswerOK, Elements
      <4>2. Origin(p[n]) = k /\ k \in OpenSockets(x)
            BY <4>1 DEF Origin, Acknowledgement, OpenSockets
      <4>3. \A y \in RefsOf(old) : IsFound(q, Len(q), k, stored, y)
            BY <1>3, <4>2 DEF TabAndSockets, HasAll, q
      <4> QED
          BY <1>1, <3>1, <3>2, <4>2, <4>3, NewFound
    <3>3. CASE storeOf[x] # storeOf[sender]
      <4>1. PICK o \in OpenSockets(x) : p[n] = Broadcast(o, last, news)
            BY <3>3 DEF GetsOK, BroadcastOK
      <4>2. Origin(p[n]) = o
            BY <4>1 DEF Origin, Broadcast
      <4>3. \A y \in RefsOf(old) : IsFound(q, Len(q), o, stored, y)
            BY <1>3, <4>1 DEF TabAndSockets, HasAll, q
      <4> QED
          BY <1>1, <3>1, <4>1, <4>2, <4>3, NewFound
    <3> QED
        BY <3>2, <3>3
  <2> QED
      BY <1>1, <2>1, <2>2, EventsConcat
<1>4. TabSafe(b, stored, new)
      BY <1>1, <1>3 DEF TabAndSockets, TabSafe
<1>5. ASSUME NEW j \in OpenSockets(x), b.dbOpen, NEW r \in RefsOf(new)
      PROVE  IsFound(q \o p, Len(q) + Len(p), j, stored, r)
  <2>1. \A y \in RefsOf(old) : IsFound(q, Len(q), j, stored, y)
        BY <1>1, <1>5 DEF TabAndSockets, HasAll, q
  <2>2. sent \subseteq stored \/ \E m \in 1 .. Len(p) : p[m] = Broadcast(j, last, news)
        BY <1>2, <1>5 DEF GetsOK, BroadcastOK
  <2>3. Len(p) \in 0 .. Len(p)
        BY <1>2
  <2> QED
      BY <1>1, <1>5, <2>1, <2>2, <2>3, NewFound
<1>6. HasAll(b, x, stored, new)
      BY <1>1, <1>2, <1>5 DEF HasAll
<1> QED
    BY <1>4, <1>6 DEF TabAndSockets

LEMMA ServerCommitsSafe ==
    ASSUME CursorStepInv, NEW k \in Socket, ServerCommits(k)
    PROVE  DataInv' /\ CursorInv'
<1>1. PICK sender : sender = sockets[k].tab
      OBVIOUS
<1> DEFINE
      up == sockets[k].up
      batch == Head(up).commits
      refs == [n \in DOMAIN batch |-> batch[n].ref]
      sent == Refs(batch)
      id == LastRow + 1
      added == LiveDocAddCommits(rows, memory, refs, id)
      acks == added.acks
      last == IF added.rows = rows THEN LastRow ELSE id
      news == Among(batch, {n \in DOMAIN batch : batch[n].ref \in acks})
      new == added.rows
<1>2. ConnectionInv /\ DataInv /\ TableData(rows)
      BY DEF CursorStepInv, DataInv
<1>3. /\ sockets[k].state \in {"open", "closing"} /\ up # <<>>
      /\ rows' = new /\ memory' = added.memory
      /\ sockets' = [sockets EXCEPT ![k].up = Tail(up)]
      BY DEF ServerCommits
<1>4. /\ storeOf' = storeOf /\ db' = db /\ gap' = gap /\ replaced' = replaced
      /\ budget' = budget
      BY DEF ServerCommits, counters
<1>5. IsQueue(up) /\ BatchOK(batch) /\ UpData(Tail(up))
  <2>1. UpData(up)
        BY <1>2 DEF DataInv
  <2> QED
      BY <1>3, <2>1, QueueTail DEF UpData
<1>6. IsQueue(refs) /\ Elements(refs) = sent
  <2>1. IsQueue(batch)
        BY <1>5 DEF BatchOK
  <2> HIDE DEF batch
  <2>2. Len(batch) \in Nat /\ DOMAIN batch = 1 .. Len(batch)
        BY <2>1, QueueDomain
  <2>3. refs = [n \in 1 .. Len(batch) |-> refs[n]] /\ DOMAIN refs = DOMAIN batch
        BY <2>2
  <2>4. IsQueue(refs)
        BY <2>2, <2>3, ListedQueue
  <2>5. Elements(refs) = Refs(batch)
        BY DEF Elements, Refs
  <2> QED
      BY <2>4, <2>5
<1>7. /\ Grows(rows, new, sent, acks, last)
      /\ added.memory.seenRefs = RefsOf(new)
  <2>1. memory.seenRefs = RefsOf(rows) /\ LastRow = LastId(rows)
        BY <1>2, LastRowId DEF DataInv
  <2>2. id = LastId(rows) + 1 /\ last = IF added.rows = rows THEN LastId(rows) ELSE id
        BY <2>1
  <2> HIDE DEF refs, id, last, sent
  <2>3. /\ Grows(rows, added.rows, Elements(refs), added.acks, last)
        /\ added.memory.seenRefs = RefsOf(added.rows)
        BY <1>2, <1>6, <2>1, <2>2, TableGrows
  <2> QED
      BY <1>6, <2>3
<1>8. BatchOK(news) /\ Refs(news) = sent \cap acks
  <2> HIDE DEF batch, added
  <2> QED
      BY <1>5, NewsData
<1>9. ASSUME NEW x \in Tab
      PROVE  \E p : Gets(tabs[x], tabs'[x], p) /\ GetsOK(p, k, x, sender, acks, last, news)
  <2> DEFINE others == {o \in Socket : /\ sockets[o].tab = x /\ sockets[o].state = "open"
                                       /\ storeOf[x] # storeOf[sockets[k].tab]}
             ts == Receives(tabs, k, <<Acknowledgement(k, acks, last)>>)[x]
             list == [n \in 1 .. Cardinality(others) |->
                         Broadcast(SetToSeq(others)[n], last, news)]
  <2>1. tabs'[x] = [ts EXCEPT !.remoteQueue = ts.remoteQueue \o list]
        BY DEF ServerCommits, Acknowledgement, Broadcast
  <2> HIDE DEF acks, last, news
  <2> QED
      BY <1>1, <1>2, <2>1, TabsGet
<1> HIDE DEF acks, last, news, new, added, refs, id, sent, batch
<1>10. /\ TableData(new) /\ last \in 0 .. LastId(new) /\ acks \subseteq RefsOf(new)
       /\ Refs(news) \subseteq RefsOf(new) /\ LastId(rows) <= LastId(new)
       /\ LastId(rows) \in Nat /\ LastId(new) \in Nat
       BY <1>2, <1>7, <1>8, LastIdNat DEF Grows
<1>11. \A x \in Socket : sockets'[x] =
           IF x = k THEN [sockets[x] EXCEPT !.up = Tail(up)] ELSE sockets[x]
       BY <1>2, <1>3 DEF ConnectionInv
<1>12. ASSUME NEW x \in Socket
       PROVE  /\ sockets'[x].state = sockets[x].state /\ sockets'[x].tab = sockets[x].tab
              /\ sockets'[x].cursor = sockets[x].cursor
              /\ UpData(sockets'[x].up)
              /\ \A stored : UpSafe(sockets[x].up, stored) => UpSafe(sockets'[x].up, stored)
  <2>1. SocketShape(sockets[x]) /\ UpData(sockets[x].up)
        BY <1>2 DEF ConnectionInv, DataInv
  <2>2. \A stored : UpSafe(up, stored) => UpSafe(Tail(up), stored)
        BY <1>3, <1>5, QueueTail DEF UpSafe
  <2> HIDE DEF up
  <2>3. CASE x = k
    <3>1. sockets[x].up = up /\ sockets'[x].up = Tail(up)
          BY <1>11, <2>1, <2>3 DEF SocketShape, up
    <3> QED
        BY <1>5, <1>11, <2>1, <2>2, <2>3, <3>1 DEF SocketShape
  <2>4. CASE x # k
        BY <1>11, <2>1, <2>4
  <2> QED
      BY <2>3, <2>4
<1>13. ASSUME NEW x \in Tab
       PROVE  TabData(tabs'[x], new)
  <2>1. PICK p : Gets(tabs[x], tabs'[x], p) /\ GetsOK(p, k, x, sender, acks, last, news)
        BY <1>9
  <2>2. TabData(tabs[x], new) /\ IsQueue(tabs[x].remoteQueue)
        BY <1>2, <1>7, Facts, GrownData DEF TabInv
  <2>3. QueueData(p, new)
        BY <1>8, <1>10, <2>1, PartData
  <2>4. QueueData(tabs[x].remoteQueue \o p, new)
        BY <2>1, <2>2, <2>3, ConcatData DEF TabData, Gets
  <2>5. tabs[x].timer \in BOOLEAN
        BY <2>2 DEF TabData
  <2> QED
      BY <2>1, <2>2, <2>4, <2>5, TabDataQueue DEF Gets
<1>14. DataInv'
  <2>1. \A s \in Store : DbData(db'[s], new)
        BY <1>2, <1>4, <1>7, GrownData DEF DataInv
  <2>2. memory'.seenRefs = RefsOf(rows')
        BY <1>3, <1>7
  <2> QED
      BY <1>2, <1>3, <1>4, <1>10, <1>12, <1>13, <2>1, <2>2 DEF DataInv
<1>15. \A x : Home(x)' = Home(x)
       BY <1>4, HomeStays
<1>16. ASSUME ~gap
       PROVE  SafeInv'
  <2>1. SafeInv
        BY <1>16 DEF CursorStepInv, CursorInv
  <2>2. ASSUME NEW s \in Store
        PROVE  DbSafe(db'[s], new)
    <3>1. DbSafe(db[s], rows) /\ db[s].lastSyncCursor \in 0 .. LastId(rows)
          BY <1>2, <2>1 DEF SafeInv, DataInv, DbData
    <3> QED
        BY <1>4, <1>7, <3>1 DEF DbSafe, Grows
(* What is sent is stored in the browser of the socket.                    *)
  <2>3. ASSUME NEW x \in Tab, storeOf[x] = storeOf[sender]
        PROVE  sent \subseteq Home(x)
    <3>1. sender \in Tab /\ SocketSafe(k, sockets[k], tabs[sender], Home(sender), rows)
          BY <1>1, <1>3, <1>16, SocketFacts
    <3>2. UpSafe(up, Home(sender))
          BY <3>1 DEF SocketSafe
    <3>3. Head(up) \in Elements(up)
          BY <1>3, <1>5, QueueTail
    <3> QED
        BY <2>3, <3>2, <3>3 DEF UpSafe, Home, sent, batch
  <2>4. ASSUME NEW x \in Tab
        PROVE  /\ TabSafe(tabs'[x], Home(x), new)
               /\ \A j \in OpenSockets(x) : tabs'[x].dbOpen => \A r \in RefsOf(new) :
                      IsFound(tabs'[x].remoteQueue, Len(tabs'[x].remoteQueue), j, Home(x), r)
               /\ tabs'[x].open = tabs[x].open /\ tabs'[x].dbOpen = tabs[x].dbOpen
               /\ tabs'[x].remote = tabs[x].remote
    <3>1. PICK p : Gets(tabs[x], tabs'[x], p) /\ GetsOK(p, k, x, sender, acks, last, news)
          BY <1>9
    <3>2. TabInv(tabs[x]) /\ TabData(tabs[x], rows) /\ TabSafe(tabs[x], Home(x), rows)
          BY <2>1, Facts DEF SafeInv
    <3>3. ASSUME NEW j \in OpenSockets(x), tabs[x].dbOpen, NEW r \in RefsOf(rows)
          PROVE  IsFound(tabs[x].remoteQueue, Len(tabs[x].remoteQueue), j, Home(x), r)
      <4>1. j \in Socket /\ sockets[j].state = "open" /\ sockets[j].tab = x
            BY <3>3 DEF OpenSockets
      <4>2. SocketSafe(j, sockets[j], tabs[x], Home(x), rows)
            BY <1>16, <4>1, SocketFacts
      <4> QED
          BY <3>3, <4>1, <4>2 DEF SocketSafe
    <3>6. TabAndSockets(tabs[x], x, Home(x), rows)
          BY <3>2, <3>3 DEF TabAndSockets, HasAll
    <3>7. TabAndSockets(tabs'[x], x, Home(x), new)
          BY <1>1, <1>2, <1>7, <1>8, <2>3, <3>1, <3>2, <3>6, GetsSafe
    <3>4. /\ TabSafe(tabs'[x], Home(x), new)
          /\ \A j \in OpenSockets(x) : tabs'[x].dbOpen => \A r \in RefsOf(new) :
                 IsFound(tabs'[x].remoteQueue, Len(tabs'[x].remoteQueue), j, Home(x), r)
          BY <3>7 DEF TabAndSockets, HasAll
    <3>5. /\ tabs'[x].open = tabs[x].open /\ tabs'[x].dbOpen = tabs[x].dbOpen
          /\ tabs'[x].remote = tabs[x].remote
          BY <3>1 DEF Gets
    <3> QED
        BY <3>4, <3>5
  <2>5. ASSUME NEW j \in Socket, sockets'[j].state # "closed"
        PROVE  /\ sockets'[j].tab \in Tab
               /\ sockets'[j].cursor \in 0 .. LastId(new)
               /\ \A x \in Tab : sockets'[j].tab = x =>
                     SocketSafe(j, sockets'[j], tabs'[x], Home(x), new)
    <3>1. sockets[j].state # "closed"
          BY <1>12, <2>5
    <3>2. sockets[j].tab \in Tab /\ sockets[j].cursor \in 0 .. LastId(rows)
          BY <1>16, <3>1, SocketFacts
    <3>3. sockets[j].cursor \in 0 .. LastId(new)
          BY <1>10, <3>2
    <3>4. ASSUME NEW x \in Tab, sockets[j].tab = x
          PROVE  SocketSafe(j, sockets'[j], tabs'[x], Home(x), new)
      <4>1. SocketSafe(j, sockets[j], tabs[x], Home(x), rows)
            BY <1>16, <3>1, <3>4, SocketFacts
      <4>2. tabs'[x].open /\ UpSafe(sockets'[j].up, Home(x))
            BY <1>12, <2>4, <4>1 DEF SocketSafe
      <4>3. sockets'[j].state = "connecting" /\ tabs'[x].dbOpen =>
                Needed(new, sockets'[j].cursor) \subseteq Home(x)
            BY <1>7, <1>12, <2>4, <3>2, <4>1 DEF SocketSafe, Grows
      <4>4. sockets'[j].state = "open" => j \in OpenSockets(x)
            BY <1>12, <3>4 DEF OpenSockets
      <4>5. sockets'[j].state = "open" /\ tabs'[x].dbOpen => \A r \in RefsOf(new) :
                IsFound(tabs'[x].remoteQueue, Len(tabs'[x].remoteQueue), j, Home(x), r)
            BY <2>4, <4>4
      <4> QED
          BY <4>2, <4>3, <4>5 DEF SocketSafe
    <3> QED
        BY <1>12, <3>2, <3>3, <3>4
  <2>6. ASSUME NEW x \in Tab, NEW j \in Socket, IsActive(sockets'[j]), tabs'[x].remote = j
        PROVE  sockets'[j].tab = x
    <3>1. IsActive(sockets[j]) /\ tabs[x].remote = j
          BY <1>12, <2>4, <2>6 DEF IsActive
    <3> QED
        BY <1>12, <2>1, <3>1 DEF SafeInv
  <2> QED
      BY <1>3, <1>15, <2>2, <2>4, <2>5, <2>6 DEF SafeInv
<1> QED
    BY <1>4, <1>14, <1>16 DEF CursorInv

-----------------------------------------------------------------------------
(* The specification.                                                      *)

LEMMA InitCursor == Init => CursorStepInv
<1> SUFFICES ASSUME Init
             PROVE  CursorStepInv
    OBVIOUS
<1>1. ConnectionInv
      BY InitConnection
<1>2. /\ db = [s \in Store |-> EmptyDb] /\ rows = <<>> /\ memory = NewMemory(<<>>)
      /\ sockets = [k \in Socket |-> ClosedSocket]
      /\ tabs = [t \in Tab |-> [NewTab EXCEPT !.localQueue = <<>>]]
      /\ gap = FALSE /\ replaced = FALSE
      BY DEF Init
<1>3. storeOf \in [Tab -> Store] /\ budget \in [Bounded -> Nat]
      BY ScenarioAssumption DEF Init
<1>4. TableData(<<>>) /\ RefsOf(<<>>) = {}
      BY EmptyQueue DEF TableData, RefsOf
<1>5. DbIs(EmptyDb, <<>>, {}, 0)
      BY <1>4, EmptyDbData
<1>6. NewMemory(<<>>).seenRefs = {}
      BY <1>4 DEF NewMemory
<1>7. ClosedSocket.state = "closed" /\ ClosedSocket.up = <<>> /\ UpData(<<>>)
      BY EmptyQueue DEF ClosedSocket, NewSocket, UpData
<1> DEFINE tab == [NewTab EXCEPT !.localQueue = <<>>]
<1>8. /\ tab.localQueue = <<>> /\ tab.remoteQueue = <<>> /\ tab.leader = FALSE
      /\ tab.timer = FALSE /\ tab.remote = NoSocket
      BY DEF NewTab
<1> HIDE DEF tab
<1>9. TabData(tab, <<>>) /\ \A stored : TabSafe(tab, stored, <<>>)
  <2>1. IsQueue(<<>>) /\ Elements(<<>>) = {} /\ DOMAIN <<>> = {}
        BY EmptyQueue
  <2>2. TabData(tab, <<>>)
        BY <1>8, <2>1 DEF TabData, QueueData, LocalData
  <2>3. \A stored : TabSafe(tab, stored, <<>>)
        BY <1>8, <2>1 DEF TabSafe, LocalSafe, EventsSafe
  <2> QED
      BY <2>2, <2>3
<1>10. DataInv
  <2>1. db = [s \in Store |-> db[s]] /\ \A s \in Store : DbData(db[s], rows)
        BY <1>2, <1>5 DEF DbIs
  <2>2. \A t \in Tab : TabData(tabs[t], rows)
        BY <1>2, <1>9 DEF tab
  <2>3. \A k \in Socket : UpData(sockets[k].up)
        BY <1>2, <1>7
  <2>4. TableData(rows) /\ memory.seenRefs = RefsOf(rows)
        BY <1>2, <1>4, <1>6
  <2> QED
      BY <1>2, <1>3, <2>1, <2>2, <2>3, <2>4 DEF DataInv
<1>11. SafeInv
  <2>1. \A s \in Store : DbSafe(db[s], rows)
        BY <1>2 DEF DbSafe, Needed
  <2>2. \A t \in Tab : TabSafe(tabs[t], Home(t), rows)
        BY <1>2, <1>9 DEF tab
  <2>3. \A k \in Socket : sockets[k].state = "closed"
        BY <1>2, <1>7
  <2> QED
      BY <2>1, <2>2, <2>3 DEF SafeInv, IsActive
<1> QED
    BY <1>1, <1>10, <1>11 DEF CursorStepInv, CursorInv

LEMMA NextCursor ==
    ASSUME CursorStepInv, [Next]_vars
    PROVE  CursorStepInv'
<1>1. ConnectionInv'
      BY NextConnection DEF CursorStepInv
<1>2. DataInv' /\ CursorInv'
  <2>1. CASE UNCHANGED vars
        BY <2>1, NothingSafe
  <2>2. ASSUME NEW t \in Tab,
               \/ Edit(t) \/ Promote(t) \/ Demote(t) \/ Reconnect(t)
               \/ Shutdown(t) \/ Crash(t) \/ Open(t)
        PROVE  DataInv' /\ CursorInv'
        BY <2>2, EditSafe, PromoteSafe, DemoteSafe, ReconnectSafe, ShutdownSafe, CrashSafe,
           OpenSafe
  <2>3. ASSUME NEW t \in Tab, Jobs(t)
        PROVE  DataInv' /\ CursorInv'
        BY <2>3, ConnectSafe, ConnectClosedSafe, UploadSafe, CloseJobSafe, CloseDatabaseSafe,
           RemoteCommitsSafe, RemoteCommitsThrowSafe, PersistSafe, AckSafe, OnErrorSafe DEF Jobs
  <2>4. ASSUME NEW t \in Tab, LocalJobs(t)
        PROVE  DataInv' /\ CursorInv'
        BY <2>4, LoadSafe, LocalThrowsSafe, UpdateSafe, LocalEventSafe DEF LocalJobs
  <2>5. ASSUME NEW k \in Socket, Network(k) \/ Break(k)
        PROVE  DataInv' /\ CursorInv'
        BY <2>5, SocketClosesSafe, ServerInitSafe, ServerCommitsSafe, BreakSafe DEF Network
  <2> QED
      BY <2>1, <2>2, <2>3, <2>4, <2>5, ResetSafe DEF Next
<1> QED
    BY <1>1, <1>2 DEF CursorStepInv

LEMMA CursorTypeOK == CursorStepInv => TypeOK
<1> SUFFICES ASSUME CursorStepInv
             PROVE  TypeOK
    OBVIOUS
<1>1. ConnectionInv /\ DataInv
      BY DEF CursorStepInv
<1>2. LastRow = LastId(rows)
      BY <1>1, LastRowId
<1>3. \A s \in Store : DbOK(s)
      BY <1>1, <1>2 DEF DataInv, DbData, DbOK, CommitData
<1>4. ASSUME NEW t \in Tab
      PROVE  /\ tabs[t].remote \in Socket \cup {NoSocket}
             /\ \A field \in {"open", "closed", "dbOpen", "leader", "timer"} :
                   tabs[t][field] \in BOOLEAN
  <2>1. TabShape(tabs[t]) /\ TabData(tabs[t], rows)
        BY Facts DEF TabInv
  <2> QED
      BY <2>1 DEF TabShape, TabData
<1>5. \A k \in Socket : sockets[k].state \in {"connecting", "open", "closing", "closed"}
      BY <1>1 DEF ConnectionInv, SocketShape
<1>6. memory.seenRefs = ServerRefs
      BY <1>1 DEF DataInv, ServerRefs
<1> QED
    BY <1>1, <1>3, <1>4, <1>5, <1>6 DEF TypeOK, DataInv

LEMMA CursorIsSafe == CursorStepInv => CursorSafe
BY DEF CursorStepInv, CursorInv, SafeInv, DbSafe, Needed, CursorSafe

LEMMA CursorSynced == CursorStepInv => SyncedOnServer
BY DEF CursorStepInv, DataInv, DbData, SyncedOnServer, ServerRefs

LEMMA CursorStepInvAlways == Spec => []CursorStepInv
<1>1. Init => CursorStepInv
      BY InitCursor
<1>2. CursorStepInv /\ [Next]_vars => CursorStepInv'
      BY NextCursor
<1> QED
    BY <1>1, <1>2, PTL DEF Spec

(* The state has the shape it should have; among others, no cursor is      *)
(* ahead of the server, and the memory of the server's store agrees with   *)
(* its table.                                                              *)
THEOREM TypesAreOK == Spec => []TypeOK
BY CursorTypeOK, CursorStepInvAlways, PTL

(* The remote has the commits the store will not send again: those the     *)
(* heads sync leaves out (getCommitsForRemote) are rows of the server, as  *)
(* long as its store is not replaced.                                      *)
THEOREM SyncedIsOnServer == Spec => []SyncedOnServer
BY CursorSynced, CursorStepInvAlways, PTL

(* The cursor a database has recorded (upsertRemoteSyncInfo) never passes  *)
(* a row whose commit it lacks, unless a client threw at an event or a tab *)
(* died within a job: no commit of the server is skipped for good.         *)
THEOREM CursorIsAlwaysSafe == Spec => []CursorSafe
BY CursorIsSafe, CursorStepInvAlways, PTL
=============================================================================
