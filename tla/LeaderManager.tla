--------------------------- MODULE LeaderManager ---------------------------
(***************************************************************************)
(* lib/LeaderManager.ts: the clients of one local store choose which of    *)
(* them connects to the remote, over a broadcast channel.                  *)
(*                                                                         *)
(* The channel is external: it delivers an event to every other client, in *)
(* the order they were sent, after any delay (the store handles events one *)
(* at a time, CoordinatingLocalStore.onLocalBroadcastEvent).               *)
(*                                                                         *)
(* Time is abstracted to what the settings say of it: events arrive well   *)
(* within an election timeout (1 s), and heartbeats (2 s) well within a    *)
(* heartbeat timeout (8 s).  A timer that fires earlier than that, because *)
(* a tab was suspended or the channel was slow, is counted in `late'.      *)
(***************************************************************************)
EXTENDS Integers, SequencesExt, FiniteSetsExt

CONSTANTS
    Client,    \* clientIds; their order is that of the numbers
    NoLeader,  \* undefined, as a clientId
    MaxStops,  \* bound: tabs closed, cleanly or not
    MaxLate    \* bound: timers that fire while events are on their way

ASSUME ClientAssumption == Client \subseteq Nat /\ NoLeader \notin Client
ASSUME BoundAssumption == MaxStops \in Nat /\ MaxLate \in Nat

VARIABLES
    open,     \* clients whose manager is running (not closed)
    manager,  \* the fields of each manager
    inbox,    \* leader events on their way to a client
    stops,
    late

vars == <<open, manager, inbox, stops, late>>

-----------------------------------------------------------------------------
Event == [action : {"request", "accept", "current", "withdraw"}, clientId : Client]

LeaderEvent(action, c) == [action |-> action, clientId |-> c]

(* The fields of a LeaderManager, the timers as whether they are set.      *)
Manager ==
    [currentLeaderId : Client \cup {NoLeader}, isLeader : BOOLEAN,
     potentialLeaders : SUBSET Client, electionTimeout : BOOLEAN,
     leaderHeartbeat : BOOLEAN, heartbeatTimeout : BOOLEAN]

NewManager ==
    [currentLeaderId |-> NoLeader, isLeader |-> FALSE, potentialLeaders |-> {},
     electionTimeout |-> FALSE, leaderHeartbeat |-> FALSE, heartbeatTimeout |-> FALSE]

(* A method maps a manager and the events it has sent to the same.         *)
Calling(m) == [m |-> m, sent |-> <<>>]

(* A bug: events carry the leader's id.                                    *)
BroadcastLeader(s, action, c) ==
    [s EXCEPT !.sent = Append(@, LeaderEvent(action, s.m.currentLeaderId))]

Broadcast(s, action, c) == [s EXCEPT !.sent = Append(@, LeaderEvent(action, c))]

(* elect()                                                                 *)
Elect(s, c) ==
    IF s.m.electionTimeout THEN s
    ELSE Broadcast([s EXCEPT !.m.potentialLeaders = {c}, !.m.electionTimeout = TRUE],
                   "request", c)

(* A bug: the heartbeat timeout is set only when this client is demoted.   *)
SetLeaderNoTimeout(s, c, leaderId) ==
    LET isLeader == leaderId = c
        changed  == s.m.isLeader # isLeader
        set == [s EXCEPT !.m.electionTimeout = FALSE,
                         !.m.currentLeaderId = leaderId,
                         !.m.isLeader = isLeader,
                         !.m.leaderHeartbeat = IF changed THEN isLeader ELSE @,
                         !.m.heartbeatTimeout = changed /\ ~isLeader]
    IN  IF changed /\ isLeader THEN Broadcast(set, "current", c) ELSE set

(* setLeader(leaderId)                                                     *)
SetLeader(s, c, leaderId) ==
    LET isLeader == leaderId = c
        changed  == s.m.isLeader # isLeader
        set == [s EXCEPT !.m.electionTimeout = FALSE,
                         !.m.currentLeaderId = leaderId,
                         !.m.isLeader = isLeader,
                         !.m.leaderHeartbeat = IF changed THEN isLeader ELSE @,
                         !.m.heartbeatTimeout = ~isLeader]
    IN  IF changed /\ isLeader THEN Broadcast(set, "current", c) ELSE set

(* A bug: the leader does not announce itself to a client that asks.       *)
OnRequestSilent(s, c, other) ==
    IF s.m.currentLeaderId = NoLeader
    THEN Broadcast([Elect(s, c) EXCEPT !.m.potentialLeaders = @ \cup {other}], "accept", c)
    ELSE s

(* receiveEvent, by action.                                                *)
OnRequest(s, c, other) ==
    IF s.m.currentLeaderId = NoLeader
    THEN Broadcast([Elect(s, c) EXCEPT !.m.potentialLeaders = @ \cup {other}], "accept", c)
    ELSE IF s.m.currentLeaderId = c THEN Broadcast(s, "current", c)
    ELSE s

(* A bug: a leader does not mind another leader.                           *)
OnCurrentIgnored(s, c, other) ==
    IF s.m.isLeader THEN s ELSE SetLeader(s, c, other)

OnCurrent(s, c, other) ==
    IF s.m.isLeader
    THEN Elect(IF other < c THEN SetLeader(s, c, NoLeader) ELSE s, c)
    ELSE SetLeader(s, c, other)

OnAccept(s, c, other) == [s EXCEPT !.m.potentialLeaders = @ \cup {other}]

OnWithdraw(s, c, other) ==
    IF other = s.m.currentLeaderId
    THEN Elect(SetLeader(s, c, NoLeader), c)
    ELSE [s EXCEPT !.m.potentialLeaders = @ \ {other}]

OnEvent(s, c, e) ==
    CASE e.action = "request"  -> OnRequest(s, c, e.clientId)
      [] e.action = "current"  -> OnCurrent(s, c, e.clientId)
      [] e.action = "accept"   -> OnAccept(s, c, e.clientId)
      [] e.action = "withdraw" -> OnWithdraw(s, c, e.clientId)

(* finishElection()                                                        *)
Finish(s, c) == SetLeader(s, c, Min(s.m.potentialLeaders))

-----------------------------------------------------------------------------
(* A method of client c returns: its manager has changed and what it sent  *)
(* is on its way to the others.  Its own queue becomes `rest'.             *)
Return(c, s, rest) ==
    /\ manager' = [manager EXCEPT ![c] = s.m]
    /\ inbox' = [o \in Client |-> IF o = c THEN rest
                                  ELSE IF o \in open THEN inbox[o] \o s.sent
                                  ELSE inbox[o]]

(* Nothing is on its way.                                                  *)
Quiet == \A c \in Client : inbox[c] = <<>>

(* A timer fires in time, or is one of the late ones.                      *)
Timer(inTime) ==
    IF inTime THEN UNCHANGED late ELSE late < MaxLate /\ late' = late + 1

Init ==
    /\ open = {}
    /\ manager = [c \in Client |-> NewManager]
    /\ inbox = [c \in Client |-> <<>>]
    /\ stops = 0
    /\ late = 0

(* The constructor.                                                        *)
Start(c) ==
    /\ c \notin open
    /\ open' = open \cup {c}
    /\ Return(c, Elect(Calling(NewManager), c), <<>>)
    /\ UNCHANGED <<stops, late>>

FinishElection(c) ==
    /\ c \in open
    /\ manager[c].electionTimeout
    /\ Timer(Quiet)
    /\ Return(c, Finish(Calling([manager[c] EXCEPT !.electionTimeout = FALSE]), c), inbox[c])
    /\ UNCHANGED <<open, stops>>

LeaderHeartbeat(c) ==
    /\ c \in open
    /\ manager[c].leaderHeartbeat
    /\ Timer(Quiet)
    /\ Return(c, Broadcast(Calling(manager[c]), "current", c), inbox[c])
    /\ UNCHANGED <<open, stops>>

(* A live leader's heartbeats come in time to prevent this.                *)
HeartbeatTimeout(c) ==
    /\ c \in open
    /\ manager[c].heartbeatTimeout
    /\ Timer(Quiet /\ \A o \in open : ~manager[o].leaderHeartbeat)
    /\ Return(c, Elect(Calling([manager[c] EXCEPT !.heartbeatTimeout = FALSE]), c), inbox[c])
    /\ UNCHANGED <<open, stops>>

ReceiveEvent(c) ==
    /\ c \in open
    /\ inbox[c] # <<>>
    /\ Return(c, OnEvent(Calling(manager[c]), c, Head(inbox[c])), Tail(inbox[c]))
    /\ UNCHANGED <<open, stops, late>>

(* shutdown(), and a tab that is killed or calls shutdown(false).          *)
Stop(c, sent) ==
    /\ c \in open
    /\ stops < MaxStops
    /\ stops' = stops + 1
    /\ open' = open \ {c}
    /\ Return(c, [m |-> NewManager, sent |-> sent], <<>>)
    /\ UNCHANGED late

Shutdown(c) == Stop(c, <<LeaderEvent("withdraw", c)>>)

Crash(c) == Stop(c, <<>>)

Next ==
    \E c \in Client :
        \/ Start(c)
        \/ FinishElection(c)
        \/ LeaderHeartbeat(c)
        \/ HeartbeatTimeout(c)
        \/ ReceiveEvent(c)
        \/ Shutdown(c)
        \/ Crash(c)

(* Events arrive, and timers that are set fire in time; nothing has to be  *)
(* late.  An election or heartbeat timer is held up by every event on its  *)
(* way and so is not enabled all the time, but again and again: it needs   *)
(* strong fairness.                                                        *)
InTime(A) == A /\ late' = late

Fairness ==
    /\ WF_vars(\E c \in Client : ReceiveEvent(c))
    /\ WF_vars(\E c \in Client : InTime(HeartbeatTimeout(c)))
    /\ \A c \in Client :
          SF_vars(InTime(FinishElection(c))) /\ SF_vars(InTime(LeaderHeartbeat(c)))

Spec == Init /\ [][Next]_vars /\ Fairness

-----------------------------------------------------------------------------
TypeOK ==
    /\ open \subseteq Client
    /\ manager \in [Client -> Manager]
    /\ inbox \in [Client -> Seq(Event)]
    /\ stops \in 0 .. MaxStops
    /\ late \in 0 .. MaxLate

(* Who leads, as the stores see it: connectRemote was called for them.     *)
Leaders == {c \in open : manager[c].isLeader}

(* No client is ever stuck: it leads and sends heartbeats, or it waits for *)
(* an election to end or for a leader to fall silent.  With every timer    *)
(* gone a tab would never again notice that nobody syncs with the remote.  *)
(* And an election that ends always has a candidate, the client itself.    *)
NeverStuck ==
    \A c \in open :
        LET m == manager[c]
        IN  /\ m.isLeader <=> m.currentLeaderId = c
            /\ m.isLeader <=> m.leaderHeartbeat
            /\ m.isLeader => ~m.heartbeatTimeout
            /\ ~m.isLeader => m.heartbeatTimeout \/ m.electionTimeout
            /\ m.electionTimeout => c \in m.potentialLeaders

(* When no timer is late there is never more than one leader, so that one  *)
(* store at a time is connected to the remote, whoever opens, closes or    *)
(* dies when.                                                              *)
OneLeader == late = 0 => Cardinality(Leaders) <= 1

(* In the end there is one leader and all clients agree on it: two leaders *)
(* that late timers made find each other, and the death of a leader, or of *)
(* the winner of an election, is noticed.                                  *)
Agreed ==
    open # {} => \E c \in open :
        Leaders = {c} /\ \A o \in open : manager[o].currentLeaderId = c

EventuallyAgreed == <>[]Agreed
=============================================================================
