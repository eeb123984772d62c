------------------------- MODULE LeaderManagerProofs -------------------------
(***************************************************************************)
(* Theorems about LeaderManager, for any number of clients, any number of  *)
(* stops and any number of late timers: no client is ever left without a   *)
(* timer, and as long as no timer was late there is one leader at most.    *)
(***************************************************************************)
EXTENDS LeaderManager, WellFoundedInduction, FiniteSetTheorems, TLAPS

(* What a method of client c works on.                                     *)
Calls(c) ==
    {s \in [m : Manager, sent : Seq(Event)] : \A n \in DOMAIN s.sent : s.sent[n].clientId = c}

(* NeverStuck, of one manager.                                             *)
Alive(m, c) ==
    /\ m.isLeader <=> m.currentLeaderId = c
    /\ m.isLeader <=> m.leaderHeartbeat
    /\ m.isLeader => ~m.heartbeatTimeout
    /\ ~m.isLeader => m.heartbeatTimeout \/ m.electionTimeout
    /\ m.electionTimeout => c \in m.potentialLeaders

(* A client never receives an event of its own, not even from before it    *)
(* was restarted: so no withdrawal takes it off its list of candidates.    *)
OthersOnly == \A c \in Client : \A n \in DOMAIN inbox[c] : inbox[c][n].clientId # c

-----------------------------------------------------------------------------
LEMMA MinExists ==
    ASSUME NEW S \in SUBSET Nat, S # {}
    PROVE  Min(S) \in S
<1>1. \E x \in S : \A y \in S : <<y, x>> \notin OpToRel(<, Nat)
      BY NatLessThanWellFounded, WFMin
<1>2. PICK x \in S : \A y \in S : <<y, x>> \notin OpToRel(<, Nat)
      BY <1>1
<1>3. ASSUME NEW y \in S PROVE x <= y
  <2>1. <<y, x>> \notin {p \in Nat \X Nat : p[1] < p[2]}
        BY <1>2 DEF OpToRel
  <2>2. <<y, x>> \in Nat \X Nat /\ ~(y < x)
        BY <2>1
  <2> QED
      BY <2>2
<1> QED
    BY <1>3 DEF Min

-----------------------------------------------------------------------------
(* The methods: each returns a manager that is alive, whatever it is given *)
(* by the timers that have just fired.                                     *)

LEMMA CallingType ==
    ASSUME NEW c \in Client, NEW m \in Manager
    PROVE  Calling(m) \in Calls(c) /\ Calling(m).m = m
BY DEF Calling, Calls

LEMMA BroadcastType ==
    ASSUME NEW c \in Client, NEW s \in Calls(c),
           NEW action \in {"request", "accept", "current", "withdraw"}
    PROVE  Broadcast(s, action, c) \in Calls(c) /\ Broadcast(s, action, c).m = s.m
<1> DEFINE e == LeaderEvent(action, c)
           sent == Append(s.sent, e)
<1>1. s.sent \in Seq(Event) /\ s.m \in Manager /\ \A n \in DOMAIN s.sent : s.sent[n].clientId = c
      BY DEF Calls
<1>2. e \in Event /\ e.clientId = c
      BY DEF LeaderEvent, Event
<1> HIDE DEF e
<1>3. sent \in Seq(Event) /\ \A n \in DOMAIN sent : sent[n].clientId = c
      BY <1>1, <1>2
<1>4. Broadcast(s, action, c) = [m |-> s.m, sent |-> sent]
      BY DEF Broadcast, Calls, e
<1> HIDE DEF sent
<1> QED
    BY <1>1, <1>3, <1>4 DEF Calls

LEMMA ElectType ==
    ASSUME NEW c \in Client, NEW s \in Calls(c),
           s.m.isLeader <=> s.m.currentLeaderId = c,
           s.m.isLeader <=> s.m.leaderHeartbeat,
           s.m.isLeader => ~s.m.heartbeatTimeout,
           s.m.electionTimeout => c \in s.m.potentialLeaders
    PROVE  Elect(s, c) \in Calls(c) /\ Alive(Elect(s, c).m, c)
<1> DEFINE t == [s EXCEPT !.m.potentialLeaders = {c}, !.m.electionTimeout = TRUE]
<1>1. s.m \in Manager
      BY DEF Calls
<1>2. CASE s.m.electionTimeout
      BY <1>2 DEF Elect, Alive
<1>3. CASE ~s.m.electionTimeout
  <2>1. t \in Calls(c)
        BY DEF Calls, Manager
  <2>2. Alive(t.m, c)
        BY <1>1 DEF Alive, Manager, Calls
  <2>3. Elect(s, c) = Broadcast(t, "request", c)
        BY <1>3 DEF Elect
  <2> HIDE DEF t
  <2> QED
      BY <2>1, <2>2, <2>3, BroadcastType
<1> QED
    BY <1>2, <1>3

LEMMA SetLeaderType ==
    ASSUME NEW c \in Client, NEW s \in Calls(c), NEW leaderId \in Client \cup {NoLeader},
           s.m.isLeader <=> s.m.leaderHeartbeat
    PROVE  SetLeader(s, c, leaderId) \in Calls(c) /\ Alive(SetLeader(s, c, leaderId).m, c)
<1> DEFINE isLeader == leaderId = c
           changed == s.m.isLeader # isLeader
           m == [s.m EXCEPT !.electionTimeout = FALSE,
                            !.currentLeaderId = leaderId,
                            !.isLeader = isLeader,
                            !.leaderHeartbeat = IF changed THEN isLeader ELSE @,
                            !.heartbeatTimeout = ~isLeader]
           t == [s EXCEPT !.m = m]
<1>1. s.m \in Manager
      BY DEF Calls
<1>2. m \in Manager
      BY <1>1 DEF Manager
<1>3. Alive(m, c)
      BY <1>1 DEF Alive, Manager
<1>4. t \in Calls(c) /\ t.m = m
  <2> HIDE DEF m
  <2> QED
      BY <1>2 DEF Calls
<1>5. SetLeader(s, c, leaderId) = IF changed /\ isLeader THEN Broadcast(t, "current", c) ELSE t
      BY DEF SetLeader, Calls
<1> HIDE DEF t, m
<1> QED
    BY <1>3, <1>4, <1>5, BroadcastType

LEMMA OnRequestType ==
    ASSUME NEW c \in Client, NEW s \in Calls(c), NEW other \in Client, Alive(s.m, c)
    PROVE  OnRequest(s, c, other) \in Calls(c) /\ Alive(OnRequest(s, c, other).m, c)
<1>1. CASE s.m.currentLeaderId = NoLeader
  <2> DEFINE t == Elect(s, c)
             u == [t EXCEPT !.m.potentialLeaders = @ \cup {other}]
  <2>1. t \in Calls(c) /\ Alive(t.m, c)
        BY ElectType DEF Alive
  <2>2. OnRequest(s, c, other) = Broadcast(u, "accept", c)
        BY <1>1 DEF OnRequest
  <2> HIDE DEF t
  <2>3. u \in Calls(c)
        BY <2>1 DEF Calls, Manager
  <2>4. Alive(u.m, c)
        BY <2>1 DEF Calls, Manager, Alive
  <2> HIDE DEF u
  <2> QED
      BY <2>2, <2>3, <2>4, BroadcastType
<1>2. CASE s.m.currentLeaderId # NoLeader
      BY <1>2, BroadcastType DEF OnRequest
<1> QED
    BY <1>1, <1>2

LEMMA OnCurrentType ==
    ASSUME NEW c \in Client, NEW s \in Calls(c), NEW other \in Client, Alive(s.m, c)
    PROVE  OnCurrent(s, c, other) \in Calls(c) /\ Alive(OnCurrent(s, c, other).m, c)
<1> DEFINE t == IF other < c THEN SetLeader(s, c, NoLeader) ELSE s
<1>1. SetLeader(s, c, other) \in Calls(c) /\ Alive(SetLeader(s, c, other).m, c)
      BY SetLeaderType DEF Alive
<1>2. SetLeader(s, c, NoLeader) \in Calls(c) /\ Alive(SetLeader(s, c, NoLeader).m, c)
      BY SetLeaderType DEF Alive
<1>3. t \in Calls(c) /\ Alive(t.m, c)
      BY <1>2
<1>4. OnCurrent(s, c, other) = IF s.m.isLeader THEN Elect(t, c) ELSE SetLeader(s, c, other)
      BY DEF OnCurrent
<1> HIDE DEF t
<1>5. Elect(t, c) \in Calls(c) /\ Alive(Elect(t, c).m, c)
      BY <1>3, ElectType DEF Alive
<1> QED
    BY <1>1, <1>4, <1>5

LEMMA OnAcceptType ==
    ASSUME NEW c \in Client, NEW s \in Calls(c), NEW other \in Client, Alive(s.m, c)
    PROVE  OnAccept(s, c, other) \in Calls(c) /\ Alive(OnAccept(s, c, other).m, c)
<1>1. OnAccept(s, c, other) \in Calls(c)
      BY DEF OnAccept, Calls, Manager
<1>2. Alive(OnAccept(s, c, other).m, c)
      BY DEF OnAccept, Calls, Manager, Alive
<1> QED
    BY <1>1, <1>2

(* That the event is another client's matters here.                        *)
LEMMA OnWithdrawType ==
    ASSUME NEW c \in Client, NEW s \in Calls(c), NEW other \in Client, Alive(s.m, c), other # c
    PROVE  OnWithdraw(s, c, other) \in Calls(c) /\ Alive(OnWithdraw(s, c, other).m, c)
<1> DEFINE t == SetLeader(s, c, NoLeader)
           u == [s EXCEPT !.m.potentialLeaders = @ \ {other}]
<1>1. t \in Calls(c) /\ Alive(t.m, c)
      BY SetLeaderType DEF Alive
<1>2. u \in Calls(c)
      BY DEF Calls, Manager
<1>3. Alive(u.m, c)
      BY DEF Calls, Manager, Alive
<1>4. OnWithdraw(s, c, other) = IF other = s.m.currentLeaderId THEN Elect(t, c) ELSE u
      BY DEF OnWithdraw
<1> HIDE DEF t, u
<1>5. Elect(t, c) \in Calls(c) /\ Alive(Elect(t, c).m, c)
      BY <1>1, ElectType DEF Alive
<1> QED
    BY <1>2, <1>3, <1>4, <1>5

LEMMA OnEventType ==
    ASSUME NEW c \in Client, NEW s \in Calls(c), NEW e \in Event, Alive(s.m, c), e.clientId # c
    PROVE  OnEvent(s, c, e) \in Calls(c) /\ Alive(OnEvent(s, c, e).m, c)
<1>1. e.clientId \in Client /\ e.action \in {"request", "accept", "current", "withdraw"}
      BY DEF Event
<1>2. CASE e.action = "request"
      BY <1>1, <1>2, OnRequestType DEF OnEvent
<1>3. CASE e.action = "current"
      BY <1>1, <1>3, OnCurrentType DEF OnEvent
<1>4. CASE e.action = "accept"
      BY <1>1, <1>4, OnAcceptType DEF OnEvent
<1>5. CASE e.action = "withdraw"
      BY <1>1, <1>5, OnWithdrawType DEF OnEvent
<1> QED
    BY <1>1, <1>2, <1>3, <1>4, <1>5

LEMMA FinishType ==
    ASSUME NEW c \in Client, NEW s \in Calls(c), s.m.isLeader <=> s.m.leaderHeartbeat,
           s.m.potentialLeaders # {}
    PROVE  Finish(s, c) \in Calls(c) /\ Alive(Finish(s, c).m, c)
<1>1. s.m.potentialLeaders \in SUBSET Client
      BY DEF Calls, Manager
<1>2. s.m.potentialLeaders \in SUBSET Nat
      BY <1>1, ClientAssumption
<1>3. Min(s.m.potentialLeaders) \in Client \cup {NoLeader}
      BY <1>1, <1>2, MinExists
<1> QED
    BY <1>3, SetLeaderType DEF Finish

-----------------------------------------------------------------------------
(* The inductive invariant: NeverStuck holds because no event is a         *)
(* client's own.                                                           *)
LeaderInv == TypeOK /\ NeverStuck /\ OthersOnly

LEMMA NeverStuckIsAlive == NeverStuck <=> \A c \in open : Alive(manager[c], c)
BY DEF NeverStuck, Alive

(* What a method's return leaves.                                          *)
LEMMA ReturnStep ==
    ASSUME TypeOK, OthersOnly, NEW c \in Client, NEW s \in Calls(c), NEW rest \in Seq(Event),
           \A n \in DOMAIN rest : rest[n].clientId # c,
           Return(c, s, rest)
    PROVE  /\ manager' \in [Client -> Manager]
           /\ manager'[c] = s.m
           /\ \A o \in Client \ {c} : manager'[o] = manager[o]
           /\ inbox' \in [Client -> Seq(Event)]
           /\ OthersOnly'
<1> USE DEF TypeOK
<1>1. s.m \in Manager /\ s.sent \in Seq(Event) /\ \A n \in DOMAIN s.sent : s.sent[n].clientId = c
      BY DEF Calls
<1>2. /\ manager' \in [Client -> Manager]
      /\ manager'[c] = s.m
      /\ \A o \in Client \ {c} : manager'[o] = manager[o]
      BY <1>1 DEF Return
<1>3. ASSUME NEW o \in Client
      PROVE  inbox'[o] \in Seq(Event) /\ \A n \in DOMAIN inbox'[o] : inbox'[o][n].clientId # o
  <2>1. inbox[o] \in Seq(Event) /\ \A n \in DOMAIN inbox[o] : inbox[o][n].clientId # o
        BY DEF OthersOnly
  <2>2. CASE o = c
        BY <2>2 DEF Return
  <2>3. CASE o # c /\ o \in open
    <3>1. inbox'[o] = inbox[o] \o s.sent
          BY <2>3 DEF Return
    <3>2. inbox'[o] \in Seq(Event)
          BY <1>1, <2>1, <3>1
    <3>3. ASSUME NEW n \in DOMAIN inbox'[o] PROVE inbox'[o][n].clientId # o
      <4>1. CASE n <= Len(inbox[o])
            BY <1>1, <2>1, <3>1, <4>1
      <4>2. CASE n > Len(inbox[o])
        <5>1. n - Len(inbox[o]) \in DOMAIN s.sent
              BY <1>1, <2>1, <3>1, <4>2
        <5>2. inbox'[o][n] = s.sent[n - Len(inbox[o])]
              BY <1>1, <2>1, <3>1, <4>2
        <5> QED
            BY <1>1, <2>3, <5>1, <5>2
      <4> QED
          BY <2>1, <3>1, <3>2, <4>1, <4>2
    <3> QED
        BY <3>2, <3>3
  <2>4. CASE o # c /\ o \notin open
        BY <2>1, <2>4 DEF Return
  <2> QED
      BY <2>2, <2>3, <2>4
<1>4. inbox' \in [Client -> Seq(Event)]
  <2>1. inbox' = [o \in Client |-> inbox'[o]]
        BY DEF Return
  <2> QED
      BY <1>3, <2>1
<1> QED
    BY <1>2, <1>3, <1>4 DEF OthersOnly

(* A step in which a method of client c returns an alive manager, or c     *)
(* stops.                                                                  *)
LEMMA ReturnKeepsInv ==
    ASSUME LeaderInv, NEW c \in Client, NEW s \in Calls(c), NEW rest \in Seq(Event),
           \A n \in DOMAIN rest : rest[n].clientId # c,
           Return(c, s, rest),
           open' \in {open, open \cup {c}, open \ {c}},
           c \in open' => Alive(s.m, c),
           stops' \in 0 .. MaxStops, late' \in 0 .. MaxLate
    PROVE  LeaderInv'
<1>1. TypeOK /\ OthersOnly /\ \A o \in open : Alive(manager[o], o)
      BY NeverStuckIsAlive DEF LeaderInv
<1>2. /\ manager' \in [Client -> Manager]
      /\ manager'[c] = s.m
      /\ \A o \in Client \ {c} : manager'[o] = manager[o]
      /\ inbox' \in [Client -> Seq(Event)]
      /\ OthersOnly'
      BY <1>1, ReturnStep
<1>3. TypeOK'
      BY <1>1, <1>2 DEF TypeOK
<1>4. ASSUME NEW o \in open' PROVE Alive(manager'[o], o)
  <2>1. CASE o = c
        BY <1>2, <2>1
  <2>2. CASE o # c
    <3>1. o \in open /\ o \in Client
          BY <1>1, <2>2 DEF TypeOK
    <3> QED
        BY <1>1, <1>2, <2>2, <3>1
  <2> QED
      BY <2>1, <2>2
<1>5. NeverStuck'
      BY <1>4 DEF NeverStuck, Alive
<1> QED
    BY <1>2, <1>3, <1>5 DEF LeaderInv

(* A late timer is counted, and the count is bounded.                      *)
LEMMA TimerType ==
    ASSUME NEW inTime \in BOOLEAN, late \in 0 .. MaxLate, Timer(inTime)
    PROVE  late' \in 0 .. MaxLate
BY BoundAssumption DEF Timer

(* What an open client's own queue and manager are.                        *)
LEMMA OpenClient ==
    ASSUME LeaderInv, NEW c \in Client, c \in open
    PROVE  /\ manager[c] \in Manager
           /\ Alive(manager[c], c)
           /\ inbox[c] \in Seq(Event)
           /\ \A n \in DOMAIN inbox[c] : inbox[c][n].clientId # c
           /\ stops \in 0 .. MaxStops
           /\ late \in 0 .. MaxLate
BY NeverStuckIsAlive DEF LeaderInv, TypeOK, OthersOnly

LEMMA StartKeepsInv == ASSUME LeaderInv, NEW c \in Client, Start(c) PROVE LeaderInv'
<1> DEFINE s == Elect(Calling(NewManager), c)
<1>1. NewManager \in Manager
      BY DEF NewManager, Manager
<1>2. Calling(NewManager) \in Calls(c) /\ Calling(NewManager).m = NewManager
      BY <1>1, CallingType
<1>3. c # NoLeader
      BY ClientAssumption
<1>4. s \in Calls(c) /\ Alive(s.m, c)
      BY <1>2, <1>3, ElectType DEF NewManager
<1>5. open' = open \cup {c} /\ Return(c, s, <<>>) /\ stops' = stops /\ late' = late
      BY DEF Start
<1>6. <<>> \in Seq(Event) /\ \A n \in DOMAIN <<>> : <<>>[n].clientId # c
      OBVIOUS
<1>7. stops' \in 0 .. MaxStops /\ late' \in 0 .. MaxLate
      BY <1>5 DEF LeaderInv, TypeOK
<1> HIDE DEF s
<1> QED
    BY <1>4, <1>5, <1>6, <1>7, ReturnKeepsInv

LEMMA FinishElectionKeepsInv ==
    ASSUME LeaderInv, NEW c \in Client, FinishElection(c) PROVE LeaderInv'
<1> DEFINE m == [manager[c] EXCEPT !.electionTimeout = FALSE]
           s == Finish(Calling(m), c)
<1>1. c \in open /\ manager[c].electionTimeout /\ Timer(Quiet) /\ Return(c, s, inbox[c])
      BY DEF FinishElection
<1>2. open' = open /\ stops' = stops
      BY DEF FinishElection
<1>3. manager[c] \in Manager /\ Alive(manager[c], c)
      BY <1>1, OpenClient
<1>4. m \in Manager
      BY <1>3 DEF Manager
<1>5. (m.isLeader <=> m.leaderHeartbeat) /\ m.potentialLeaders # {}
      BY <1>1, <1>3 DEF Manager, Alive
<1>6. late' \in 0 .. MaxLate
  <2>1. Quiet \in BOOLEAN
        BY DEF Quiet
  <2> QED
      BY <1>1, <2>1, OpenClient, TimerType
<1> HIDE DEF m
<1>7. s \in Calls(c) /\ Alive(s.m, c)
      BY <1>4, <1>5, CallingType, FinishType
<1> HIDE DEF s
<1> QED
    BY <1>1, <1>2, <1>6, <1>7, OpenClient, ReturnKeepsInv

LEMMA LeaderHeartbeatKeepsInv ==
    ASSUME LeaderInv, NEW c \in Client, LeaderHeartbeat(c) PROVE LeaderInv'
<1> DEFINE s == Broadcast(Calling(manager[c]), "current", c)
<1>1. c \in open /\ Timer(Quiet) /\ Return(c, s, inbox[c])
      BY DEF LeaderHeartbeat
<1>2. open' = open /\ stops' = stops
      BY DEF LeaderHeartbeat
<1>3. s \in Calls(c) /\ Alive(s.m, c)
      BY <1>1, OpenClient, CallingType, BroadcastType
<1>4. late' \in 0 .. MaxLate
  <2>1. Quiet \in BOOLEAN
        BY DEF Quiet
  <2> QED
      BY <1>1, <2>1, OpenClient, TimerType
<1> HIDE DEF s
<1> QED
    BY <1>1, <1>2, <1>3, <1>4, OpenClient, ReturnKeepsInv

LEMMA HeartbeatTimeoutKeepsInv ==
    ASSUME LeaderInv, NEW c \in Client, HeartbeatTimeout(c) PROVE LeaderInv'
<1> DEFINE m == [manager[c] EXCEPT !.heartbeatTimeout = FALSE]
           s == Elect(Calling(m), c)
           inTime == Quiet /\ \A o \in open : ~manager[o].leaderHeartbeat
<1>1. c \in open /\ Timer(inTime) /\ Return(c, s, inbox[c])
      BY DEF HeartbeatTimeout
<1>2. open' = open /\ stops' = stops
      BY DEF HeartbeatTimeout
<1>3. manager[c] \in Manager /\ Alive(manager[c], c)
      BY <1>1, OpenClient
<1>4. m \in Manager
      BY <1>3 DEF Manager
<1>5. /\ m.isLeader <=> m.currentLeaderId = c
      /\ m.isLeader <=> m.leaderHeartbeat
      /\ m.isLeader => ~m.heartbeatTimeout
      /\ m.electionTimeout => c \in m.potentialLeaders
      BY <1>3 DEF Manager, Alive
<1>6. late' \in 0 .. MaxLate
  <2>1. inTime \in BOOLEAN
        BY DEF Quiet
  <2> HIDE DEF inTime
  <2> QED
      BY <1>1, <2>1, OpenClient, TimerType
<1> HIDE DEF m
<1>7. s \in Calls(c) /\ Alive(s.m, c)
      BY <1>4, <1>5, CallingType, ElectType
<1> HIDE DEF s
<1> QED
    BY <1>1, <1>2, <1>6, <1>7, OpenClient, ReturnKeepsInv

LEMMA ReceiveEventKeepsInv ==
    ASSUME LeaderInv, NEW c \in Client, ReceiveEvent(c) PROVE LeaderInv'
<1> DEFINE e == Head(inbox[c])
           s == OnEvent(Calling(manager[c]), c, e)
           rest == Tail(inbox[c])
<1>1. c \in open /\ inbox[c] # <<>> /\ Return(c, s, rest)
      BY DEF ReceiveEvent
<1>2. open' = open /\ stops' = stops /\ late' = late
      BY DEF ReceiveEvent
<1>3. inbox[c] \in Seq(Event) /\ \A n \in DOMAIN inbox[c] : inbox[c][n].clientId # c
      BY <1>1, OpenClient
<1>4. e \in Event /\ e.clientId # c
      BY <1>1, <1>3
<1>5. rest \in Seq(Event) /\ \A n \in DOMAIN rest : rest[n].clientId # c
      BY <1>1, <1>3
<1> HIDE DEF e, rest
<1>6. s \in Calls(c) /\ Alive(s.m, c)
      BY <1>1, <1>4, OpenClient, CallingType, OnEventType
<1>7. stops' \in 0 .. MaxStops /\ late' \in 0 .. MaxLate
      BY <1>1, <1>2, OpenClient
<1> HIDE DEF s
<1> QED
    BY <1>1, <1>2, <1>5, <1>6, <1>7, ReturnKeepsInv

LEMMA StopKeepsInv ==
    ASSUME LeaderInv, NEW c \in Client, Shutdown(c) \/ Crash(c) PROVE LeaderInv'
<1>1. PICK sent \in {<<LeaderEvent("withdraw", c)>>, <<>>} : Stop(c, sent)
      BY DEF Shutdown, Crash
<1> DEFINE s == [m |-> NewManager, sent |-> sent]
<1>2. LeaderEvent("withdraw", c) \in Event /\ LeaderEvent("withdraw", c).clientId = c
      BY DEF LeaderEvent, Event
<1>3. sent \in Seq(Event) /\ \A n \in DOMAIN sent : sent[n].clientId = c
  <2> DEFINE e == LeaderEvent("withdraw", c)
  <2> HIDE DEF e
  <2>1. e \in Event /\ e.clientId = c
        BY <1>2 DEF e
  <2>2. CASE sent = <<>>
        BY <2>2
  <2>3. CASE sent = <<e>>
        BY <2>1, <2>3
  <2> QED
      BY <2>2, <2>3 DEF e
<1>4. NewManager \in Manager
      BY DEF NewManager, Manager
<1>5. s \in Calls(c)
      BY <1>3, <1>4 DEF Calls
<1>6. open' = open \ {c} /\ stops < MaxStops /\ stops' = stops + 1 /\ late' = late
      /\ Return(c, s, <<>>)
      BY <1>1 DEF Stop
<1>7. stops' \in 0 .. MaxStops /\ late' \in 0 .. MaxLate
      BY <1>6, BoundAssumption DEF LeaderInv, TypeOK
<1>8. <<>> \in Seq(Event) /\ \A n \in DOMAIN <<>> : <<>>[n].clientId # c
      OBVIOUS
<1> HIDE DEF s
<1> QED
    BY <1>5, <1>6, <1>7, <1>8, ReturnKeepsInv

-----------------------------------------------------------------------------
(* One leader.  While a client leads, everything that is on its way was    *)
(* sent since it was elected, because an election ends when all is quiet.  *)

(* An event that comes to another client than the leader: only the leader  *)
(* announces itself, and it does not withdraw.                             *)
Loyal(e, leader) ==
    /\ e.action = "current" => e.clientId = leader
    /\ e.action = "withdraw" => e.clientId # leader

Announces(q) == \E n \in DOMAIN q : q[n].action = "current"

Asks(q, o) == \E n \in DOMAIN q : q[n] = LeaderEvent("request", o)

Follower(m, leader) == m.currentLeaderId = leader /\ ~m.electionTimeout

(* What the others are while c leads: each knows it and has no election    *)
(* under way, or will hear of it, or has asked it.                         *)
Leading(c) ==
    /\ ~manager[c].electionTimeout
    /\ \A n \in DOMAIN inbox[c] : inbox[c][n].action # "current"
    /\ \A o \in open \ {c} :
          /\ ~manager[o].isLeader
          /\ \A n \in DOMAIN inbox[o] : Loyal(inbox[o][n], c)
          /\ Follower(manager[o], c) \/ Announces(inbox[o]) \/ Asks(inbox[c], o)

OneLeaderInv == late = 0 => \A c \in Leaders : Leading(c)

LEMMA ElectEffect ==
    ASSUME NEW c \in Client, NEW s \in Calls(c)
    PROVE  /\ Elect(s, c).m.isLeader <=> s.m.isLeader
           /\ Elect(s, c).m.currentLeaderId = s.m.currentLeaderId
           /\ Elect(s, c).sent \in {s.sent, Append(s.sent, LeaderEvent("request", c))}
<1>1. s.m \in Manager /\ s = [m |-> s.m, sent |-> s.sent]
      BY DEF Calls
<1>2. CASE s.m.electionTimeout
      BY <1>2 DEF Elect
<1>3. CASE ~s.m.electionTimeout
  <2> DEFINE m == [s.m EXCEPT !.potentialLeaders = {c}, !.electionTimeout = TRUE]
  <2>1. (m.isLeader <=> s.m.isLeader) /\ m.currentLeaderId = s.m.currentLeaderId
        BY <1>1 DEF Manager
  <2>2. [s EXCEPT !.m.potentialLeaders = {c}, !.m.electionTimeout = TRUE] = [m |-> m, sent |-> s.sent]
    <3>1. [s EXCEPT !.m.potentialLeaders = {c}, !.m.electionTimeout = TRUE] = [s EXCEPT !.m = m]
          BY DEF Calls
    <3> QED
        BY <3>1 DEF Calls
  <2> HIDE DEF m
  <2>3. Elect(s, c) = Broadcast([m |-> m, sent |-> s.sent], "request", c)
        BY <1>3, <2>2 DEF Elect
  <2>4. Elect(s, c) = [m |-> m, sent |-> Append(s.sent, LeaderEvent("request", c))]
        BY <2>3 DEF Broadcast
  <2> QED
      BY <2>1, <2>4
<1> QED
    BY <1>2, <1>3

LEMMA DemotedEffect ==
    ASSUME NEW c \in Client, NEW s \in Calls(c),
           NEW leaderId \in Client \cup {NoLeader}, leaderId # c
    PROVE  /\ ~SetLeader(s, c, leaderId).m.isLeader
           /\ Follower(SetLeader(s, c, leaderId).m, leaderId)
           /\ SetLeader(s, c, leaderId).sent = s.sent
<1>1. s.m \in Manager /\ s = [m |-> s.m, sent |-> s.sent]
      BY DEF Calls
<1> QED
    BY <1>1 DEF SetLeader, Follower, Manager

LEMMA PromotedEffect ==
    ASSUME NEW c \in Client, NEW s \in Calls(c), ~s.m.isLeader
    PROVE  /\ ~SetLeader(s, c, c).m.electionTimeout
           /\ SetLeader(s, c, c).sent = Append(s.sent, LeaderEvent("current", c))
<1> DEFINE m == [s.m EXCEPT !.electionTimeout = FALSE,
                            !.currentLeaderId = c,
                            !.isLeader = TRUE,
                            !.leaderHeartbeat = TRUE,
                            !.heartbeatTimeout = FALSE]
<1>1. s.m \in Manager /\ s = [m |-> s.m, sent |-> s.sent]
      BY DEF Calls
<1>2. SetLeader(s, c, c) = Broadcast([m |-> m, sent |-> s.sent], "current", c)
  <2> DEFINE t == [s EXCEPT !.m.electionTimeout = FALSE,
                            !.m.currentLeaderId = c,
                            !.m.isLeader = TRUE,
                            !.m.leaderHeartbeat = TRUE,
                            !.m.heartbeatTimeout = FALSE]
  <2>1. t = [m |-> m, sent |-> s.sent]
    <3>1. t = [s EXCEPT !.m = m]
          BY DEF Calls
    <3> QED
        BY <3>1 DEF Calls
  <2>2. s.m.isLeader # (c = c)
        OBVIOUS
  <2>3. (c = c) = TRUE /\ (~(c = c)) = FALSE
        OBVIOUS
  <2>4. SetLeader(s, c, c) = Broadcast(t, "current", c)
        BY <2>2, <2>3 DEF SetLeader
  <2> HIDE DEF t, m
  <2> QED
      BY <2>1, <2>4
<1>3. ~m.electionTimeout
      BY <1>1 DEF Manager
<1> HIDE DEF m
<1> QED
    BY <1>2, <1>3 DEF Broadcast

(* What a client sends that is neither an announcement nor a withdrawal.   *)
Modest(q) == \A n \in DOMAIN q : q[n].action \in {"request", "accept"}

LEMMA StaysModest ==
    ASSUME NEW x \in Client, NEW q \in Seq(Event), Modest(q), NEW a \in {"request", "accept"}
    PROVE  Append(q, LeaderEvent(a, x)) \in Seq(Event) /\ Modest(Append(q, LeaderEvent(a, x)))
<1> DEFINE e == LeaderEvent(a, x)
<1>1. e \in Event /\ e.action \in {"request", "accept"}
      BY DEF LeaderEvent, Event
<1> HIDE DEF e
<1>2. Append(q, e) \in Seq(Event) /\ Modest(Append(q, e))
      BY <1>1 DEF Modest
<1> QED
    BY <1>2 DEF e

LEMMA ElectStaysModest ==
    ASSUME NEW c \in Client, NEW s \in Calls(c), Modest(s.sent)
    PROVE  Elect(s, c).sent \in Seq(Event) /\ Modest(Elect(s, c).sent)
<1>1. s.sent \in Seq(Event)
      BY DEF Calls
<1> DEFINE q == Append(s.sent, LeaderEvent("request", c))
<1>2. q \in Seq(Event) /\ Modest(q)
      BY <1>1, StaysModest
<1>3. Elect(s, c).sent \in {s.sent, q}
      BY ElectEffect
<1> HIDE DEF q
<1> QED
    BY <1>1, <1>2, <1>3

(* What a client that does not lead makes of an event: it does not begin   *)
(* to lead, it announces nothing, and it stays with its leader.            *)
LEMMA FollowerReceives ==
    ASSUME NEW x \in Client, NEW c \in Client \ {x}, NEW m \in Manager, ~m.isLeader, Alive(m, x),
           NEW e \in Event, e.clientId # x, NEW s, s = OnEvent(Calling(m), x, e)
    PROVE  /\ ~s.m.isLeader
           /\ Modest(s.sent)
           /\ Loyal(e, c) /\ Follower(m, c) => Follower(s.m, c)
           /\ Loyal(e, c) /\ e.action = "current" => Follower(s.m, c)
<1> DEFINE s0 == Calling(m)
           other == e.clientId
<1>1. s0 \in Calls(x) /\ s0.m = m /\ s0.sent = <<>> /\ s0 = [m |-> m, sent |-> <<>>]
      BY CallingType DEF Calling
<1>2. other \in Client /\ other # x /\ m.currentLeaderId # x /\ c # NoLeader /\ x # NoLeader
      BY ClientAssumption DEF Event, Alive
<1>5. <<>> \in Seq(Event) /\ Modest(<<>>)
      BY DEF Modest
<1>6. \A t \in Calls(x) : t.m \in Manager /\ t.sent \in Seq(Event) /\ t = [m |-> t.m, sent |-> t.sent]
      BY DEF Calls
<1> HIDE DEF s0
<1>0. s = OnEvent(s0, x, e)
      BY DEF s0
<1>7. CASE e.action = "request"
  <2>1. s = OnRequest(s0, x, other)
        BY <1>0, <1>7 DEF OnEvent
  <2>2. CASE m.currentLeaderId = NoLeader
    <3> DEFINE t == Elect(s0, x)
               n == [t.m EXCEPT !.potentialLeaders = @ \cup {other}]
    <3>1. t \in Calls(x)
          BY <1>1, ElectType DEF Alive
    <3>2. ~t.m.isLeader /\ t.sent \in Seq(Event) /\ Modest(t.sent)
          BY <1>1, <1>5, <1>6, <3>1, ElectStaysModest, ElectEffect
    <3>3. s = Broadcast([t EXCEPT !.m.potentialLeaders = @ \cup {other}], "accept", x)
          BY <1>1, <2>1, <2>2 DEF OnRequest
    <3> HIDE DEF t
    <3>4. ~n.isLeader
          BY <1>6, <3>1, <3>2 DEF Manager
    <3>5. [t EXCEPT !.m.potentialLeaders = @ \cup {other}] = [m |-> n, sent |-> t.sent]
      <4> DEFINE m0 == t.m
                 q0 == t.sent
      <4>1. t = [m |-> m0, sent |-> q0] /\ m0 \in Manager
            BY <1>6, <3>1
      <4> HIDE DEF m0, q0
      <4>2. [t EXCEPT !.m.potentialLeaders = @ \cup {other}]
               = [m |-> [m0 EXCEPT !.potentialLeaders = @ \cup {other}], sent |-> q0]
            BY <4>1 DEF Manager
      <4> QED
          BY <4>2 DEF m0, q0
    <3> HIDE DEF n
    <3>6. s = [m |-> n, sent |-> Append(t.sent, LeaderEvent("accept", x))]
          BY <3>3, <3>5 DEF Broadcast
    <3>7. Modest(s.sent) /\ ~s.m.isLeader
          BY <3>2, <3>4, <3>6, StaysModest
    <3>8. ~Follower(m, c)
          BY <1>2, <2>2 DEF Follower
    <3> QED
        BY <1>7, <3>7, <3>8
  <2>3. CASE m.currentLeaderId # NoLeader
    <3>1. s = s0
          BY <1>1, <1>2, <2>1, <2>3 DEF OnRequest
    <3> QED
        BY <1>1, <1>5, <1>7, <3>1
  <2> QED
      BY <2>2, <2>3
<1>8. CASE e.action = "current"
  <2>1. s = SetLeader(s0, x, other)
        BY <1>0, <1>1, <1>8 DEF OnEvent, OnCurrent
  <2>2. ~s.m.isLeader /\ Follower(s.m, other) /\ s.sent = <<>>
        BY <1>1, <1>2, <2>1, DemotedEffect
  <2>3. Loyal(e, c) => Follower(s.m, c)
        BY <1>8, <2>2 DEF Loyal
  <2> QED
      BY <1>5, <2>2, <2>3
<1>9. CASE e.action = "accept"
  <2> DEFINE n == [m EXCEPT !.potentialLeaders = @ \cup {other}]
  <2>1. s = [m |-> n, sent |-> <<>>]
        BY <1>0, <1>1, <1>9 DEF OnEvent, OnAccept
  <2>2. ~n.isLeader /\ (Follower(m, c) => Follower(n, c))
        BY DEF Follower, Manager
  <2> HIDE DEF n
  <2> QED
      BY <1>5, <1>9, <2>1, <2>2
<1>10. CASE e.action = "withdraw"
  <2>1. CASE other = m.currentLeaderId
    <3> DEFINE t == SetLeader(s0, x, NoLeader)
    <3>1. NoLeader # x
          BY <1>2
    <3>2. t \in Calls(x) /\ ~t.m.isLeader /\ t.sent = <<>>
          BY <1>1, <3>1, SetLeaderType, DemotedEffect DEF Alive
    <3>3. s = Elect(t, x)
          BY <1>0, <1>1, <1>10, <2>1 DEF OnEvent, OnWithdraw
    <3> HIDE DEF t
    <3>4. ~s.m.isLeader /\ Modest(s.sent)
          BY <1>5, <3>2, <3>3, ElectEffect, ElectStaysModest
    <3>5. Loyal(e, c) => ~Follower(m, c)
          BY <1>10, <2>1 DEF Loyal, Follower
    <3> QED
        BY <1>10, <3>4, <3>5
  <2>2. CASE other # m.currentLeaderId
    <3> DEFINE n == [m EXCEPT !.potentialLeaders = @ \ {other}]
    <3>1. s = [m |-> n, sent |-> <<>>]
          BY <1>0, <1>1, <1>10, <2>2 DEF OnEvent, OnWithdraw
    <3>2. ~n.isLeader /\ (Follower(m, c) => Follower(n, c))
          BY DEF Follower, Manager
    <3> HIDE DEF n
    <3> QED
        BY <1>5, <1>10, <3>1, <3>2
  <2> QED
      BY <2>1, <2>2
<1>11. e.action \in {"request", "accept", "current", "withdraw"}
       BY DEF Event
<1> QED
    BY <1>7, <1>8, <1>9, <1>10, <1>11

(* What the leader makes of an event that is no announcement: it answers a *)
(* request with one.                                                       *)
LEMMA LeaderReceives ==
    ASSUME NEW c \in Client, NEW m \in Manager, m.isLeader, Alive(m, c),
           NEW e \in Event, e.clientId # c, e.action # "current"
    PROVE  LET s == OnEvent(Calling(m), c, e)
           IN  /\ s.m.electionTimeout = m.electionTimeout
               /\ e.action = "request" => s.sent = <<LeaderEvent("current", c)>>
               /\ e.action # "request" => s.sent = <<>>
<1>1. m.currentLeaderId = c /\ c # NoLeader /\ e.clientId # m.currentLeaderId
      BY ClientAssumption DEF Alive
<1>2. CASE e.action = "request"
      BY <1>1, <1>2 DEF OnEvent, OnRequest, Calling, Broadcast
<1>3. CASE e.action = "accept"
      BY <1>3 DEF OnEvent, OnAccept, Calling, Manager
<1>4. CASE e.action = "withdraw"
      BY <1>1, <1>4 DEF OnEvent, OnWithdraw, Calling, Manager
<1> QED
    BY <1>2, <1>3, <1>4 DEF Event

-----------------------------------------------------------------------------
(* Queues that grow.                                                       *)
LEMMA Joined ==
    ASSUME NEW q \in Seq(Event), NEW sent \in Seq(Event)
    PROVE  /\ q \o sent \in Seq(Event)
           /\ \A n \in DOMAIN (q \o sent) :
                 (\E i \in DOMAIN q : (q \o sent)[n] = q[i]) \/ (\E i \in DOMAIN sent : (q \o sent)[n] = sent[i])
           /\ \A i \in DOMAIN q : i \in DOMAIN (q \o sent) /\ (q \o sent)[i] = q[i]
           /\ \A i \in DOMAIN sent : \E n \in DOMAIN (q \o sent) : (q \o sent)[n] = sent[i]
<1>1. q \o sent \in Seq(Event) /\ Len(q \o sent) = Len(q) + Len(sent)
      OBVIOUS
<1>2. ASSUME NEW n \in DOMAIN (q \o sent)
      PROVE  (\E i \in DOMAIN q : (q \o sent)[n] = q[i]) \/ (\E i \in DOMAIN sent : (q \o sent)[n] = sent[i])
  <2>1. CASE n <= Len(q)
        BY <2>1
  <2>2. CASE n > Len(q)
    <3>1. n - Len(q) \in DOMAIN sent /\ (q \o sent)[n] = sent[n - Len(q)]
          BY <2>2
    <3> QED
        BY <3>1
  <2> QED
      BY <2>1, <2>2
<1>3. ASSUME NEW i \in DOMAIN sent PROVE \E n \in DOMAIN (q \o sent) : (q \o sent)[n] = sent[i]
  <2>1. i + Len(q) \in DOMAIN (q \o sent) /\ (q \o sent)[i + Len(q)] = sent[i]
        OBVIOUS
  <2> QED
      BY <2>1
<1> QED
    BY <1>1, <1>2, <1>3

LEMMA Popped ==
    ASSUME NEW q \in Seq(Event), q # <<>>
    PROVE  /\ Head(q) \in Event /\ Tail(q) \in Seq(Event)
           /\ Head(q) = q[1] /\ 1 \in DOMAIN q
           /\ \A n \in DOMAIN Tail(q) : \E i \in DOMAIN q : Tail(q)[n] = q[i]
           /\ \A i \in DOMAIN q : q[i] = Head(q) \/ \E n \in DOMAIN Tail(q) : Tail(q)[n] = q[i]
<1>1. ASSUME NEW n \in DOMAIN Tail(q) PROVE \E i \in DOMAIN q : Tail(q)[n] = q[i]
  <2>1. n + 1 \in DOMAIN q /\ Tail(q)[n] = q[n + 1]
        OBVIOUS
  <2> QED
      BY <2>1
<1>2. ASSUME NEW i \in DOMAIN q, i # 1 PROVE \E n \in DOMAIN Tail(q) : Tail(q)[n] = q[i]
  <2>1. i - 1 \in DOMAIN Tail(q) /\ Tail(q)[i - 1] = q[i]
        BY <1>2
  <2> QED
      BY <2>1
<1> QED
    BY <1>1, <1>2

(* A step of another client x than the leader.                             *)
LEMMA OtherActs ==
    ASSUME LeaderInv, NEW c \in open, c \in Client, Leading(c),
           NEW x \in Client, x # c, NEW s \in Calls(x), NEW rest \in Seq(Event), Return(x, s, rest),
           c \in open', open' \subseteq open \cup {x},
           \A n \in DOMAIN s.sent : s.sent[n].action # "current",
           x \in open' =>
               /\ ~s.m.isLeader
               /\ \A n \in DOMAIN rest : Loyal(rest[n], c)
               /\ Follower(s.m, c) \/ Announces(rest) \/ Asks(inbox[c], x) \/ Asks(s.sent, x)
    PROVE  Leading(c)'
<1>1. /\ manager \in [Client -> Manager] /\ inbox \in [Client -> Seq(Event)] /\ open \subseteq Client
      /\ s.m \in Manager /\ s.sent \in Seq(Event) /\ \A n \in DOMAIN s.sent : s.sent[n].clientId = x
      BY DEF LeaderInv, TypeOK, Calls
<1>2. manager'[x] = s.m /\ \A o \in Client \ {x} : manager'[o] = manager[o]
      BY <1>1 DEF Return
<1>3. inbox'[x] = rest /\ \A o \in open \ {x} : inbox'[o] = inbox[o] \o s.sent
      BY <1>1 DEF Return
<1>4. \A n \in DOMAIN s.sent : Loyal(s.sent[n], c)
      BY <1>1 DEF Loyal
<1>5. ~manager'[c].electionTimeout
      BY <1>2 DEF Leading
<1>6. inbox[c] \in Seq(Event) /\ inbox'[c] = inbox[c] \o s.sent
      BY <1>1, <1>3
<1>7. \A n \in DOMAIN inbox'[c] : inbox'[c][n].action # "current"
      BY <1>1, <1>6, Joined DEF Leading
<1>8. ASSUME NEW o, Asks(inbox[c], o) \/ Asks(s.sent, o) PROVE Asks(inbox'[c], o)
  <2> DEFINE e == LeaderEvent("request", o)
  <2>1. PICK q \in {inbox[c], s.sent} : \E n \in DOMAIN q : q[n] = e
        BY <1>8 DEF Asks
  <2> HIDE DEF e
  <2>2. \E n \in DOMAIN (inbox[c] \o s.sent) : (inbox[c] \o s.sent)[n] = e
    <3>1. /\ \A i \in DOMAIN inbox[c] :
                i \in DOMAIN (inbox[c] \o s.sent) /\ (inbox[c] \o s.sent)[i] = inbox[c][i]
          /\ \A i \in DOMAIN s.sent :
                \E n \in DOMAIN (inbox[c] \o s.sent) : (inbox[c] \o s.sent)[n] = s.sent[i]
          BY <1>1, <1>6, Joined
    <3>2. PICK i \in DOMAIN q : q[i] = e
          BY <2>1
    <3> QED
        BY <2>1, <3>1, <3>2
  <2> QED
      BY <1>6, <2>2 DEF Asks, e
<1>9. ASSUME NEW o \in open' \ {c}
      PROVE  /\ ~manager'[o].isLeader
             /\ \A n \in DOMAIN inbox'[o] : Loyal(inbox'[o][n], c)
             /\ Follower(manager'[o], c) \/ Announces(inbox'[o]) \/ Asks(inbox'[c], o)
  <2>1. CASE o = x
        BY <1>2, <1>3, <1>8, <2>1
  <2>2. CASE o # x
    <3>1. o \in open \ {c} /\ o \in Client /\ manager'[o] = manager[o] /\ inbox'[o] = inbox[o] \o s.sent
          BY <1>1, <1>2, <1>3, <2>2
    <3>2. inbox[o] \in Seq(Event)
          BY <1>1, <3>1
    <3>3. \A n \in DOMAIN inbox'[o] : Loyal(inbox'[o][n], c)
      <4>1. \A n \in DOMAIN inbox[o] : Loyal(inbox[o][n], c)
            BY <3>1 DEF Leading
      <4> QED
          BY <1>1, <1>4, <3>1, <3>2, <4>1, Joined
    <3>4. Announces(inbox[o]) => Announces(inbox'[o])
          BY <1>1, <3>1, <3>2, Joined DEF Announces
    <3> QED
        BY <1>8, <3>1, <3>3, <3>4 DEF Leading
  <2> QED
      BY <2>1, <2>2
<1> QED
    BY <1>5, <1>7, <1>9 DEF Leading

(* A step of the leader.                                                   *)
LEMMA LeaderActs ==
    ASSUME LeaderInv, NEW c \in open, c \in Client, Leading(c),
           NEW s \in Calls(c), NEW rest \in Seq(Event), Return(c, s, rest), open' = open,
           ~s.m.electionTimeout,
           \A n \in DOMAIN s.sent : s.sent[n] = LeaderEvent("current", c),
           \A n \in DOMAIN rest : \E i \in DOMAIN inbox[c] : rest[n] = inbox[c][i],
           \A o : Asks(inbox[c], o) => Asks(rest, o) \/ s.sent # <<>>
    PROVE  Leading(c)'
<1>1. /\ manager \in [Client -> Manager] /\ inbox \in [Client -> Seq(Event)] /\ open \subseteq Client
      /\ s.m \in Manager /\ s.sent \in Seq(Event)
      BY DEF LeaderInv, TypeOK, Calls
<1>2. manager'[c] = s.m /\ \A o \in Client \ {c} : manager'[o] = manager[o]
      BY <1>1 DEF Return
<1>3. inbox'[c] = rest /\ \A o \in open \ {c} : inbox'[o] = inbox[o] \o s.sent
      BY <1>1 DEF Return
<1>4. \A n \in DOMAIN s.sent : Loyal(s.sent[n], c) /\ s.sent[n].action = "current"
      BY DEF Loyal, LeaderEvent
<1>5. \A n \in DOMAIN inbox'[c] : inbox'[c][n].action # "current"
      BY <1>3 DEF Leading
<1>6. ASSUME NEW o \in open' \ {c}
      PROVE  /\ ~manager'[o].isLeader
             /\ \A n \in DOMAIN inbox'[o] : Loyal(inbox'[o][n], c)
             /\ Follower(manager'[o], c) \/ Announces(inbox'[o]) \/ Asks(inbox'[c], o)
  <2>1. o \in open \ {c} /\ o \in Client /\ manager'[o] = manager[o] /\ inbox'[o] = inbox[o] \o s.sent
        BY <1>1, <1>2, <1>3
  <2>2. inbox[o] \in Seq(Event)
        BY <1>1, <2>1
  <2>3. \A n \in DOMAIN inbox'[o] : Loyal(inbox'[o][n], c)
    <3>1. \A n \in DOMAIN inbox[o] : Loyal(inbox[o][n], c)
          BY <2>1 DEF Leading
    <3> QED
        BY <1>1, <1>4, <2>1, <2>2, <3>1, Joined
  <2>4. Announces(inbox[o]) => Announces(inbox'[o])
        BY <1>1, <2>1, <2>2, Joined DEF Announces
  <2>5. s.sent # <<>> => Announces(inbox'[o])
    <3>1. s.sent # <<>> => 1 \in DOMAIN s.sent
          BY <1>1
    <3>2. \A i \in DOMAIN s.sent : \E n \in DOMAIN (inbox[o] \o s.sent) : (inbox[o] \o s.sent)[n] = s.sent[i]
          BY <1>1, <2>2, Joined
    <3> QED
      <4> SUFFICES ASSUME s.sent # <<>> PROVE Announces(inbox'[o])
          OBVIOUS
      <4>1. PICK n \in DOMAIN (inbox[o] \o s.sent) : (inbox[o] \o s.sent)[n] = s.sent[1]
            BY <3>1, <3>2
      <4>2. n \in DOMAIN inbox'[o] /\ inbox'[o][n].action = "current"
            BY <1>4, <2>1, <3>1, <4>1
      <4> QED
          BY <4>2 DEF Announces
  <2>6. Asks(inbox[c], o) => Asks(inbox'[c], o) \/ Announces(inbox'[o])
        BY <1>3, <2>5
  <2> QED
      BY <2>1, <2>3, <2>4, <2>6 DEF Leading
<1> QED
    BY <1>2, <1>5, <1>6 DEF Leading

(* A client that did not lead and does after a step has just ended its     *)
(* election, in time: there was no leader.                                 *)
LEMMA Elected ==
    ASSUME LeaderInv, OneLeaderInv, NEW c \in Client, FinishElection(c),
           late = 0, late' = 0, ~manager[c].isLeader, manager'[c].isLeader
    PROVE  Leading(c)' /\ Leaders' \subseteq {c}
<1> DEFINE m == [manager[c] EXCEPT !.electionTimeout = FALSE]
           s0 == Calling(m)
           s == Finish(s0, c)
<1>1. /\ c \in open /\ manager[c].electionTimeout /\ Timer(Quiet) /\ Return(c, s, inbox[c])
      /\ open' = open
      BY DEF FinishElection
<1>2. /\ manager \in [Client -> Manager] /\ inbox \in [Client -> Seq(Event)] /\ open \subseteq Client
      BY DEF LeaderInv, TypeOK
<1>3. Quiet
  <2>1. ~(late' = late + 1)
        OBVIOUS
  <2> QED
      BY <1>1, <2>1 DEF Timer
<1>4. m \in Manager /\ s0 \in Calls(c) /\ s0.m = m /\ s0.sent = <<>> /\ ~m.isLeader
  <2>1. manager[c] \in Manager
        BY <1>2
  <2>2. m \in Manager /\ ~m.isLeader
        BY <2>1 DEF Manager
  <2> HIDE DEF m
  <2> QED
      BY <2>2, CallingType DEF Calling
<1>5. c \in manager[c].potentialLeaders /\ manager[c].potentialLeaders \in SUBSET Client
      BY <1>1, <1>2, OpenClient DEF Alive, Manager
<1>6. Min(m.potentialLeaders) \in Client
  <2>1. m.potentialLeaders = manager[c].potentialLeaders
        BY <1>2 DEF Manager
  <2>2. m.potentialLeaders \in SUBSET Nat /\ m.potentialLeaders # {} /\ m.potentialLeaders \subseteq Client
        BY <1>5, <2>1, ClientAssumption
  <2> QED
      BY <2>2, MinExists
<1> HIDE DEF m, s0
<1>7. Min(m.potentialLeaders) = c
  <2> SUFFICES ASSUME Min(m.potentialLeaders) # c PROVE FALSE
      OBVIOUS
  <2>1. s = SetLeader(s0, c, Min(m.potentialLeaders))
        BY <1>4 DEF Finish
  <2>2. ~s.m.isLeader
        BY <1>4, <1>6, <2>1, DemotedEffect
  <2>3. manager'[c] = s.m
        BY <1>1, <1>2 DEF Return
  <2> QED
      BY <2>2, <2>3
<1>8. ~s.m.electionTimeout /\ s.sent = <<LeaderEvent("current", c)>> /\ s.m \in Manager
  <2>1. s = SetLeader(s0, c, c)
        BY <1>4, <1>7 DEF Finish
  <2>2. s.m.isLeader \in BOOLEAN /\ s \in Calls(c)
    <3>1. s0.m.isLeader <=> s0.m.leaderHeartbeat
      <4>1. manager[c].isLeader <=> manager[c].leaderHeartbeat
            BY <1>1, OpenClient DEF Alive
      <4> QED
          BY <1>2, <1>4, <4>1 DEF m, Manager
    <3> QED
        BY <1>4, <2>1, <3>1, SetLeaderType DEF Calls, Manager
  <2> QED
      BY <1>4, <2>1, <2>2, PromotedEffect DEF Calls
<1> HIDE DEF s
<1>9. \A d \in Leaders : FALSE
  <2> SUFFICES ASSUME NEW d \in Leaders PROVE FALSE
      OBVIOUS
  <2>1. Leading(d) /\ d # c
        BY DEF OneLeaderInv, Leaders
  <2>2. Follower(manager[c], d)
        BY <1>1, <1>2, <1>3, <2>1 DEF Leading, Quiet, Announces, Asks, Leaders
  <2> QED
      BY <1>1, <2>2 DEF Follower
<1>10. manager'[c] = s.m /\ \A o \in Client \ {c} : manager'[o] = manager[o]
       BY <1>1, <1>2 DEF Return
<1>11. ASSUME NEW o \in open \ {c}
       PROVE  inbox'[o] = <<LeaderEvent("current", c)>> /\ ~manager'[o].isLeader
  <2>1. o \in Client /\ inbox[o] = <<>> /\ inbox'[o] = inbox[o] \o s.sent
        BY <1>1, <1>2, <1>3 DEF Return, Quiet
  <2>2. inbox'[o] = <<LeaderEvent("current", c)>>
        BY <1>8, <2>1
  <2> QED
      BY <1>2, <1>9, <1>10, <2>1, <2>2 DEF Leaders
<1>12. inbox'[c] = <<>>
       BY <1>1, <1>2, <1>3 DEF Return, Quiet
<1>13. ASSUME NEW o \in open \ {c}
       PROVE  (\A n \in DOMAIN inbox'[o] : Loyal(inbox'[o][n], c)) /\ Announces(inbox'[o])
  <2> DEFINE e == LeaderEvent("current", c)
  <2>1. e.action = "current" /\ e.clientId = c
        BY DEF LeaderEvent
  <2> HIDE DEF e
  <2>2. inbox'[o] = <<e>>
        BY <1>11 DEF e
  <2> QED
      BY <2>1, <2>2 DEF Loyal, Announces
<1>14. Leading(c)'
       BY <1>1, <1>8, <1>10, <1>11, <1>12, <1>13 DEF Leading
<1>15. Leaders' \subseteq {c}
       BY <1>1, <1>11 DEF Leaders
<1> QED
    BY <1>14, <1>15

-----------------------------------------------------------------------------
(* A leader c that stays one is still leading, whoever takes the step.     *)

LEMMA LeadersAreLeading ==
    ASSUME LeaderInv, OneLeaderInv, late = 0, NEW c \in Leaders
    PROVE  /\ c \in open /\ c \in Client /\ Leading(c) /\ manager[c] \in Manager
           /\ manager[c].isLeader /\ Alive(manager[c], c)
<1>1. c \in open /\ c \in Client /\ manager[c].isLeader
      BY DEF Leaders, LeaderInv, TypeOK
<1> QED
    BY <1>1, OpenClient DEF OneLeaderInv

LEMMA StartKeepsLeading ==
    ASSUME LeaderInv, OneLeaderInv, NEW x \in Client, Start(x), late = 0, NEW c \in Leaders
    PROVE  Leading(c)'
<1> DEFINE s0 == Calling(NewManager)
           s == Elect(s0, x)
           e == LeaderEvent("request", x)
<1>1. x \notin open /\ open' = open \cup {x} /\ Return(x, s, <<>>)
      BY DEF Start
<1>2. NewManager \in Manager /\ x # NoLeader
      BY ClientAssumption DEF NewManager, Manager
<1>3. s0 \in Calls(x) /\ s0.m = NewManager
      BY <1>2, CallingType
<1>4. s \in Calls(x) /\ ~s.m.isLeader
      BY <1>2, <1>3, ElectType, ElectEffect DEF NewManager
<1>5. s.sent = <<e>>
      BY DEF Elect, Calling, NewManager, Broadcast
<1> HIDE DEF s
<1>6. e.action = "request" /\ e = LeaderEvent("request", x)
      BY DEF LeaderEvent
<1> HIDE DEF e
<1>7. \A n \in DOMAIN s.sent : s.sent[n].action # "current"
      BY <1>5, <1>6
<1>8. Asks(s.sent, x)
      BY <1>5, <1>6 DEF Asks
<1>9. <<>> \in Seq(Event) /\ \A n \in DOMAIN <<>> : Loyal(<<>>[n], c)
      OBVIOUS
<1> QED
    BY <1>1, <1>4, <1>7, <1>8, <1>9, LeadersAreLeading, OtherActs

LEMMA NoElectionEnds ==
    ASSUME LeaderInv, OneLeaderInv, NEW x \in Client, FinishElection(x), late = 0, late' = 0,
           NEW c \in Leaders
    PROVE  FALSE
<1>1. x \in open /\ manager[x].electionTimeout /\ Timer(Quiet)
      BY DEF FinishElection
<1>2. Quiet
  <2>1. ~(late' = late + 1)
        OBVIOUS
  <2> QED
      BY <1>1, <2>1 DEF Timer
<1>3. Leading(c) /\ c \in Client
      BY LeadersAreLeading
<1>4. x # c
      BY <1>1, <1>3 DEF Leading
<1>5. Follower(manager[x], c)
      BY <1>1, <1>2, <1>3, <1>4 DEF Leading, Quiet, Announces, Asks
<1> QED
    BY <1>1, <1>5 DEF Follower

LEMMA NoTimeout ==
    ASSUME LeaderInv, OneLeaderInv, NEW x \in Client, HeartbeatTimeout(x), late = 0, late' = 0,
           NEW c \in Leaders
    PROVE  FALSE
<1>1. Timer(Quiet /\ \A o \in open : ~manager[o].leaderHeartbeat)
      BY DEF HeartbeatTimeout
<1>2. \A o \in open : ~manager[o].leaderHeartbeat
  <2>1. ~(late' = late + 1)
        OBVIOUS
  <2> QED
      BY <1>1, <2>1 DEF Timer
<1>3. c \in open /\ manager[c].isLeader /\ Alive(manager[c], c)
      BY LeadersAreLeading
<1> QED
    BY <1>2, <1>3 DEF Alive

LEMMA LeaderHeartbeatKeepsLeading ==
    ASSUME LeaderInv, OneLeaderInv, NEW x \in Client, LeaderHeartbeat(x), late = 0, NEW c \in Leaders
    PROVE  Leading(c)'
<1> DEFINE s == Broadcast(Calling(manager[x]), "current", x)
           e == LeaderEvent("current", x)
<1>1. x \in open /\ manager[x].leaderHeartbeat /\ Return(x, s, inbox[x]) /\ open' = open
      BY DEF LeaderHeartbeat
<1>2. manager[x] \in Manager /\ Alive(manager[x], x) /\ inbox[x] \in Seq(Event)
      BY <1>1, OpenClient
<1>3. c \in open /\ c \in Client /\ Leading(c)
      BY LeadersAreLeading
<1>4. x = c
      BY <1>1, <1>2, <1>3 DEF Alive, Leading
<1>5. s \in Calls(x) /\ s.m = manager[x] /\ s.sent = <<e>>
  <2>1. s \in Calls(x) /\ s.m = manager[x]
        BY <1>2, CallingType, BroadcastType
  <2> HIDE DEF e
  <2>2. s = [m |-> manager[x], sent |-> Append(<<>>, e)]
        BY DEF Broadcast, Calling, e
  <2> QED
      BY <2>1, <2>2
<1> HIDE DEF s, e
<1>6. s.sent # <<>> /\ \A n \in DOMAIN s.sent : s.sent[n] = e
      BY <1>5
<1>7. ~s.m.electionTimeout
      BY <1>3, <1>4, <1>5 DEF Leading
<1> QED
    BY <1>1, <1>2, <1>3, <1>4, <1>5, <1>6, <1>7, LeaderActs DEF e

LEMMA ReceiveEventKeepsLeading ==
    ASSUME LeaderInv, OneLeaderInv, NEW x \in Client, ReceiveEvent(x), late = 0, NEW c \in Leaders
    PROVE  Leading(c)'
<1> DEFINE e == Head(inbox[x])
           s == OnEvent(Calling(manager[x]), x, e)
           rest == Tail(inbox[x])
<1>1. x \in open /\ inbox[x] # <<>> /\ Return(x, s, rest) /\ open' = open
      BY DEF ReceiveEvent
<1>2. /\ manager[x] \in Manager /\ Alive(manager[x], x) /\ inbox[x] \in Seq(Event)
      /\ \A n \in DOMAIN inbox[x] : inbox[x][n].clientId # x
      BY <1>1, OpenClient
<1>3. c \in open /\ c \in Client /\ Leading(c) /\ manager[c].isLeader
      BY LeadersAreLeading
<1>4. /\ e \in Event /\ rest \in Seq(Event) /\ e = inbox[x][1] /\ 1 \in DOMAIN inbox[x]
      /\ \A n \in DOMAIN rest : \E i \in DOMAIN inbox[x] : rest[n] = inbox[x][i]
      /\ \A i \in DOMAIN inbox[x] : inbox[x][i] = e \/ \E n \in DOMAIN rest : rest[n] = inbox[x][i]
      BY <1>1, <1>2, Popped
<1> HIDE DEF e, rest
<1>5. e.clientId # x
      BY <1>2, <1>4
<1>6. s \in Calls(x)
      BY <1>2, <1>4, <1>5, CallingType, OnEventType
<1>7. CASE x = c
  <2>1. e.action # "current"
        BY <1>3, <1>4, <1>7 DEF Leading
  <2>2. /\ s.m.electionTimeout = manager[c].electionTimeout
        /\ e.action = "request" => s.sent = <<LeaderEvent("current", c)>>
        /\ e.action # "request" => s.sent = <<>>
        BY <1>2, <1>3, <1>4, <1>5, <1>7, <2>1, LeaderReceives
  <2> HIDE DEF s
  <2>3. ~s.m.electionTimeout
        BY <1>3, <2>2 DEF Leading
  <2>4. \A n \in DOMAIN s.sent : s.sent[n] = LeaderEvent("current", c)
    <3> DEFINE f == LeaderEvent("current", c)
    <3> HIDE DEF f
    <3>1. s.sent = <<f>> \/ s.sent = <<>>
          BY <2>2 DEF f
    <3>2. \A n \in DOMAIN s.sent : s.sent[n] = f
          BY <3>1
    <3> QED
        BY <3>2 DEF f
  <2>5. \A o : Asks(inbox[c], o) => Asks(rest, o) \/ s.sent # <<>>
    <3> SUFFICES ASSUME NEW o, Asks(inbox[c], o), s.sent = <<>> PROVE Asks(rest, o)
        OBVIOUS
    <3>1. e.action # "request"
          BY <2>2
    <3>2. e # LeaderEvent("request", o)
          BY <3>1 DEF LeaderEvent
    <3> QED
        BY <1>4, <1>7, <3>2 DEF Asks
  <2> QED
      BY <1>1, <1>3, <1>4, <1>6, <1>7, <2>3, <2>4, <2>5, LeaderActs
<1>8. CASE x # c
  <2>1. /\ ~manager[x].isLeader
        /\ \A n \in DOMAIN inbox[x] : Loyal(inbox[x][n], c)
        /\ Follower(manager[x], c) \/ Announces(inbox[x]) \/ Asks(inbox[c], x)
        BY <1>1, <1>3, <1>8 DEF Leading
  <2>2. /\ ~s.m.isLeader
        /\ Modest(s.sent)
        /\ Loyal(e, c) /\ Follower(manager[x], c) => Follower(s.m, c)
        /\ Loyal(e, c) /\ e.action = "current" => Follower(s.m, c)
        BY <1>2, <1>3, <1>4, <1>5, <1>8, <2>1, FollowerReceives
  <2> HIDE DEF s
  <2>3. Loyal(e, c) /\ \A n \in DOMAIN rest : Loyal(rest[n], c)
        BY <1>4, <2>1
  <2>4. Announces(inbox[x]) => e.action = "current" \/ Announces(rest)
        BY <1>4 DEF Announces
  <2>5. Follower(s.m, c) \/ Announces(rest) \/ Asks(inbox[c], x)
        BY <2>1, <2>2, <2>3, <2>4
  <2>6. \A n \in DOMAIN s.sent : s.sent[n].action # "current"
        BY <2>2 DEF Modest
  <2> QED
      BY <1>1, <1>3, <1>4, <1>6, <1>8, <2>2, <2>3, <2>5, <2>6, OtherActs
<1> QED
    BY <1>7, <1>8

LEMMA StopKeepsLeading ==
    ASSUME LeaderInv, OneLeaderInv, NEW x \in Client, Shutdown(x) \/ Crash(x), late = 0,
           NEW c \in Leaders, c \in open'
    PROVE  Leading(c)'
<1> DEFINE e == LeaderEvent("withdraw", x)
<1>1. PICK sent \in {<<e>>, <<>>} : Stop(x, sent)
      BY DEF Shutdown, Crash
<1> DEFINE s == [m |-> NewManager, sent |-> sent]
<1>2. e \in Event /\ e.clientId = x /\ e.action = "withdraw"
      BY DEF LeaderEvent, Event
<1> HIDE DEF e
<1>3. /\ sent \in Seq(Event)
      /\ \A n \in DOMAIN sent : sent[n].clientId = x /\ sent[n].action # "current"
  <2>1. CASE sent = <<>>
        BY <2>1
  <2>2. CASE sent = <<e>>
        BY <1>2, <2>2
  <2> QED
      BY <2>1, <2>2
<1>4. NewManager \in Manager
      BY DEF NewManager, Manager
<1>5. s \in Calls(x) /\ s.sent = sent
      BY <1>3, <1>4 DEF Calls
<1>6. open' = open \ {x} /\ Return(x, s, <<>>)
      BY <1>1 DEF Stop
<1>7. c \in open /\ c \in Client /\ Leading(c) /\ x # c /\ x \notin open'
      BY <1>6, LeadersAreLeading
<1>8. <<>> \in Seq(Event)
      OBVIOUS
<1> HIDE DEF s
<1> QED
    BY <1>3, <1>5, <1>6, <1>7, <1>8, OtherActs

(* Only the end of an election makes a leader.                             *)
LEMMA OnlyElections ==
    ASSUME LeaderInv, NEW x \in Client,
           Start(x) \/ LeaderHeartbeat(x) \/ HeartbeatTimeout(x) \/ ReceiveEvent(x)
              \/ Shutdown(x) \/ Crash(x)
    PROVE  Leaders' \subseteq Leaders
<1>1. manager \in [Client -> Manager] /\ open \subseteq Client
      BY DEF LeaderInv, TypeOK
<1>2. ASSUME NEW s, NEW rest, Return(x, s, rest), open' \in {open, open \cup {x}, open \ {x}},
             x \in open' => ~s.m.isLeader \/ x \in Leaders
      PROVE  Leaders' \subseteq Leaders
  <2>1. manager'[x] = s.m /\ \A o \in Client \ {x} : manager'[o] = manager[o]
        BY <1>1, <1>2 DEF Return
  <2>2. ASSUME NEW o \in Leaders' PROVE o \in Leaders
    <3>1. o \in open' /\ manager'[o].isLeader
          BY DEF Leaders
    <3>2. CASE o = x
          BY <1>2, <2>1, <3>1, <3>2
    <3>3. CASE o # x
      <4>1. o \in open /\ o \in Client
            BY <1>1, <1>2, <3>1, <3>3
      <4> QED
          BY <2>1, <3>1, <3>3, <4>1 DEF Leaders
    <3> QED
        BY <3>2, <3>3
  <2> QED
      BY <2>2
<1>3. CASE Start(x)
  <2> DEFINE s == Elect(Calling(NewManager), x)
  <2>1. open' = open \cup {x} /\ Return(x, s, <<>>)
        BY <1>3 DEF Start
  <2>2. NewManager \in Manager /\ ~NewManager.isLeader
        BY DEF NewManager, Manager
  <2>3. ~s.m.isLeader
        BY <2>2, CallingType, ElectEffect
  <2> HIDE DEF s
  <2> QED
      BY <1>2, <2>1, <2>3
<1>4. CASE LeaderHeartbeat(x)
  <2> DEFINE s == Broadcast(Calling(manager[x]), "current", x)
  <2>1. x \in open /\ open' = open /\ Return(x, s, inbox[x]) /\ manager[x].leaderHeartbeat
        BY <1>4 DEF LeaderHeartbeat
  <2>2. x \in Leaders
        BY <2>1, OpenClient DEF Alive, Leaders
  <2> HIDE DEF s
  <2> QED
      BY <1>2, <2>1, <2>2
<1>5. CASE HeartbeatTimeout(x)
  <2> DEFINE m == [manager[x] EXCEPT !.heartbeatTimeout = FALSE]
             s == Elect(Calling(m), x)
  <2>1. x \in open /\ open' = open /\ Return(x, s, inbox[x])
        BY <1>5 DEF HeartbeatTimeout
  <2>2. m \in Manager /\ (m.isLeader <=> manager[x].isLeader)
    <3>1. manager[x] \in Manager
          BY <1>1
    <3> QED
        BY <3>1 DEF Manager
  <2>3. s.m.isLeader => x \in Leaders
    <3> HIDE DEF m
    <3> QED
        BY <2>1, <2>2, CallingType, ElectEffect DEF Leaders
  <2> HIDE DEF s
  <2> QED
      BY <1>2, <2>1, <2>3
<1>6. CASE ReceiveEvent(x)
  <2> DEFINE e == Head(inbox[x])
             s == OnEvent(Calling(manager[x]), x, e)
  <2>1. x \in open /\ open' = open /\ inbox[x] # <<>> /\ Return(x, s, Tail(inbox[x]))
        BY <1>6 DEF ReceiveEvent
  <2>2. /\ manager[x] \in Manager /\ Alive(manager[x], x) /\ inbox[x] \in Seq(Event)
        /\ \A n \in DOMAIN inbox[x] : inbox[x][n].clientId # x
        BY <2>1, OpenClient
  <2>3. e \in Event /\ e.clientId # x
        BY <2>1, <2>2, Popped
  <2>4. ~manager[x].isLeader => ~s.m.isLeader
    <3>1. e.clientId \in Client \ {x}
          BY <2>3 DEF Event
    <3> QED
        BY <2>2, <2>3, <3>1, FollowerReceives
  <2> HIDE DEF s
  <2> QED
      BY <1>2, <2>1, <2>4 DEF Leaders
<1>7. CASE Shutdown(x) \/ Crash(x)
  <2>1. PICK sent : Stop(x, sent)
        BY <1>7 DEF Shutdown, Crash
  <2> DEFINE s == [m |-> NewManager, sent |-> sent]
  <2>2. open' = open \ {x} /\ Return(x, s, <<>>)
        BY <2>1 DEF Stop
  <2> HIDE DEF s
  <2> QED
      BY <1>2, <2>2
<1> QED
    BY <1>3, <1>4, <1>5, <1>6, <1>7

LEMMA OneLeaderStep == LeaderInv /\ OneLeaderInv /\ [Next]_vars => OneLeaderInv'
<1> SUFFICES ASSUME LeaderInv, OneLeaderInv, [Next]_vars, late' = 0, NEW c \in Leaders'
             PROVE  Leading(c)'
    BY DEF OneLeaderInv
<1>1. c \in open' /\ manager'[c].isLeader
      BY DEF Leaders
<1>2. CASE UNCHANGED vars
  <2>1. c \in Leaders /\ late = 0
        BY <1>1, <1>2 DEF Leaders, vars
  <2>2. Leading(c)
        BY <2>1 DEF OneLeaderInv
  <2> QED
      BY <1>2, <2>2 DEF Leading, vars
<1>3. ASSUME NEW x \in Client,
             \/ Start(x) \/ FinishElection(x) \/ LeaderHeartbeat(x) \/ HeartbeatTimeout(x)
             \/ ReceiveEvent(x) \/ Shutdown(x) \/ Crash(x)
      PROVE  Leading(c)'
  <2>1. late = 0
    <3>1. late \in Nat
          BY BoundAssumption DEF LeaderInv, TypeOK
    <3>2. late' \in {late, late + 1}
          BY <1>3 DEF Start, FinishElection, LeaderHeartbeat, HeartbeatTimeout, ReceiveEvent,
                      Shutdown, Crash, Stop, Timer
    <3> QED
        BY <3>1, <3>2
  <2>2. CASE FinishElection(x)
    <3>1. \A d \in Leaders : FALSE
          BY <2>1, <2>2, NoElectionEnds
    <3>2. open' = open /\ \A o \in Client \ {x} : manager'[o] = manager[o]
          BY <2>2 DEF FinishElection, Return, LeaderInv, TypeOK
    <3>3. c = x
          BY <1>1, <3>1, <3>2 DEF Leaders, LeaderInv, TypeOK
    <3>4. ~manager[x].isLeader
          BY <2>2, <3>1 DEF Leaders, FinishElection
    <3> QED
        BY <1>1, <2>1, <2>2, <3>3, <3>4, Elected
  <2>3. CASE ~FinishElection(x)
    <3>1. c \in Leaders
          BY <1>3, <2>3, OnlyElections
    <3> QED
        BY <1>1, <1>3, <2>1, <2>3, <3>1, StartKeepsLeading, NoTimeout, LeaderHeartbeatKeepsLeading,
           ReceiveEventKeepsLeading, StopKeepsLeading
  <2> QED
      BY <2>2, <2>3
<1> QED
    BY <1>2, <1>3 DEF Next

-----------------------------------------------------------------------------
LEMMA LeaderInvHolds == Spec => []LeaderInv
<1>1. Init => LeaderInv
  <2> SUFFICES ASSUME Init PROVE LeaderInv
      OBVIOUS
  <2>1. NewManager \in Manager
        BY DEF NewManager, Manager
  <2>2. TypeOK
        BY <2>1, BoundAssumption DEF Init, TypeOK
  <2>3. NeverStuck /\ OthersOnly
        BY DEF Init, NeverStuck, OthersOnly
  <2> QED
      BY <2>2, <2>3 DEF LeaderInv
<1>2. LeaderInv /\ [Next]_vars => LeaderInv'
  <2> SUFFICES ASSUME LeaderInv, [Next]_vars PROVE LeaderInv'
      OBVIOUS
  <2>1. ASSUME NEW c \in Client, Start(c) PROVE LeaderInv'
        BY <2>1, StartKeepsInv
  <2>2. ASSUME NEW c \in Client, FinishElection(c) PROVE LeaderInv'
        BY <2>2, FinishElectionKeepsInv
  <2>3. ASSUME NEW c \in Client, LeaderHeartbeat(c) PROVE LeaderInv'
        BY <2>3, LeaderHeartbeatKeepsInv
  <2>4. ASSUME NEW c \in Client, HeartbeatTimeout(c) PROVE LeaderInv'
        BY <2>4, HeartbeatTimeoutKeepsInv
  <2>5. ASSUME NEW c \in Client, ReceiveEvent(c) PROVE LeaderInv'
        BY <2>5, ReceiveEventKeepsInv
  <2>6. ASSUME NEW c \in Client, Shutdown(c) \/ Crash(c) PROVE LeaderInv'
        BY <2>6, StopKeepsInv
  <2>7. CASE UNCHANGED vars
        BY <2>7 DEF LeaderInv, TypeOK, NeverStuck, OthersOnly, vars
  <2> QED
      BY <2>1, <2>2, <2>3, <2>4, <2>5, <2>6, <2>7 DEF Next
<1> QED
    BY <1>1, <1>2, PTL DEF Spec

(* Every manager, queue and count has its type.                            *)
THEOREM TypeCorrect == Spec => []TypeOK
<1>1. LeaderInv => TypeOK
      BY DEF LeaderInv
<1> QED
    BY <1>1, LeaderInvHolds, PTL

(* Whatever events arrive and timers fire in whatever order, early or      *)
(* late, and whoever stops and starts again, a client that is not the      *)
(* leader always has a timer that makes it look for one, and one that is   *)
(* the leader always has its heartbeat.                                    *)
THEOREM NobodyIsStuck == Spec => []NeverStuck
<1>1. LeaderInv => NeverStuck
      BY DEF LeaderInv
<1> QED
    BY <1>1, LeaderInvHolds, PTL

(* As long as no timer was late, whoever opens, closes or dies when, and   *)
(* however many clients there are: never two leaders.  An election ends    *)
(* when all is quiet, so the others know the leader by then, or learn of   *)
(* it before anything else can end an election of theirs.                  *)
THEOREM AtMostOneLeads == Spec => []OneLeader
<1>1. Init => OneLeaderInv
      BY DEF Init, OneLeaderInv, Leaders
<1>2. OneLeaderInv => OneLeader
  <2> SUFFICES ASSUME OneLeaderInv, late = 0 PROVE Cardinality(Leaders) <= 1
      BY DEF OneLeader
  <2>1. \A c, d \in Leaders : c = d
        BY DEF OneLeaderInv, Leading, Leaders
  <2>2. CASE Leaders = {}
        BY <2>2, FS_EmptySet
  <2>3. CASE Leaders # {}
    <3>1. PICK c : c \in Leaders
          BY <2>3
    <3>2. Leaders = {c}
          BY <2>1, <3>1
    <3>3. Cardinality({c}) = 1
          BY FS_Singleton
    <3> QED
        BY <3>2, <3>3
  <2> QED
      BY <2>2, <2>3
<1> QED
    BY <1>1, <1>2, LeaderInvHolds, OneLeaderStep, PTL DEF Spec
=============================================================================
