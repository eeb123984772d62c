------------------------ MODULE TrimergeClientProofs ------------------------
(***************************************************************************)
(* Theorems about TrimergeClient, for any number of clients and edits, any *)
(* computeRef, migration and mergeAllBranches.                             *)
(*                                                                         *)
(* GraphInv is about the commits of a client and needs nothing.  SaveInv   *)
(* follows a permanent commit to the repository.  OrderInv is about the    *)
(* order of the commits on their way to the repository and from it, and    *)
(* holds when the repository has parents first at the start.  OneHeadInv   *)
(* follows a handler through the calls that mergeAllBranches makes.        *)
(***************************************************************************)
EXTENDS TrimergeClient, ListLemmas

-----------------------------------------------------------------------------
(* Types of what a handler has still to do.                                *)

LEMMA FinishType == Finish \in Seq(Task)
BY DEF Finish, Call, Task

LEMMA CommitTask ==
    ASSUME NEW t \in Task, t.op \in {"external", "temp", "local"}
    PROVE  t.ref \in CommitRefs
BY DEF Task

LEMMA NewCommitTask ==
    ASSUME NEW r \in CommitRefs, NEW temp \in BOOLEAN
    PROVE  NewCommit(r, temp) \in Task
BY DEF NewCommit, Task

LEMMA BatchTasks ==
    ASSUME NEW batch \in Seq(CommitRefs)
    PROVE  [n \in DOMAIN batch |-> External(batch[n])] \in Seq(Task)
<1>1. \A n \in DOMAIN batch : External(batch[n]) \in Task
      BY DEF External, Task
<1> QED
    BY <1>1

LEMMA KeepTask ==
    ASSUME NEW p \in Promotion
    PROVE  /\ p.ref \in Ref \cup {NoRef}
           /\ p.op = "keep" => p.ref \in CommitRefs
BY DEF Promotion, CommitRefs

LEMMA PromoteParentsType ==
    ASSUME NEW r \in CommitRefs
    PROVE  PromoteParents(r) \in Seq(Promotion)
<1>1. /\ [op |-> "promote", ref |-> BaseOf(r)] \in Promotion
      /\ [op |-> "promote", ref |-> MergeOf(r)] \in Promotion
      /\ [op |-> "keep", ref |-> r] \in Promotion
      BY DEF Promotion, CommitRefs
<1> QED
    BY <1>1 DEF PromoteParents

LEMMA HeadTailType ==
    ASSUME NEW S, NEW s \in Seq(S), s # <<>>
    PROVE  Head(s) \in S /\ Tail(s) \in Seq(S)
OBVIOUS

LEMMA ShortSeqType ==
    ASSUME NEW S
    PROVE  <<>> \in Seq(S) /\ \A s \in S : <<s>> \in Seq(S)
OBVIOUS

LEMMA ConcatType ==
    ASSUME NEW S, NEW s \in Seq(S), NEW t \in Seq(S)
    PROVE  s \o t \in Seq(S)
OBVIOUS

-----------------------------------------------------------------------------
LEMMA InitTypeOK == Init => TypeOK
BY SeedAssumption, BoundAssumption DEF Init, TypeOK

LEMMA TypeStep == TypeOK /\ [Next]_vars => TypeOK'
<1> SUFFICES ASSUME TypeOK, [Next]_vars PROVE TypeOK'
    OBVIOUS
<1> USE DEF TypeOK
<1>1. ASSUME NEW c \in Client, Open(c) PROVE TypeOK'
      BY <1>1 DEF Open, memory, handler
<1>2. ASSUME NEW c \in Client, Crash(c) PROVE TypeOK'
      BY <1>2, BoundAssumption DEF Crash, memory, handler
<1>3. ASSUME NEW c \in Client, NEW d \in DeltaOf(c), UpdateDoc(c, d) PROVE TypeOK'
  <2> DEFINE r == EditRef(lastSavedDoc[c], d)
             first == <<NewCommit(r, FALSE)>>
  <2>1. NewCommit(r, FALSE) \in Task
        BY <1>3, NewCommitTask DEF UpdateDoc
  <2>2. first \in Seq(Task)
        BY ONLY <2>1, ShortSeqType
  <2>3. first \o Finish \in Seq(Task)
    <3> HIDE DEF first
    <3> QED
        BY <2>2, FinishType, ConcatType
  <2>4. agenda' \in Seq(Task)
        BY <1>3, <2>3 DEF UpdateDoc
  <2>5. edits' \in 0 .. MaxEdits /\ running' \in Client
        BY <1>3, BoundAssumption DEF UpdateDoc
  <2> QED
      BY <1>3, <2>4, <2>5 DEF UpdateDoc, memory, store
<1>4. ASSUME NEW c \in Client, OnCommits(c) PROVE TypeOK'
  <2> DEFINE batch == Head(inbox[c])
             tasks == [n \in DOMAIN batch |-> External(batch[n])]
  <2>1. batch \in Seq(CommitRefs) /\ Tail(inbox[c]) \in Seq(Seq(CommitRefs))
        BY <1>4, HeadTailType DEF OnCommits
  <2>2. tasks \in Seq(Task)
        BY <2>1, BatchTasks
  <2>3. agenda' \in Seq(Task)
    <3> HIDE DEF tasks
    <3>1. tasks \o Finish \in Seq(Task)
          BY <2>2, FinishType, ConcatType
    <3> QED
        BY <1>4, <3>1 DEF OnCommits, tasks
  <2>4. inbox' \in [Client -> Seq(Seq(CommitRefs))]
        BY <1>4, <2>1 DEF OnCommits
  <2> QED
      BY <1>4, <2>3, <2>4 DEF OnCommits, memory, tabs
<1>5. ASSUME NEW c \in Client, UpdateCommitFromRemote(c) PROVE TypeOK'
  <2>1. Head(agenda) \in Task /\ Tail(agenda) \in Seq(Task)
        BY <1>5, HeadTailType DEF UpdateCommitFromRemote, NextCall
  <2>2. [op |-> "promote", ref |-> Head(agenda).ref] \in Promotion
        BY <1>5, <2>1, CommitTask DEF UpdateCommitFromRemote, NextCall, Promotion, CommitRefs
  <2>3. promoting' \in Seq(Promotion)
        BY <1>5, <2>2 DEF UpdateCommitFromRemote
  <2> QED
      BY <1>5, <2>1, <2>3 DEF UpdateCommitFromRemote, memory, tabs, store
<1>6. ASSUME NEW c \in Client, AddExternalCommit(c) PROVE TypeOK'
  <2>1. Head(agenda) \in Task /\ Tail(agenda) \in Seq(Task) /\ Head(agenda).op = "external"
        BY <1>6, HeadTailType DEF AddExternalCommit, NextCall
  <2>2. Head(agenda).ref \in CommitRefs
        BY <2>1, CommitTask
  <2> QED
      BY <1>6, <2>1, <2>2 DEF AddExternalCommit, tabs, store, AddHead, RolledBack
<1>7. ASSUME NEW c \in Client, AddExternalCommitThrows(c) PROVE TypeOK'
  <2>1. Head(agenda) \in Task /\ Head(agenda).op = "external"
        BY <1>7, HeadTailType DEF AddExternalCommitThrows, NextCall
  <2>2. Head(agenda).ref \in CommitRefs
        BY <2>1, CommitTask
  <2> QED
      BY <1>7, <2>1, <2>2 DEF AddExternalCommitThrows, store, RolledBack
<1>8. ASSUME NEW c \in Client, SkipNewCommit(c) PROVE TypeOK'
      BY <1>8 DEF SkipNewCommit, NextCall, memory, tabs, store
<1>9. ASSUME NEW c \in Client, AddNewCommit(c) PROVE TypeOK'
  <2>1. /\ Head(agenda) \in Task /\ Tail(agenda) \in Seq(Task)
        /\ Head(agenda).op \in {"temp", "local"}
        BY <1>9, HeadTailType DEF AddNewCommit, NextCall
  <2>2. Head(agenda).ref \in CommitRefs
        BY <2>1, CommitTask
  <2>3. promoting' \in Seq(Promotion)
        BY <1>9, <2>2, PromoteParentsType DEF AddNewCommit
  <2> QED
      BY <1>9, <2>1, <2>2, <2>3 DEF AddNewCommit, tabs, store, AddHead
<1>10. ASSUME NEW c \in Client, PromoteTempCommit(c) PROVE TypeOK'
  <2>1. Tail(promoting) \in Seq(Promotion) /\ Head(promoting).ref \in CommitRefs
        BY <1>10, HeadTailType DEF PromoteTempCommit, NextPromotion
  <2>2. promoting' \in Seq(Promotion)
        BY <1>10, <2>1, PromoteParentsType, ConcatType DEF PromoteTempCommit
  <2> QED
      BY <1>10, <2>2 DEF PromoteTempCommit, memory, tabs, store
<1>11. ASSUME NEW c \in Client, PromotePermanentCommit(c) PROVE TypeOK'
      BY <1>11 DEF PromotePermanentCommit, NextPromotion, tabs, store
<1>12. ASSUME NEW c \in Client, KeepCommit(c) PROVE TypeOK'
  <2>1. Tail(promoting) \in Seq(Promotion) /\ Head(promoting).ref \in CommitRefs
        BY <1>12, HeadTailType, KeepTask DEF KeepCommit, NextPromotion
  <2> QED
      BY <1>12, <2>1 DEF KeepCommit, tabs, store, AddHead
<1>13. ASSUME NEW c \in Client, MergeHeads(c) PROVE TypeOK'
  <2>1. PICK plan \in Seq(NewCommits) : agenda' = plan \o Tail(agenda)
        BY <1>13 DEF MergeHeads
  <2>2. NewCommits \subseteq Task
        BY DEF NewCommits, Task
  <2>3. plan \in Seq(Task) /\ Tail(agenda) \in Seq(Task)
        BY <1>13, <2>2 DEF MergeHeads, NextCall
  <2>4. agenda' \in Seq(Task)
        BY ONLY <2>1, <2>3
  <2> QED
      BY <1>13, <2>4 DEF MergeHeads, memory, tabs, store
<1>14. ASSUME NEW c \in Client, ReadDoc(c) PROVE TypeOK'
  <2> DEFINE saved == lastSavedDoc[c]
             stale == saved # NoRef /\ latestDoc[c] = NoRef
  <2>1. Tail(agenda) \in Seq(Task)
        BY <1>14, HeadTailType DEF ReadDoc, NextCall
  <2>2. stale => NewCommit(MigratedRef(saved), TRUE) \in Task
        BY <1>14, NewCommitTask DEF ReadDoc
  <2>3. agenda' \in Seq(Task)
    <3>1. CASE stale /\ MigratedRef(saved) \notin commits[c]
      <4> DEFINE first == <<NewCommit(MigratedRef(saved), TRUE)>>
      <4>1. first \in Seq(Task)
            BY <2>2, <3>1, ShortSeqType
      <4>2. first \o agenda \in Seq(Task)
        <5> HIDE DEF first
        <5> QED
            BY <4>1, ConcatType
      <4> QED
          BY <1>14, <3>1, <4>2 DEF ReadDoc
    <3>2. CASE ~(stale /\ MigratedRef(saved) \notin commits[c])
          BY <1>14, <2>1, <3>2 DEF ReadDoc
    <3> QED
        BY <3>1, <3>2
  <2>4. latestDoc' \in [Client -> CommitRefs \cup {NoRef}]
        BY <1>14 DEF ReadDoc
  <2> QED
      BY <1>14, <2>3, <2>4 DEF ReadDoc, tabs, store
<1>15. ASSUME NEW c \in Client, Sync(c) PROVE TypeOK'
  <2>1. unsyncedCommits[c] \in Seq(CommitRefs) /\ storeQueue[c] \in Seq(Seq(CommitRefs))
        OBVIOUS
  <2>2. Append(storeQueue[c], unsyncedCommits[c]) \in Seq(Seq(CommitRefs))
        BY <2>1
  <2>3. storeQueue' \in [Client -> Seq(Seq(CommitRefs))]
        BY <1>15, <2>2 DEF Sync
  <2>4. unsyncedCommits' \in [Client -> Seq(CommitRefs)]
    <3>1. CASE unsyncedCommits[c] = <<>>
          BY <1>15, <3>1 DEF Sync
    <3>2. CASE unsyncedCommits[c] # <<>>
      <4>1. unsyncedCommits' = [unsyncedCommits EXCEPT ![c] = <<>>]
            BY <1>15, <3>2 DEF Sync
      <4> QED
          BY <4>1, ShortSeqType
    <3> QED
        BY <3>1, <3>2
  <2>5. localSave' \in [Client -> {"ready", "saving"}]
        BY <1>15 DEF Sync
  <2>6. running' \in Client \cup {NoClient} /\ agenda' \in Seq(Task)
        BY <1>15 DEF Sync
  <2> QED
      BY <1>15, <2>3, <2>4, <2>5, <2>6 DEF Sync, tabs
<1>16. ASSUME NEW c \in Client, SaveUpdate(c) PROVE TypeOK'
  <2>1. PICK added \in Seq(CommitRefs) : repo' = repo \o added
        BY <1>16 DEF SaveUpdate
  <2>2. repo' \in Seq(CommitRefs)
        BY <2>1
  <2>3. /\ storeQueue[c] # <<>> /\ storeQueue' = [storeQueue EXCEPT ![c] = Tail(@)]
        /\ inbox' = [o \in Client |-> IF o \in open \ {c} THEN Append(inbox[o], Head(storeQueue[c]))
                                      ELSE inbox[o]]
        /\ localSave' = [localSave EXCEPT ![c] = IF LastUpdate(c) THEN "ready" ELSE @]
        /\ UNCHANGED <<commits, tempCommits, allHeadRefs, nonTempHeadRefs, lastSavedDoc,
                       lastNonTempDoc, latestDoc, unsyncedCommits, handler, tabs>>
        BY <1>16 DEF SaveUpdate
  <2>4. Head(storeQueue[c]) \in Seq(CommitRefs) /\ Tail(storeQueue[c]) \in Seq(Seq(CommitRefs))
        BY <2>3
  <2>5. storeQueue' \in [Client -> Seq(Seq(CommitRefs))]
        BY <2>3, <2>4
  <2>6. ASSUME NEW o \in Client
        PROVE  Append(inbox[o], Head(storeQueue[c])) \in Seq(Seq(CommitRefs))
    <3>1. inbox[o] \in Seq(Seq(CommitRefs))
          OBVIOUS
    <3> QED
        BY ONLY <3>1, <2>4
  <2>7. inbox' \in [Client -> Seq(Seq(CommitRefs))]
        BY <2>3, <2>6
  <2>8. localSave' \in [Client -> {"ready", "saving"}]
        BY <2>3
  <2> QED
      BY <2>2, <2>3, <2>5, <2>7, <2>8 DEF handler, tabs
<1>17. ASSUME UNCHANGED vars PROVE TypeOK'
      BY <1>17 DEF vars, memory, handler, tabs, store
<1> QED
    BY <1>1, <1>2, <1>3, <1>4, <1>5, <1>6, <1>7, <1>8, <1>9, <1>10, <1>11, <1>12,
       <1>13, <1>14, <1>15, <1>16, <1>17 DEF Next, Handler

(* The state of the clients has its type, whatever handlers interleave.    *)
THEOREM TypeCorrect == Spec => []TypeOK
BY InitTypeOK, TypeStep, PTL DEF Spec

-----------------------------------------------------------------------------
(* The stack of promoteTempCommit.  The inductive invariant says of a      *)
(* permanent commit what is still true of it while the handler is in the   *)
(* middle of the recursion: if it is not yet a permanent head, or its base *)
(* is not yet permanent, that is still on the stack.                       *)

Pending(s, r) == \E n \in DOMAIN s : s[n].op = "keep" /\ s[n].ref = r

Mentions(s, r) == \E n \in DOMAIN s : s[n].ref = r

(* The base of a commit on the stack, if it is temp, is above it.          *)
BaseFirst(s, temps) ==
    \A n \in DOMAIN s :
        s[n].op = "keep" /\ BaseOf(s[n].ref) \in temps =>
            \E m \in 1 .. n - 1 : s[m].ref = BaseOf(s[n].ref)

HandlerInv ==
    /\ running = NoClient => promoting = <<>>
    /\ running \notin failed
    /\ \A n \in DOMAIN promoting :
          promoting[n].op = "keep" => promoting[n].ref \in commits[running]
    /\ running # NoClient => BaseFirst(promoting, tempCommits[running])

HeadsInv(c) ==
    /\ tempCommits[c] \subseteq commits[c]
    /\ allHeadRefs[c] \subseteq commits[c]
    /\ nonTempHeadRefs[c] \subseteq NonTemp(c)
    /\ c \notin failed =>
          /\ \A r \in commits[c] \ allHeadRefs[c] : \E x \in commits[c] : r \in Parents(x)
          /\ \A r \in NonTemp(c) \ nonTempHeadRefs[c] :
                \/ \E x \in NonTemp(c) : r \in Parents(x)
                \/ running = c /\ Pending(promoting, r)

BasesInv(c) ==
    c \notin failed =>
        /\ \A r \in commits[c] : BaseOf(r) \in commits[c] \cup {NoRef}
        /\ \A r \in NonTemp(c) :
              BaseOf(r) \in tempCommits[c] => running = c /\ Mentions(promoting, BaseOf(r))

GraphInv == HandlerInv /\ \A c \in Client : HeadsInv(c) /\ BasesInv(c)

-----------------------------------------------------------------------------
(* What the steps of the recursion do to the stack.                        *)

LEMMA TailIndex ==
    ASSUME NEW S, NEW s \in Seq(S), s # <<>>
    PROVE  /\ DOMAIN Tail(s) = 1 .. Len(s) - 1
           /\ \A n \in 1 .. Len(s) - 1 : Tail(s)[n] = s[n + 1]
           /\ \A n \in DOMAIN s : n # 1 => n - 1 \in DOMAIN Tail(s) /\ s[n] = Tail(s)[n - 1]
           /\ 1 \in DOMAIN s /\ s[1] = Head(s)
           /\ DOMAIN s = 1 .. Len(s) /\ Len(s) \in Nat \ {0}
OBVIOUS

LEMMA ConcatIndex ==
    ASSUME NEW S, NEW s \in Seq(S), NEW t \in Seq(S)
    PROVE  /\ Len(s \o t) = Len(s) + Len(t) /\ DOMAIN (s \o t) = 1 .. Len(s) + Len(t)
           /\ \A n \in 1 .. Len(s) : (s \o t)[n] = s[n]
           /\ \A n \in Len(s) + 1 .. Len(s) + Len(t) : (s \o t)[n] = t[n - Len(s)]
OBVIOUS

LEMMA TailStack ==
    ASSUME NEW s \in Seq(Promotion), s # <<>>
    PROVE  /\ \A r : Pending(s, r) =>
                        Pending(Tail(s), r) \/ (Head(s).op = "keep" /\ r = Head(s).ref)
           /\ \A r : Mentions(s, r) => Mentions(Tail(s), r) \/ r = Head(s).ref
           /\ \A n \in DOMAIN Tail(s) : \E m \in DOMAIN s : Tail(s)[n] = s[m]
<1>1. \A n \in DOMAIN Tail(s) : \E m \in DOMAIN s : Tail(s)[n] = s[m]
  <2> TAKE n \in DOMAIN Tail(s)
  <2>1. n + 1 \in DOMAIN s /\ Tail(s)[n] = s[n + 1]
        BY TailIndex
  <2> QED
      BY <2>1
<1>2. ASSUME NEW r, Pending(s, r)
      PROVE  Pending(Tail(s), r) \/ (Head(s).op = "keep" /\ r = Head(s).ref)
  <2>1. PICK n \in DOMAIN s : s[n].op = "keep" /\ s[n].ref = r
        BY <1>2 DEF Pending
  <2> QED
      BY <2>1, TailIndex DEF Pending
<1>3. ASSUME NEW r, Mentions(s, r) PROVE Mentions(Tail(s), r) \/ r = Head(s).ref
  <2>1. PICK n \in DOMAIN s : s[n].ref = r
        BY <1>3 DEF Mentions
  <2> QED
      BY <2>1, TailIndex DEF Mentions
<1> QED
    BY <1>1, <1>2, <1>3

LEMMA TailBaseFirst ==
    ASSUME NEW s \in Seq(Promotion), s # <<>>,
           NEW temps, NEW left, left \subseteq temps, Head(s).ref \notin left,
           BaseFirst(s, temps)
    PROVE  BaseFirst(Tail(s), left)
<1> SUFFICES ASSUME NEW n \in DOMAIN Tail(s), Tail(s)[n].op = "keep",
                    BaseOf(Tail(s)[n].ref) \in left
             PROVE  \E m \in 1 .. n - 1 : Tail(s)[m].ref = BaseOf(Tail(s)[n].ref)
    BY DEF BaseFirst
<1>1. n \in 1 .. Len(s) - 1 /\ n + 1 \in DOMAIN s /\ Tail(s)[n] = s[n + 1] /\ Len(s) \in Nat
      BY TailIndex
<1>2. PICK m \in 1 .. n : s[m].ref = BaseOf(s[n + 1].ref)
      BY <1>1 DEF BaseFirst
<1>3. m # 1
      BY <1>1, <1>2, TailIndex
<1>4. m - 1 \in 1 .. n - 1 /\ Tail(s)[m - 1] = s[m]
      BY <1>1, <1>3, TailIndex
<1> QED
    BY <1>1, <1>2, <1>4

LEMMA ParentsStack ==
    ASSUME NEW r \in CommitRefs, NEW temps
    PROVE  /\ Pending(PromoteParents(r), r)
           /\ Mentions(PromoteParents(r), BaseOf(r))
           /\ \A n \in DOMAIN PromoteParents(r) :
                 PromoteParents(r)[n].op = "keep" => PromoteParents(r)[n].ref = r
           /\ BaseFirst(PromoteParents(r), temps)
<1> DEFINE s == PromoteParents(r)
<1>1. /\ DOMAIN s = 1 .. 3
      /\ s[1] = [op |-> "promote", ref |-> BaseOf(r)]
      /\ s[2] = [op |-> "promote", ref |-> MergeOf(r)]
      /\ s[3] = [op |-> "keep", ref |-> r]
      BY DEF PromoteParents
<1> HIDE DEF s
<1>2. Pending(s, r) /\ Mentions(s, BaseOf(r))
      BY <1>1 DEF Pending, Mentions
<1>3. \A n \in DOMAIN s : s[n].op = "keep" => n = 3
      BY <1>1
<1>4. BaseFirst(s, temps)
      BY <1>1, <1>3 DEF BaseFirst
<1> QED
    BY <1>1, <1>2, <1>3, <1>4 DEF s

(* promoteTempCommit of r replaces the top of the stack by its parents and *)
(* itself.                                                                 *)
Unfolds(s, r, t) ==
    /\ DOMAIN t = 1 .. Len(s) + 2
    /\ t[1] = [op |-> "promote", ref |-> BaseOf(r)]
    /\ t[2] = [op |-> "promote", ref |-> MergeOf(r)]
    /\ t[3] = [op |-> "keep", ref |-> r]
    /\ \A n \in 4 .. Len(s) + 2 : t[n] = s[n - 2]
    /\ \A n \in 2 .. Len(s) : n + 2 \in DOMAIN t /\ t[n + 2] = s[n]

LEMMA UnfoldIndex ==
    ASSUME NEW s \in Seq(Promotion), s # <<>>, NEW r \in CommitRefs
    PROVE  Unfolds(s, r, PromoteParents(r) \o Tail(s))
<1> DEFINE p == PromoteParents(r)
           q == Tail(s)
           t == p \o q
<1>1. /\ p \in Seq(Promotion) /\ Len(p) = 3
      /\ p[1] = [op |-> "promote", ref |-> BaseOf(r)]
      /\ p[2] = [op |-> "promote", ref |-> MergeOf(r)]
      /\ p[3] = [op |-> "keep", ref |-> r]
      BY PromoteParentsType DEF PromoteParents
<1>2. q \in Seq(Promotion) /\ Len(q) = Len(s) - 1 /\ Len(s) \in Nat \ {0}
      OBVIOUS
<1>3. \A n \in 1 .. Len(s) - 1 : q[n] = s[n + 1]
      BY TailIndex
<1> HIDE DEF p, q
<1>4. /\ DOMAIN (p \o q) = 1 .. Len(p) + Len(q)
      /\ \A n \in 1 .. Len(p) : (p \o q)[n] = p[n]
      /\ \A n \in Len(p) + 1 .. Len(p) + Len(q) : (p \o q)[n] = q[n - Len(p)]
  <2>1. p \in Seq(Promotion) /\ q \in Seq(Promotion)
        BY <1>1, <1>2
  <2> QED
      BY ONLY <2>1, ConcatIndex
<1>5. DOMAIN t = 1 .. Len(s) + 2 /\ t[1] = p[1] /\ t[2] = p[2] /\ t[3] = p[3]
      BY <1>1, <1>2, <1>4
<1> HIDE DEF t
<1>6. ASSUME NEW n \in 4 .. Len(s) + 2 PROVE t[n] = s[n - 2]
  <2>1. t[n] = q[n - 3]
        BY <1>1, <1>2, <1>4 DEF t
  <2>2. n - 3 \in 1 .. Len(s) - 1 /\ (n - 3) + 1 = n - 2
        BY <1>2
  <2> QED
      BY <1>3, <2>1, <2>2
<1>7. \A n \in 2 .. Len(s) : n + 2 \in DOMAIN t /\ t[n + 2] = s[n]
      BY <1>2, <1>5, <1>6
<1>8. Unfolds(s, r, t)
      BY <1>1, <1>5, <1>6, <1>7 DEF Unfolds
<1> QED
    BY <1>8 DEF p, q, t

LEMMA UnfoldStack ==
    ASSUME NEW s \in Seq(Promotion), s # <<>>, NEW r \in CommitRefs,
           Head(s).op = "promote", Head(s).ref = r,
           NEW temps, BaseFirst(s, temps),
           NEW t, Unfolds(s, r, t)
    PROVE  /\ \A x : Pending(s, x) => Pending(t, x)
           /\ \A x : Mentions(s, x) => Mentions(t, x)
           /\ \A n \in DOMAIN t :
                 t[n].op = "keep" =>
                    t[n].ref = r \/ \E m \in DOMAIN s : s[m] = t[n]
           /\ BaseFirst(t, temps)
<1>1. /\ DOMAIN t = 1 .. Len(s) + 2
      /\ t[1] = [op |-> "promote", ref |-> BaseOf(r)]
      /\ t[2] = [op |-> "promote", ref |-> MergeOf(r)]
      /\ t[3] = [op |-> "keep", ref |-> r]
      /\ \A n \in 4 .. Len(s) + 2 : t[n] = s[n - 2]
      /\ \A n \in 2 .. Len(s) : n + 2 \in DOMAIN t /\ t[n + 2] = s[n]
      BY DEF Unfolds
<1>2. s[1].op = "promote" /\ s[1].ref = r /\ DOMAIN s = 1 .. Len(s) /\ Len(s) \in Nat \ {0}
      BY TailIndex
<1>3. ASSUME NEW x, Pending(s, x) PROVE Pending(t, x)
  <2>1. PICK n \in 2 .. Len(s) : s[n].op = "keep" /\ s[n].ref = x
        BY <1>2, <1>3 DEF Pending
  <2> QED
      BY <1>1, <2>1 DEF Pending
<1>4. ASSUME NEW x, Mentions(s, x) PROVE Mentions(t, x)
  <2>1. PICK n \in 1 .. Len(s) : s[n].ref = x
        BY <1>2, <1>4 DEF Mentions
  <2>2. CASE n = 1
        BY <1>1, <1>2, <2>1, <2>2 DEF Mentions
  <2>3. CASE n # 1
        BY <1>1, <1>2, <2>1, <2>3 DEF Mentions
  <2> QED
      BY <2>2, <2>3
<1>5. ASSUME NEW n \in DOMAIN t, t[n].op = "keep"
      PROVE  t[n].ref = r \/ \E m \in DOMAIN s : s[m] = t[n]
  <2>1. n = 3 \/ n \in 4 .. Len(s) + 2
        BY <1>1, <1>2, <1>5
  <2> QED
      BY <1>1, <1>2, <2>1
<1>6. ASSUME NEW n \in DOMAIN t, t[n].op = "keep", BaseOf(t[n].ref) \in temps
      PROVE  \E m \in 1 .. n - 1 : t[m].ref = BaseOf(t[n].ref)
  <2>1. CASE n = 3
        BY <1>1, <2>1
  <2>2. CASE n \in 4 .. Len(s) + 2
    <3>1. PICK m \in 1 .. n - 3 : s[m].ref = BaseOf(t[n].ref)
          BY <1>1, <1>2, <1>6, <2>2 DEF BaseFirst
    <3>2. CASE m = 1
          BY <1>1, <1>2, <2>2, <3>1, <3>2
    <3>3. CASE m # 1
          BY <1>1, <1>2, <2>2, <3>1, <3>3
    <3> QED
        BY <3>2, <3>3
  <2> QED
      BY <1>1, <1>2, <1>6, <2>1, <2>2
<1>7. BaseFirst(t, temps)
      BY <1>6 DEF BaseFirst
<1> QED
    BY <1>3, <1>4, <1>5, <1>7

-----------------------------------------------------------------------------
LEMMA InitGraphInv == Init => GraphInv
BY NoClientAssumption DEF Init, GraphInv, HandlerInv, HeadsInv, BasesInv, NonTemp, BaseFirst

(* Between two promotions the invariant says it without the stack.         *)
LEMMA StackEmpty ==
    ASSUME GraphInv, promoting = <<>>, NEW c \in Client
    PROVE  /\ \A r : ~Pending(promoting, r) /\ ~Mentions(promoting, r)
           /\ c \notin failed =>
                /\ \A r \in NonTemp(c) : BaseOf(r) \in NonTemp(c) \cup {NoRef}
                /\ \A r \in NonTemp(c) \ nonTempHeadRefs[c] :
                      \E x \in NonTemp(c) : r \in Parents(x)
<1>1. \A r : ~Pending(promoting, r) /\ ~Mentions(promoting, r)
      BY DEF Pending, Mentions
<1> QED
    BY <1>1 DEF GraphInv, HeadsInv, BasesInv, NonTemp

(* A client whose graph does not change keeps the invariant if what is on  *)
(* the stack for it stays there.                                           *)
LEMMA GraphFrame ==
    ASSUME NEW c \in Client, HeadsInv(c), BasesInv(c),
           commits'[c] = commits[c], tempCommits'[c] = tempCommits[c],
           allHeadRefs'[c] = allHeadRefs[c], nonTempHeadRefs'[c] = nonTempHeadRefs[c],
           c \in failed => c \in failed',
           \A r : running = c /\ Pending(promoting, r) =>
                      running' = c /\ Pending(promoting', r),
           \A r : running = c /\ BaseOf(r) \in tempCommits[c]
                      /\ Mentions(promoting, BaseOf(r)) =>
                          running' = c /\ Mentions(promoting', BaseOf(r))
    PROVE  HeadsInv(c)' /\ BasesInv(c)'
<1>1. HeadsInv(c)'
      BY DEF HeadsInv, NonTemp
<1>2. BasesInv(c)'
      BY DEF BasesInv, NonTemp
<1> QED
    BY <1>1, <1>2

(* Another client's graph, whichever handler step c takes.                 *)
LEMMA OtherClient ==
    ASSUME NEW c \in Client, NEW o \in Client \ {c}, running \in {c, NoClient},
           HeadsInv(o), BasesInv(o),
           commits'[o] = commits[o], tempCommits'[o] = tempCommits[o],
           allHeadRefs'[o] = allHeadRefs[o], nonTempHeadRefs'[o] = nonTempHeadRefs[o],
           o \in failed => o \in failed'
    PROVE  HeadsInv(o)' /\ BasesInv(o)'
BY NoClientAssumption, GraphFrame

LEMMA GraphStep == TypeOK /\ TypeOK' /\ GraphInv /\ [Next]_vars => GraphInv'
<1> SUFFICES ASSUME TypeOK, TypeOK', GraphInv, [Next]_vars PROVE GraphInv'
    OBVIOUS
<1> USE NoClientAssumption, NoRefAssumption
<1>h. HandlerInv /\ \A c \in Client : HeadsInv(c) /\ BasesInv(c)
      BY DEF GraphInv
(* Nothing is promoted, before the step or after it.                       *)
<1>i. ASSUME promoting = <<>>, promoting' = <<>>, running' \notin failed' PROVE HandlerInv'
      BY <1>i DEF HandlerInv, BaseFirst
(* The steps that leave the graph alone and promote nothing.               *)
<1>s. ASSUME UNCHANGED <<commits, tempCommits, allHeadRefs, nonTempHeadRefs, failed>>,
             promoting = <<>>, promoting' = <<>>, running' \notin failed
      PROVE  GraphInv'
  <2>1. HandlerInv'
        BY <1>s, <1>i
  <2>2. ASSUME NEW o \in Client PROVE HeadsInv(o)' /\ BasesInv(o)'
    <3>1. \A r : ~Pending(promoting, r) /\ ~Mentions(promoting, r)
          BY <1>s, StackEmpty
    <3> QED
        BY <1>s, <1>h, <3>1, GraphFrame
  <2> QED
      BY <2>1, <2>2 DEF GraphInv
<1>1. ASSUME NEW c \in Client, Open(c) PROVE GraphInv'
      BY <1>1, <1>h, <1>s DEF Open, memory, handler, HandlerInv
<1>2. ASSUME NEW c \in Client, Crash(c) PROVE GraphInv'
  <2>1. HandlerInv'
        BY <1>2, <1>h, <1>i DEF Crash, handler, HandlerInv
  <2>2. ASSUME NEW o \in Client PROVE HeadsInv(o)' /\ BasesInv(o)'
    <3>1. CASE o = c
          BY <1>2, <3>1 DEF Crash, TypeOK, HeadsInv, BasesInv, NonTemp
    <3>2. CASE o # c
          BY <1>2, <1>h, <3>2, OtherClient DEF Crash, TypeOK
    <3> QED
        BY <3>1, <3>2
  <2> QED
      BY <2>1, <2>2 DEF GraphInv
<1>3. ASSUME NEW c \in Client, NEW d \in DeltaOf(c), UpdateDoc(c, d) PROVE GraphInv'
      BY <1>3, <1>h, <1>s DEF UpdateDoc, memory, HandlerInv
<1>4. ASSUME NEW c \in Client, OnCommits(c) PROVE GraphInv'
      BY <1>4, <1>h, <1>s DEF OnCommits, memory, tabs, HandlerInv
<1>5. ASSUME NEW c \in Client, UpdateCommitFromRemote(c) PROVE GraphInv'
  <2> DEFINE r == Head(agenda).ref
  <2>1. /\ running = c /\ running' = c /\ c \notin failed /\ promoting = <<>>
        /\ UNCHANGED <<commits, tempCommits, allHeadRefs, nonTempHeadRefs, failed>>
        /\ promoting' \in {<<>>, <<[op |-> "promote", ref |-> r]>>}
        BY <1>5, <1>h DEF UpdateCommitFromRemote, NextCall, memory, tabs, HandlerInv
  <2>2. \A n \in DOMAIN promoting' : promoting'[n].op # "keep"
        BY <2>1
  <2>3. HandlerInv'
        BY <2>1, <2>2 DEF HandlerInv, BaseFirst
  <2>4. ASSUME NEW o \in Client PROVE HeadsInv(o)' /\ BasesInv(o)'
    <3>1. \A x : ~Pending(promoting, x) /\ ~Mentions(promoting, x)
          BY <2>1, StackEmpty
    <3> QED
        BY <2>1, <1>h, <3>1, GraphFrame
  <2> QED
      BY <2>3, <2>4 DEF GraphInv
<1>6. ASSUME NEW c \in Client, AddExternalCommit(c) PROVE GraphInv'
  <2> DEFINE r == Head(agenda).ref
  <2>1. /\ running = c /\ running' = c /\ c \notin failed /\ promoting = <<>> /\ promoting' = <<>>
        /\ failed' = failed
        BY <1>6, <1>h DEF AddExternalCommit, NextCall, tabs, HandlerInv
  <2>2. HandlerInv'
        BY <2>1, <1>i
  <2>3. /\ BaseOf(r) \in NonTemp(c) \cup {r, NoRef}
        /\ commits'[c] = NonTemp(c) \cup {r}
        /\ tempCommits'[c] = {}
        /\ allHeadRefs'[c] = AddHead(nonTempHeadRefs[c], r)
        /\ nonTempHeadRefs'[c] = AddHead(nonTempHeadRefs[c], r)
        BY <1>6 DEF AddExternalCommit, TypeOK, CanResolve, RolledBack, NonTemp
  <2>4. NonTemp(c)' = NonTemp(c) \cup {r}
        BY <2>3 DEF NonTemp
  <2>5. HeadsInv(c)'
    <3>1. nonTempHeadRefs[c] \subseteq NonTemp(c)
          BY <1>h DEF HeadsInv
    <3>2. \A x \in NonTemp(c)' \ nonTempHeadRefs'[c] : \E y \in NonTemp(c)' : x \in Parents(y)
          BY <2>1, <2>3, <2>4, StackEmpty DEF AddHead
    <3> QED
        BY <2>3, <2>4, <3>1, <3>2 DEF HeadsInv, AddHead
  <2>6. BasesInv(c)'
        BY <2>1, <2>3, <2>4, StackEmpty DEF BasesInv
  <2>7. ASSUME NEW o \in Client \ {c} PROVE HeadsInv(o)' /\ BasesInv(o)'
        BY <1>6, <2>1, <1>h, OtherClient DEF AddExternalCommit, TypeOK
  <2> QED
      BY <2>2, <2>5, <2>6, <2>7 DEF GraphInv
<1>7. ASSUME NEW c \in Client, AddExternalCommitThrows(c) PROVE GraphInv'
  <2> DEFINE r == Head(agenda).ref
  <2>1. running = c /\ running' = NoClient /\ promoting = <<>> /\ promoting' = <<>>
        BY <1>7 DEF AddExternalCommitThrows, NextCall
  <2>2. HandlerInv'
        BY <2>1, <1>i DEF TypeOK
  <2>3. /\ c \in failed'
        /\ commits'[c] = NonTemp(c) \cup {r}
        /\ tempCommits'[c] = {}
        /\ allHeadRefs'[c] = nonTempHeadRefs[c]
        /\ nonTempHeadRefs'[c] = nonTempHeadRefs[c]
        BY <1>7 DEF AddExternalCommitThrows, TypeOK, RolledBack, NonTemp
  <2>4. HeadsInv(c)' /\ BasesInv(c)'
        BY <2>3, <1>h DEF HeadsInv, BasesInv, NonTemp
  <2>5. ASSUME NEW o \in Client \ {c} PROVE HeadsInv(o)' /\ BasesInv(o)'
        BY <1>7, <2>1, <1>h, OtherClient DEF AddExternalCommitThrows, TypeOK
  <2> QED
      BY <2>2, <2>4, <2>5 DEF GraphInv
<1>8. ASSUME NEW c \in Client, SkipNewCommit(c) PROVE GraphInv'
      BY <1>8, <1>h, <1>s DEF SkipNewCommit, NextCall, memory, tabs, HandlerInv
<1>9. ASSUME NEW c \in Client, AddNewCommit(c) PROVE GraphInv'
  <2> DEFINE r == Head(agenda).ref
             temp == Head(agenda).op = "temp"
  <2>1. /\ running = c /\ running' = c /\ c \notin failed /\ failed' = failed /\ promoting = <<>>
        /\ promoting' = IF temp THEN <<>> ELSE PromoteParents(r)
        BY <1>9, <1>h DEF AddNewCommit, NextCall, tabs, HandlerInv
  <2>2. /\ r \notin commits[c]
        /\ BaseOf(r) \in commits[c] \cup {NoRef}
        /\ commits'[c] = commits[c] \cup {r}
        /\ allHeadRefs'[c] = AddHead(allHeadRefs[c], r)
        /\ nonTempHeadRefs'[c] = nonTempHeadRefs[c]
        /\ tempCommits'[c] = IF temp THEN tempCommits[c] \cup {r} ELSE tempCommits[c]
    <3>1. BaseOf(r) \in commits[c] \cup {NoRef}
          BY <1>9 DEF AddNewCommit, Parents
    <3> QED
        BY <1>9, <3>1 DEF AddNewCommit, TypeOK
  <2>3. r \in CommitRefs
        BY <2>2 DEF TypeOK
  <2>4. /\ tempCommits[c] \subseteq commits[c]
        /\ allHeadRefs[c] \subseteq commits[c]
        /\ nonTempHeadRefs[c] \subseteq NonTemp(c)
        /\ \A x \in commits[c] \ allHeadRefs[c] : \E y \in commits[c] : x \in Parents(y)
        /\ \A x \in commits[c] : BaseOf(x) \in commits[c] \cup {NoRef}
        /\ NoRef \notin tempCommits'[c]
        BY <1>h, <2>1 DEF HeadsInv, BasesInv, TypeOK, CommitRefs
  <2>5. NonTemp(c)' = IF temp THEN NonTemp(c) ELSE NonTemp(c) \cup {r}
        BY <2>2, <2>4 DEF NonTemp
  <2>6. HandlerInv'
        BY <2>1, <2>2, <2>3, <1>i, ParentsStack DEF HandlerInv
  <2>7. HeadsInv(c)'
    <3>1. \A x \in commits'[c] \ allHeadRefs'[c] : \E y \in commits'[c] : x \in Parents(y)
          BY <2>2, <2>4 DEF AddHead
    <3>2. ASSUME NEW x \in NonTemp(c)' \ nonTempHeadRefs'[c]
          PROVE  (\E y \in NonTemp(c)' : x \in Parents(y)) \/ Pending(promoting', x)
      <4>1. CASE x \in NonTemp(c)
            BY <2>1, <2>2, <2>5, <4>1, StackEmpty
      <4>2. CASE x \notin NonTemp(c)
            BY <2>1, <2>3, <2>5, <4>2, ParentsStack
      <4> QED
          BY <4>1, <4>2
    <3> QED
        BY <2>1, <2>2, <2>4, <2>5, <3>1, <3>2 DEF HeadsInv, AddHead
  <2>8. BasesInv(c)'
    <3>1. ASSUME NEW x \in NonTemp(c)', BaseOf(x) \in tempCommits'[c]
          PROVE  Mentions(promoting', BaseOf(x))
      <4>1. CASE x \in NonTemp(c)
        <5>1. BaseOf(x) \in NonTemp(c) \cup {NoRef}
              BY <2>1, <4>1, StackEmpty
        <5> QED
            BY <2>2, <2>4, <3>1, <5>1 DEF NonTemp
      <4>2. CASE x \notin NonTemp(c)
            BY <2>1, <2>3, <2>5, <4>2, ParentsStack
      <4> QED
          BY <4>1, <4>2
    <3> QED
        BY <2>1, <2>2, <2>4, <3>1 DEF BasesInv
  <2>9. ASSUME NEW o \in Client \ {c} PROVE HeadsInv(o)' /\ BasesInv(o)'
        BY <1>9, <2>1, <1>h, OtherClient DEF AddNewCommit, TypeOK
  <2> QED
      BY <2>6, <2>7, <2>8, <2>9 DEF GraphInv
<1>10. ASSUME NEW c \in Client, PromoteTempCommit(c) PROVE GraphInv'
  <2> DEFINE r == Head(promoting).ref
  <2>1. /\ running = c /\ running' = c /\ promoting # <<>> /\ Head(promoting).op = "promote"
        /\ UNCHANGED <<commits, tempCommits, allHeadRefs, nonTempHeadRefs, failed>>
        /\ r \in tempCommits[c] /\ r \in CommitRefs
        /\ promoting' = PromoteParents(r) \o Tail(promoting)
        BY <1>10 DEF PromoteTempCommit, NextPromotion, memory, tabs, TypeOK
  <2>2. BaseFirst(promoting, tempCommits[c]) /\ tempCommits[c] \subseteq commits[c]
        BY <2>1, <1>h DEF HandlerInv, HeadsInv
  <2>3. /\ \A x : Pending(promoting, x) => Pending(promoting', x)
        /\ \A x : Mentions(promoting, x) => Mentions(promoting', x)
        /\ \A n \in DOMAIN promoting' :
              promoting'[n].op = "keep" =>
                 promoting'[n].ref = r \/ \E m \in DOMAIN promoting : promoting[m] = promoting'[n]
        /\ BaseFirst(promoting', tempCommits[c])
    <3>1. Unfolds(promoting, r, promoting')
          BY <2>1, UnfoldIndex DEF TypeOK
    <3>2. /\ promoting \in Seq(Promotion) /\ promoting # <<>> /\ r \in CommitRefs
          /\ Head(promoting).op = "promote" /\ Head(promoting).ref = r
          BY <2>1 DEF TypeOK
    <3>3. BaseFirst(promoting, tempCommits[c])
          BY <2>2
    <3> HIDE DEF r
    <3> QED
        BY ONLY <3>1, <3>2, <3>3, UnfoldStack, ZenonT(30)
  <2>4. HandlerInv'
        BY <2>1, <2>2, <2>3, <1>h DEF HandlerInv
  <2>5. ASSUME NEW o \in Client PROVE HeadsInv(o)' /\ BasesInv(o)'
        BY <2>1, <2>3, <1>h, GraphFrame
  <2> QED
      BY <2>4, <2>5 DEF GraphInv
<1>11. ASSUME NEW c \in Client, PromotePermanentCommit(c) PROVE GraphInv'
  <2> DEFINE r == Head(promoting).ref
  <2>1. /\ running = c /\ running' = c /\ promoting # <<>> /\ Head(promoting).op = "promote"
        /\ UNCHANGED <<commits, tempCommits, allHeadRefs, nonTempHeadRefs, failed>>
        /\ r \notin tempCommits[c]
        /\ promoting' = Tail(promoting)
        BY <1>11 DEF PromotePermanentCommit, NextPromotion, tabs
  <2>2. /\ \A x : Pending(promoting, x) => Pending(promoting', x)
        /\ \A x : Mentions(promoting, x) => Mentions(promoting', x) \/ x = r
        /\ \A n \in DOMAIN promoting' : \E m \in DOMAIN promoting : promoting'[n] = promoting[m]
        BY <2>1, TailStack DEF TypeOK
  <2>3. BaseFirst(promoting', tempCommits[c])
        BY <2>1, <1>h, TailBaseFirst DEF TypeOK, HandlerInv
  <2>4. HandlerInv'
        BY <2>1, <2>2, <2>3, <1>h DEF HandlerInv
  <2>5. ASSUME NEW o \in Client PROVE HeadsInv(o)' /\ BasesInv(o)'
        BY <2>1, <2>2, <1>h, GraphFrame
  <2> QED
      BY <2>4, <2>5 DEF GraphInv
<1>12. ASSUME NEW c \in Client, KeepCommit(c) PROVE GraphInv'
  <2> DEFINE r == Head(promoting).ref
  <2>1. /\ running = c /\ running' = c /\ promoting # <<>> /\ Head(promoting).op = "keep"
        /\ UNCHANGED <<commits, allHeadRefs, failed>>
        /\ nonTempHeadRefs'[c] = AddHead(nonTempHeadRefs[c], r)
        /\ tempCommits'[c] = tempCommits[c] \ {r}
        /\ promoting' = Tail(promoting)
        BY <1>12 DEF KeepCommit, NextPromotion, tabs, TypeOK
  <2>2. /\ \A x : Pending(promoting, x) => Pending(promoting', x) \/ x = r
        /\ \A x : Mentions(promoting, x) => Mentions(promoting', x) \/ x = r
        /\ \A n \in DOMAIN promoting' : \E m \in DOMAIN promoting : promoting'[n] = promoting[m]
        BY <2>1, TailStack DEF TypeOK
  <2>3. r \in commits[c] /\ BaseOf(r) \notin tempCommits[c]
    <3>1. 1 \in DOMAIN promoting /\ promoting[1] = Head(promoting)
          BY <2>1, TailIndex DEF TypeOK
    <3> QED
        BY <2>1, <3>1, <1>h DEF HandlerInv, BaseFirst
  <2>4. BaseFirst(promoting', tempCommits'[c])
        BY <2>1, <1>h, TailBaseFirst DEF TypeOK, HandlerInv
  <2>5. HandlerInv'
        BY <2>1, <2>2, <2>4, <1>h DEF HandlerInv
  <2>6. NonTemp(c)' = NonTemp(c) \cup {r}
        BY <2>1, <2>3 DEF NonTemp
  <2>7. HeadsInv(c)'
    <3>1. \A x \in NonTemp(c)' \ nonTempHeadRefs'[c] :
             (\E y \in NonTemp(c)' : x \in Parents(y)) \/ Pending(promoting', x)
          BY <2>1, <2>2, <2>6, <1>h DEF HeadsInv, AddHead, HandlerInv
    <3> QED
        BY <2>1, <2>3, <2>6, <3>1, <1>h DEF HeadsInv, AddHead
  <2>8. BasesInv(c)'
        BY <2>1, <2>2, <2>3, <2>6, <1>h DEF BasesInv
  <2>9. ASSUME NEW o \in Client \ {c} PROVE HeadsInv(o)' /\ BasesInv(o)'
        BY <1>12, <2>1, <1>h, OtherClient DEF KeepCommit, TypeOK
  <2> QED
      BY <2>5, <2>7, <2>8, <2>9 DEF GraphInv
<1>13. ASSUME NEW c \in Client, MergeHeads(c) PROVE GraphInv'
      BY <1>13, <1>h, <1>s DEF MergeHeads, NextCall, memory, tabs, HandlerInv
<1>14. ASSUME NEW c \in Client, ReadDoc(c) PROVE GraphInv'
      BY <1>14, <1>h, <1>s DEF ReadDoc, NextCall, tabs, HandlerInv
<1>15. ASSUME NEW c \in Client, Sync(c) PROVE GraphInv'
      BY <1>15, <1>h, <1>s DEF Sync, NextCall, tabs, HandlerInv, TypeOK
<1>16. ASSUME NEW c \in Client, SaveUpdate(c) PROVE GraphInv'
      BY <1>16, <1>h, <1>s DEF SaveUpdate, handler, tabs, HandlerInv
<1>17. ASSUME UNCHANGED vars PROVE GraphInv'
  <2>1. HandlerInv'
        BY <1>17, <1>h DEF vars, memory, handler, tabs, HandlerInv, BaseFirst
  <2>2. ASSUME NEW o \in Client PROVE HeadsInv(o)' /\ BasesInv(o)'
        BY <1>17, <1>h, GraphFrame DEF vars, memory, handler, tabs
  <2> QED
      BY <2>1, <2>2 DEF GraphInv
<1> QED
    BY <1>1, <1>2, <1>3, <1>4, <1>5, <1>6, <1>7, <1>8, <1>9, <1>10, <1>11, <1>12,
       <1>13, <1>14, <1>15, <1>16, <1>17 DEF Next, Handler

LEMMA GraphInvariant == Spec => [](TypeOK /\ GraphInv)
<1>1. TypeOK /\ GraphInv /\ [Next]_vars => (TypeOK /\ GraphInv)'
      BY TypeStep, GraphStep
<1> QED
    BY <1>1, InitTypeOK, InitGraphInv, PTL DEF Spec

(* No branch is ever out of reach of the heads, also not after a rollback, *)
(* however deep the temp merges were that an edit promoted, and whichever  *)
(* merge commits mergeAllBranches asks for.                                *)
THEOREM NoBranchIsLost == Spec => []NoBranchLost
<1>1. TypeOK /\ GraphInv => NoBranchLost
  <2> SUFFICES ASSUME TypeOK, GraphInv, NEW c \in Client
               PROVE  /\ allHeadRefs[c] \subseteq commits[c]
                      /\ nonTempHeadRefs[c] \subseteq NonTemp(c)
                      /\ c \notin failed =>
                            \A r \in commits[c] \ allHeadRefs[c] :
                                \E x \in commits[c] : r \in Parents(x)
                      /\ c \notin failed /\ Idle =>
                            \A r \in NonTemp(c) \ nonTempHeadRefs[c] :
                                \E x \in NonTemp(c) : r \in Parents(x)
      BY DEF NoBranchLost
  <2> QED
      BY StackEmpty DEF GraphInv, HandlerInv, HeadsInv, Idle
<1> QED
    BY <1>1, GraphInvariant, PTL

(* Every doc can be computed from the commits a client has, and after a    *)
(* rollback from the permanent ones alone.                                 *)
THEOREM DocsResolve == Spec => []DocResolvable
<1>1. TypeOK /\ GraphInv => DocResolvable
  <2> SUFFICES ASSUME TypeOK, GraphInv, NEW c \in Client \ failed
               PROVE  /\ \A r \in commits[c] : BaseOf(r) \in commits[c] \cup {NoRef}
                      /\ Idle => \A r \in NonTemp(c) : BaseOf(r) \in NonTemp(c) \cup {NoRef}
      BY DEF DocResolvable
  <2> QED
      BY StackEmpty DEF GraphInv, HandlerInv, BasesInv, Idle
<1> QED
    BY <1>1, GraphInvariant, PTL

(* As long as its tab is open, a client keeps every permanent commit.      *)
THEOREM NothingIsForgotten == Spec => NeverForgets
<1> DEFINE Keeps == \A c \in Client : c \in open' => NonTemp(c) \subseteq commits'[c] \ tempCommits'[c]
<1>1. TypeOK /\ GraphInv /\ TypeOK' /\ GraphInv' /\ [Next]_vars => [Keeps]_vars
  <2> SUFFICES ASSUME TypeOK, TypeOK', Next, NEW c \in Client, c \in open',
                      tempCommits[c] \subseteq commits[c]
               PROVE  NonTemp(c) \subseteq commits'[c] \ tempCommits'[c]
      BY DEF GraphInv, HeadsInv
  <2> USE DEF NonTemp, TypeOK
  <2>1. PICK o \in Client : Open(o) \/ Crash(o) \/ (\E d \in DeltaOf(o) : UpdateDoc(o, d))
                                \/ OnCommits(o) \/ Handler(o) \/ SaveUpdate(o)
        BY DEF Next
  <2>2. CASE Open(o) \/ (\E d \in DeltaOf(o) : UpdateDoc(o, d)) \/ OnCommits(o) \/ SaveUpdate(o)
        BY <2>2 DEF Open, UpdateDoc, OnCommits, SaveUpdate, memory
  <2>3. CASE Crash(o)
        BY <2>3 DEF Crash
  <2>4. CASE AddExternalCommit(o)
        BY <2>4 DEF AddExternalCommit, RolledBack
  <2>5. CASE AddExternalCommitThrows(o)
        BY <2>5 DEF AddExternalCommitThrows, RolledBack
  <2>6. CASE AddNewCommit(o)
        BY <2>6 DEF AddNewCommit
  <2>7. CASE KeepCommit(o)
        BY <2>7 DEF KeepCommit
  <2>8. CASE PromotePermanentCommit(o) \/ ReadDoc(o) \/ Sync(o)
        BY <2>8 DEF PromotePermanentCommit, ReadDoc, Sync
  <2>9. CASE UpdateCommitFromRemote(o) \/ SkipNewCommit(o) \/ PromoteTempCommit(o) \/ MergeHeads(o)
        BY <2>9 DEF UpdateCommitFromRemote, SkipNewCommit, PromoteTempCommit, MergeHeads, memory
  <2> QED
      BY <2>1, <2>2, <2>3, <2>4, <2>5, <2>6, <2>7, <2>8, <2>9 DEF Handler
<1> QED
    BY <1>1, GraphInvariant, PTL DEF NeverForgets, Spec

-----------------------------------------------------------------------------
(* The graph of a client, with the stack s of promoteTempCommit: C are its *)
(* commits, T the temp ones, A and N the two sets of heads.                *)

Follow(C, x) == {y \in C : x \in Parents(y)}

(* A rank that grows from parents to children; on the stack, what is above *)
(* a commit to keep comes before it.                                       *)
IsRank(f, C, s) ==
    /\ f \in [C -> Nat]
    /\ \A r \in C : \A p \in Parents(r) : f[p] < f[r]
    /\ \A n \in DOMAIN s : s[n].op = "keep" =>
          \A m \in 1 .. n - 1 : s[m].ref # NoRef => f[s[m].ref] < f[s[n].ref]

StackOK(C, T, s) ==
    /\ \A n \in DOMAIN s : s[n].ref \in C \cup {NoRef}
    /\ \A n \in DOMAIN s : s[n].op = "keep" =>
          /\ s[n].ref \in C
          /\ s[n].ref \in T \/ Follow(C, s[n].ref) = {}
          /\ \A p \in Parents(s[n].ref) \cap T : \E m \in 1 .. n - 1 : s[m].ref = p

CommitsOK(C, T, s) ==
    /\ T \subseteq C
    /\ \A r \in C : Parents(r) \subseteq C
    /\ \A r \in C \ T : Parents(r) \cap T # {} => Pending(s, r)
    /\ \E f : IsRank(f, C, s)

(* No head has a child, but for the permanent heads that a commit on the   *)
(* stack will replace.                                                     *)
HeadsOK(C, T, A, N, s) ==
    /\ \A r \in A : Follow(C, r) = {}
    /\ \A r \in N : \A y \in Follow(C \ T, r) : Pending(s, y)

GraphOK(C, T, A, N, s) == StackOK(C, T, s) /\ CommitsOK(C, T, s) /\ HeadsOK(C, T, A, N, s)

LEMMA NoParents == \A r : NoRef \notin Parents(r) /\ Parents(r) \subseteq {BaseOf(r), MergeOf(r)}
BY DEF Parents

LEMMA NoStack ==
    /\ \A C, T : StackOK(C, T, <<>>)
    /\ \A r : ~Pending(<<>>, r) /\ ~Mentions(<<>>, r)
BY DEF StackOK, Pending, Mentions

LEMMA ParentsIndex ==
    ASSUME NEW r
    PROVE  LET s == PromoteParents(r)
           IN  /\ DOMAIN s = 1 .. 3 /\ Len(s) = 3
               /\ s[1] = [op |-> "promote", ref |-> BaseOf(r)]
               /\ s[2] = [op |-> "promote", ref |-> MergeOf(r)]
               /\ s[3] = [op |-> "keep", ref |-> r]
BY DEF PromoteParents

(* A new commit on commits that are there.                                 *)
LEMMA RankNew ==
    ASSUME NEW C, NEW f, IsRank(f, C, <<>>), NEW D, D \subseteq C,
           \A x \in D : Parents(x) \subseteq D,
           NEW r, r \notin C, Parents(r) \subseteq D,
           NEW s, s \in {<<>>, PromoteParents(r)}
    PROVE  \E g : IsRank(g, D \cup {r}, s)
<1> DEFINE v(x) == IF x \in D THEN f[x] ELSE 0
           g == [x \in D \cup {r} |-> IF x = r THEN 1 + v(BaseOf(r)) + v(MergeOf(r)) ELSE f[x]]
<1>1. f \in [C -> Nat] /\ \A x \in C : \A p \in Parents(x) : f[p] < f[x]
      BY DEF IsRank
<1>2. \A x : v(x) \in Nat
      BY <1>1
<1>3. g[r] = 1 + v(BaseOf(r)) + v(MergeOf(r)) /\ \A x \in D : g[x] = f[x]
      OBVIOUS
<1>4. g \in [D \cup {r} -> Nat]
      BY <1>1, <1>2
<1>5. \A p \in Parents(r) : p \in D /\ g[p] < g[r]
  <2> TAKE p \in Parents(r)
  <2>1. p \in D /\ (p = BaseOf(r) \/ p = MergeOf(r))
        BY NoParents
  <2>2. g[p] = v(p) /\ v(p) = f[p]
        BY <2>1, <1>3
  <2> HIDE DEF g, v
  <2> QED
      BY <2>1, <2>2, <1>2, <1>3
<1>6. ASSUME NEW x \in D \cup {r}, NEW p \in Parents(x) PROVE g[p] < g[x]
  <2>1. CASE x = r
        BY <2>1, <1>5, <1>6
  <2>2. CASE x # r
    <3>1. x \in D /\ p \in D
          BY <2>2, <1>6
    <3> QED
        BY <3>1, <1>1, <1>3, <1>6
  <2> QED
      BY <2>1, <2>2
<1> HIDE DEF g, v
<1>7. ASSUME NEW n \in DOMAIN s, s[n].op = "keep", NEW m \in 1 .. n - 1, s[m].ref # NoRef
      PROVE  g[s[m].ref] < g[s[n].ref]
  <2>1. s = PromoteParents(r)
        BY <1>7
  <2>2. n = 3 /\ s[n].ref = r /\ s[m].ref \in {BaseOf(r), MergeOf(r)}
    <3>1. /\ DOMAIN s = 1 .. 3
          /\ s[1] = [op |-> "promote", ref |-> BaseOf(r)]
          /\ s[2] = [op |-> "promote", ref |-> MergeOf(r)]
          /\ s[3] = [op |-> "keep", ref |-> r]
          BY <2>1, ParentsIndex
    <3>2. n = 3
          BY <3>1, <1>7
    <3>3. m = 1 \/ m = 2
          BY <3>2
    <3> QED
        BY <3>1, <3>2, <3>3
  <2>3. s[m].ref \in Parents(r)
        BY <2>2, <1>7 DEF Parents
  <2> QED
      BY <2>2, <2>3, <1>5
<1>8. IsRank(g, D \cup {r}, s)
      BY <1>4, <1>6, <1>7 DEF IsRank
<1> QED
    BY <1>8

LEMMA ExternalGraph ==
    ASSUME NEW C, NEW T, NEW A, NEW N, GraphOK(C, T, A, N, <<>>),
           NEW r, r \notin C, Parents(r) \subseteq C \ T
    PROVE  GraphOK((C \ T) \cup {r}, {}, AddHead(N, r), AddHead(N, r), <<>>)
<1> DEFINE D == C \ T
<1>1. \A x \in D : Parents(x) \subseteq D
      BY NoStack DEF GraphOK, CommitsOK
<1>2. PICK f : IsRank(f, C, <<>>)
      BY DEF GraphOK, CommitsOK
<1>3. \E g : IsRank(g, D \cup {r}, <<>>)
      BY <1>1, <1>2, RankNew
<1>4. CommitsOK(D \cup {r}, {}, <<>>)
      BY <1>1, <1>3 DEF CommitsOK
<1>5. ASSUME NEW h \in AddHead(N, r) PROVE Follow(D \cup {r}, h) = {}
  <2> SUFFICES ASSUME NEW y \in D \cup {r}, h \in Parents(y) PROVE FALSE
      BY DEF Follow
  <2>1. CASE h = r
        BY <2>1, <1>1
  <2>2. CASE h # r
    <3>1. h \in N /\ h \notin Parents(r)
          BY <2>2, <1>5 DEF AddHead
    <3>2. y \in Follow(D, h)
          BY <3>1 DEF Follow
    <3> QED
        BY <3>1, <3>2, NoStack DEF GraphOK, HeadsOK
  <2> QED
      BY <2>1, <2>2
<1>6. HeadsOK(D \cup {r}, {}, AddHead(N, r), AddHead(N, r), <<>>)
  <2>1. (D \cup {r}) \ {} = D \cup {r}
        OBVIOUS
  <2> QED
      BY <1>5, <2>1 DEF HeadsOK
<1> QED
    BY <1>4, <1>6, NoStack DEF GraphOK

LEMMA TempGraph ==
    ASSUME NEW C, NEW T, NEW A, NEW N, GraphOK(C, T, A, N, <<>>),
           NEW r, r \notin C, Parents(r) \subseteq C
    PROVE  GraphOK(C \cup {r}, T \cup {r}, AddHead(A, r), N, <<>>)
<1>1. T \subseteq C /\ \A x \in C : Parents(x) \subseteq C
      BY DEF GraphOK, CommitsOK
<1>2. \E g : IsRank(g, C \cup {r}, <<>>)
      BY <1>1, RankNew DEF GraphOK, CommitsOK
<1>3. (C \cup {r}) \ (T \cup {r}) = C \ T
      BY <1>1
<1>4. CommitsOK(C \cup {r}, T \cup {r}, <<>>)
      BY <1>1, <1>2, <1>3 DEF GraphOK, CommitsOK
<1>5. ASSUME NEW h \in AddHead(A, r), NEW y \in C \cup {r}, h \in Parents(y) PROVE FALSE
  <2>1. CASE h = r
        BY <2>1, <1>1, <1>5
  <2>2. CASE h # r
        BY <2>2, <1>5 DEF AddHead, GraphOK, HeadsOK, Follow
  <2> QED
      BY <2>1, <2>2
<1>6. HeadsOK(C \cup {r}, T \cup {r}, AddHead(A, r), N, <<>>)
      BY <1>3, <1>5 DEF GraphOK, HeadsOK, Follow
<1> QED
    BY <1>4, <1>6, NoStack DEF GraphOK

LEMMA LocalGraph ==
    ASSUME NEW C, NEW T, NEW A, NEW N, GraphOK(C, T, A, N, <<>>),
           NEW r, r \notin C, Parents(r) \subseteq C
    PROVE  GraphOK(C \cup {r}, T, AddHead(A, r), N, PromoteParents(r))
<1> DEFINE s == PromoteParents(r)
<1>1. T \subseteq C /\ \A x \in C : Parents(x) \subseteq C
      BY DEF GraphOK, CommitsOK
<1>2. \E g : IsRank(g, C \cup {r}, s)
      BY <1>1, RankNew DEF GraphOK, CommitsOK
<1>3. (C \cup {r}) \ T = (C \ T) \cup {r}
      BY <1>1
<1>4. /\ DOMAIN s = 1 .. 3
      /\ s[1] = [op |-> "promote", ref |-> BaseOf(r)]
      /\ s[2] = [op |-> "promote", ref |-> MergeOf(r)]
      /\ s[3] = [op |-> "keep", ref |-> r]
      BY ParentsIndex
<1> HIDE DEF s
<1>5. Pending(s, r)
      BY <1>4 DEF Pending
<1>6. \A x \in (C \cup {r}) \ T : Parents(x) \cap T # {} => Pending(s, x)
      BY <1>3, <1>5, NoStack DEF GraphOK, CommitsOK
<1>7. CommitsOK(C \cup {r}, T, s)
      BY <1>1, <1>2, <1>6 DEF CommitsOK
<1>8. Follow(C \cup {r}, r) = {}
      BY <1>1 DEF Follow
<1>9. StackOK(C \cup {r}, T, s)
  <2>1. BaseOf(r) \in C \cup {NoRef} /\ MergeOf(r) \in C \cup {NoRef}
        BY DEF Parents
  <2>2. \A n \in DOMAIN s : s[n].ref \in (C \cup {r}) \cup {NoRef}
        BY <1>4, <2>1
  <2>3. ASSUME NEW n \in DOMAIN s, s[n].op = "keep"
        PROVE  /\ s[n].ref \in C \cup {r}
               /\ Follow(C \cup {r}, s[n].ref) = {}
               /\ \A p \in Parents(s[n].ref) \cap T : \E m \in 1 .. n - 1 : s[m].ref = p
    <3>1. n = 3 /\ s[n].ref = r
          BY <2>3, <1>4
    <3>2. ASSUME NEW p \in Parents(r) PROVE \E m \in 1 .. n - 1 : s[m].ref = p
      <4>1. 1 \in 1 .. n - 1 /\ 2 \in 1 .. n - 1
            BY <3>1
      <4>2. p = BaseOf(r) \/ p = MergeOf(r)
            BY NoParents
      <4> QED
          BY <4>1, <4>2, <1>4
    <3> QED
        BY <3>1, <3>2, <1>8
  <2> QED
      BY <2>2, <2>3 DEF StackOK
<1>10. ASSUME NEW h \in AddHead(A, r), NEW y \in C \cup {r}, h \in Parents(y) PROVE FALSE
  <2>1. CASE h = r
        BY <2>1, <1>8, <1>10 DEF Follow
  <2>2. CASE h # r
        BY <2>2, <1>10 DEF AddHead, GraphOK, HeadsOK, Follow
  <2> QED
      BY <2>1, <2>2
<1>11. HeadsOK(C \cup {r}, T, AddHead(A, r), N, s)
      BY <1>3, <1>5, <1>10, NoStack DEF GraphOK, HeadsOK, Follow
<1> QED
    BY <1>7, <1>9, <1>11 DEF GraphOK, s

(* promoteTempCommit is called.                                            *)
LEMMA StartGraph ==
    ASSUME NEW C, NEW T, NEW A, NEW N, GraphOK(C, T, A, N, <<>>), NEW r \in C
    PROVE  GraphOK(C, T, A, N, <<[op |-> "promote", ref |-> r]>>)
<1> DEFINE s == <<[op |-> "promote", ref |-> r]>>
<1>1. DOMAIN s = {1} /\ s[1] = [op |-> "promote", ref |-> r]
      OBVIOUS
<1> HIDE DEF s
<1>2. \A n \in DOMAIN s : s[n].op # "keep" /\ s[n].ref = r
      BY <1>1
<1>3. StackOK(C, T, s)
      BY <1>2 DEF StackOK
<1>4. PICK f : IsRank(f, C, <<>>)
      BY DEF GraphOK, CommitsOK
<1>5. IsRank(f, C, s)
      BY <1>2, <1>4 DEF IsRank
<1>6. CommitsOK(C, T, s)
      BY <1>5, NoStack DEF GraphOK, CommitsOK
<1>7. HeadsOK(C, T, A, N, s)
      BY NoStack DEF GraphOK, HeadsOK
<1> QED
    BY <1>3, <1>6, <1>7 DEF GraphOK, s

(* The top of the stack is taken off: commits that were to be kept still   *)
(* are, but for the top.                                                   *)
LEMMA TailGraph ==
    ASSUME NEW C, NEW T, NEW s \in Seq(Promotion), s # <<>>, StackOK(C, T, s),
           NEW left, left \subseteq T, Head(s).ref \notin left,
           \A n \in DOMAIN s : n # 1 /\ s[n].op = "keep" /\ s[n].ref \in T =>
                s[n].ref \in left,
           NEW f, IsRank(f, C, s)
    PROVE  /\ StackOK(C, left, Tail(s))
           /\ IsRank(f, C, Tail(s))
<1> DEFINE t == Tail(s)
<1>1. /\ DOMAIN t = 1 .. Len(s) - 1 /\ DOMAIN s = 1 .. Len(s) /\ Len(s) \in Nat \ {0}
      /\ \A n \in 1 .. Len(s) - 1 : t[n] = s[n + 1]
      /\ s[1] = Head(s)
      BY TailIndex
<1> HIDE DEF t
<1>2. ASSUME NEW n \in DOMAIN t
      PROVE  n + 1 \in DOMAIN s /\ t[n] = s[n + 1] /\ n + 1 # 1
      BY <1>1
<1>3. ASSUME NEW n \in DOMAIN t, t[n].op = "keep", NEW p \in Parents(t[n].ref) \cap left
      PROVE  \E m \in 1 .. n - 1 : t[m].ref = p
  <2>1. PICK m \in 1 .. n : s[m].ref = p
    <3>1. n + 1 \in DOMAIN s /\ s[n + 1].op = "keep" /\ p \in Parents(s[n + 1].ref) \cap T
          BY <1>2, <1>3
    <3>2. \E m \in 1 .. (n + 1) - 1 : s[m].ref = p
          BY <3>1 DEF StackOK
    <3> QED
        BY <3>2, <1>1
  <2>2. m # 1
        BY <2>1, <1>1, <1>3
  <2>3. m - 1 \in 1 .. n - 1 /\ m - 1 \in 1 .. Len(s) - 1 /\ (m - 1) + 1 = m
        BY <2>1, <2>2, <1>1
  <2>4. t[m - 1] = s[m]
        BY <2>3, <1>1
  <2> QED
      BY <2>1, <2>3, <2>4
<1>4. ASSUME NEW n \in DOMAIN t
      PROVE  /\ t[n].ref \in C \cup {NoRef}
             /\ t[n].op = "keep" =>
                    /\ t[n].ref \in C
                    /\ t[n].ref \in left \/ Follow(C, t[n].ref) = {}
  <2>1. n + 1 \in DOMAIN s /\ t[n] = s[n + 1] /\ n + 1 # 1
        BY <1>2, <1>4
  <2>2. /\ s[n + 1].ref \in C \cup {NoRef}
        /\ s[n + 1].op = "keep" =>
              s[n + 1].ref \in C /\ (s[n + 1].ref \in T \/ Follow(C, s[n + 1].ref) = {})
        BY <2>1 DEF StackOK
  <2>3. s[n + 1].op = "keep" /\ s[n + 1].ref \in T => s[n + 1].ref \in left
        BY <2>1
  <2> QED
      BY <2>1, <2>2, <2>3
<1>5. StackOK(C, left, t)
      BY <1>3, <1>4 DEF StackOK
<1>6. ASSUME NEW n \in DOMAIN t, t[n].op = "keep", NEW m \in 1 .. n - 1, t[m].ref # NoRef
      PROVE  f[t[m].ref] < f[t[n].ref]
  <2>1. /\ n + 1 \in DOMAIN s /\ t[n] = s[n + 1]
        /\ m \in 1 .. Len(s) - 1 /\ t[m] = s[m + 1] /\ m + 1 \in 1 .. (n + 1) - 1
        BY <1>1, <1>6
  <2>2. s[n + 1].op = "keep" /\ s[m + 1].ref # NoRef
        BY <2>1, <1>6
  <2>3. f[s[m + 1].ref] < f[s[n + 1].ref]
        BY <2>1, <2>2 DEF IsRank
  <2> QED
      BY <2>1, <2>3
<1>7. IsRank(f, C, t)
      BY <1>6 DEF IsRank
<1> QED
    BY <1>5, <1>7 DEF t

LEMMA PendingTail ==
    ASSUME NEW s \in Seq(Promotion), s # <<>>, NEW r, Pending(s, r)
    PROVE  Pending(Tail(s), r) \/ (Head(s).op = "keep" /\ r = Head(s).ref)
BY TailStack

(* The recursion ends at a permanent commit.                               *)
LEMMA PermanentGraph ==
    ASSUME NEW C, NEW T, NEW A, NEW N, NEW s \in Seq(Promotion), GraphOK(C, T, A, N, s),
           s # <<>>, Head(s).op = "promote", Head(s).ref \notin T
    PROVE  GraphOK(C, T, A, N, Tail(s))
<1>1. PICK f : IsRank(f, C, s)
      BY DEF GraphOK, CommitsOK
<1>2. StackOK(C, T, Tail(s)) /\ IsRank(f, C, Tail(s))
      BY <1>1, TailGraph DEF GraphOK
<1>3. \A r : Pending(s, r) => Pending(Tail(s), r)
      BY PendingTail
<1>4. CommitsOK(C, T, Tail(s))
      BY <1>2, <1>3 DEF GraphOK, CommitsOK
<1>5. HeadsOK(C, T, A, N, Tail(s))
      BY <1>3 DEF GraphOK, HeadsOK
<1> QED
    BY <1>2, <1>4, <1>5 DEF GraphOK

(* A temp commit's parents go on top of it.                                *)
LEMMA PromoteGraph ==
    ASSUME NEW C, NEW T, NEW A, NEW N, NEW s \in Seq(Promotion), GraphOK(C, T, A, N, s),
           NEW r \in CommitRefs, s # <<>>, Head(s).op = "promote", Head(s).ref = r, r \in T
    PROVE  GraphOK(C, T, A, N, PromoteParents(r) \o Tail(s))
<1> DEFINE t == PromoteParents(r) \o Tail(s)
<1>1. /\ DOMAIN t = 1 .. Len(s) + 2
      /\ t[1] = [op |-> "promote", ref |-> BaseOf(r)]
      /\ t[2] = [op |-> "promote", ref |-> MergeOf(r)]
      /\ t[3] = [op |-> "keep", ref |-> r]
      /\ \A n \in 4 .. Len(s) + 2 : t[n] = s[n - 2]
      /\ \A n \in 2 .. Len(s) : n + 2 \in DOMAIN t /\ t[n + 2] = s[n]
      BY UnfoldIndex DEF Unfolds
<1> HIDE DEF t
<1>2. /\ s[1].op = "promote" /\ s[1].ref = r /\ DOMAIN s = 1 .. Len(s) /\ Len(s) \in Nat \ {0}
      BY TailIndex
<1>3. \A n \in DOMAIN t : n = 1 \/ n = 2 \/ n = 3 \/ (n \in 4 .. Len(s) + 2 /\ n - 2 \in 2 .. Len(s))
      BY <1>1, <1>2
<1>4. /\ r \in C /\ T \subseteq C /\ Parents(r) \subseteq C
      /\ BaseOf(r) \in Parents(r) \cup {NoRef} /\ MergeOf(r) \in Parents(r) \cup {NoRef}
      BY DEF GraphOK, CommitsOK, Parents
<1>5. PICK f : IsRank(f, C, s)
      BY DEF GraphOK, CommitsOK
<1>6. f \in [C -> Nat] /\ \A p \in Parents(r) : f[p] < f[r]
      BY <1>4, <1>5 DEF IsRank
<1>7. ASSUME NEW x, Pending(s, x) PROVE Pending(t, x)
  <2>1. PICK n \in DOMAIN s : s[n].op = "keep" /\ s[n].ref = x
        BY <1>7 DEF Pending
  <2>2. n \in 2 .. Len(s)
        BY <2>1, <1>2
  <2> QED
      BY <2>1, <2>2, <1>1 DEF Pending
<1>8. \A n \in DOMAIN t : t[n].op = "keep" => n = 3 \/ n \in 4 .. Len(s) + 2
      BY <1>1, <1>3
<1>9. ASSUME NEW n \in 4 .. Len(s) + 2
      PROVE  n - 2 \in DOMAIN s /\ n - 2 # 1 /\ t[n] = s[n - 2]
      BY <1>1, <1>2
<1>10. ASSUME NEW n \in DOMAIN t PROVE t[n].ref \in C \cup {NoRef}
  <2>1. CASE n \in {1, 2, 3}
        BY <2>1, <1>1, <1>4
  <2>2. CASE n \in 4 .. Len(s) + 2
        BY <2>2, <1>9 DEF GraphOK, StackOK
  <2> QED
      BY <2>1, <2>2, <1>3
<1>11. ASSUME NEW n \in DOMAIN t, t[n].op = "keep", NEW p \in Parents(t[n].ref) \cap T
       PROVE  \E m \in 1 .. n - 1 : t[m].ref = p
  <2>1. CASE n = 3
    <3>1. p = BaseOf(r) \/ p = MergeOf(r)
          BY <2>1, <1>1, <1>11, NoParents
    <3>2. 1 \in 1 .. n - 1 /\ 2 \in 1 .. n - 1
          BY <2>1
    <3> QED
        BY <3>1, <3>2, <1>1
  <2>2. CASE n \in 4 .. Len(s) + 2
    <3>1. PICK m \in 1 .. (n - 2) - 1 : s[m].ref = p
          BY <2>2, <1>9, <1>11 DEF GraphOK, StackOK
    <3>2. CASE m = 1
      <4>1. 3 \in 1 .. n - 1 /\ p = r
            BY <2>2, <3>1, <3>2, <1>2
      <4> QED
          BY <4>1, <1>1
    <3>3. CASE m # 1
      <4>1. m \in 2 .. Len(s) /\ m + 2 \in 1 .. n - 1
            BY <2>2, <3>1, <3>3, <1>2
      <4> QED
          BY <4>1, <3>1, <1>1
    <3> QED
        BY <3>2, <3>3
  <2> QED
      BY <2>1, <2>2, <1>8, <1>11
<1>12. ASSUME NEW n \in DOMAIN t, t[n].op = "keep"
       PROVE  t[n].ref \in C /\ (t[n].ref \in T \/ Follow(C, t[n].ref) = {})
  <2>1. CASE n = 3
        BY <2>1, <1>1, <1>4
  <2>2. CASE n \in 4 .. Len(s) + 2
        BY <2>2, <1>9, <1>12 DEF GraphOK, StackOK
  <2> QED
      BY <2>1, <2>2, <1>8, <1>12
<1>13. StackOK(C, T, t)
       BY <1>10, <1>11, <1>12 DEF StackOK
<1>14. ASSUME NEW n \in DOMAIN t, t[n].op = "keep", NEW m \in 1 .. n - 1, t[m].ref # NoRef
       PROVE  f[t[m].ref] < f[t[n].ref]
  <2>1. ASSUME m \in {1, 2} PROVE t[m].ref \in Parents(r)
    <3>1. m = 1 \/ m = 2
          BY <2>1
    <3>2. t[m].ref = BaseOf(r) \/ t[m].ref = MergeOf(r)
          BY <3>1, <1>1
    <3> QED
        BY <3>2, <1>4, <1>14
  <2>2. CASE n = 3
    <3>1. m \in {1, 2} /\ t[n].ref = r
          BY <2>2, <1>1
    <3> QED
        BY <3>1, <2>1, <1>6
  <2>3. CASE n \in 4 .. Len(s) + 2
    <3>1. /\ n - 2 \in DOMAIN s /\ s[n - 2].op = "keep" /\ t[n] = s[n - 2] /\ n - 2 # 1
          BY <2>3, <1>9, <1>14
    <3>2. \A k \in 1 .. (n - 2) - 1 : s[k].ref # NoRef => f[s[k].ref] < f[s[n - 2].ref]
          BY <3>1, <1>5 DEF IsRank
    <3>3. r # NoRef
          BY NoRefAssumption DEF CommitRefs
    <3>4. f[r] < f[t[n].ref]
      <4>1. 1 \in 1 .. (n - 2) - 1
            BY <2>3
      <4> QED
          BY <4>1, <3>1, <3>2, <3>3, <1>2
    <3>5. t[n].ref \in C
          BY <1>12, <1>14
    <3>6. CASE m \in {1, 2}
      <4>1. t[m].ref \in C /\ f[t[m].ref] < f[r]
            BY <3>6, <2>1, <1>4, <1>6
      <4>2. f[t[m].ref] \in Nat /\ f[r] \in Nat /\ f[t[n].ref] \in Nat
            BY <4>1, <3>5, <1>4, <1>6
      <4> QED
          BY <4>1, <4>2, <3>4
    <3>7. CASE m = 3
          BY <3>7, <3>4, <1>1
    <3>8. CASE m \in 4 .. n - 1
      <4>1. m - 2 \in 1 .. (n - 2) - 1 /\ m \in 4 .. Len(s) + 2
            BY <3>8, <2>3, <1>2
      <4>2. t[m] = s[m - 2]
            BY <4>1, <1>9
      <4> QED
          BY <4>1, <4>2, <3>1, <3>2, <1>14
    <3> QED
        BY <3>6, <3>7, <3>8
  <2> QED
      BY <2>2, <2>3, <1>8, <1>14
<1>15. IsRank(f, C, t)
       BY <1>5, <1>14 DEF IsRank
<1>16. CommitsOK(C, T, t)
       BY <1>7, <1>15 DEF GraphOK, CommitsOK
<1>17. HeadsOK(C, T, A, N, t)
       BY <1>7 DEF GraphOK, HeadsOK
<1> QED
    BY <1>13, <1>16, <1>17 DEF GraphOK, t

(* A commit that becomes permanent: its parents are, and have been sent.   *)
KeptOK(C, T, A, N, s, r) ==
    /\ r \in C /\ Parents(r) \subseteq C \ T
    /\ \A p \in Parents(r) : ~Pending(s, p)
    /\ GraphOK(C, T \ {r}, A, AddHead(N, r), Tail(s))

LEMMA KeepGraph ==
    ASSUME NEW C, NEW T, NEW A, NEW N, NEW s \in Seq(Promotion), GraphOK(C, T, A, N, s),
           NEW r \in CommitRefs, s # <<>>, Head(s).op = "keep", Head(s).ref = r, r # NoRef
    PROVE  KeptOK(C, T, A, N, s, r)
<1> DEFINE t == Tail(s)
           left == T \ {r}
<1>1. /\ s[1].op = "keep" /\ s[1].ref = r /\ DOMAIN s = 1 .. Len(s) /\ Len(s) \in Nat \ {0}
      /\ 1 \in DOMAIN s
      BY TailIndex
<1>2. /\ r \in C /\ T \subseteq C /\ \A x \in C : Parents(x) \subseteq C
      /\ \A p \in Parents(r) : p \notin T
      BY <1>1 DEF GraphOK, StackOK, CommitsOK
<1>3. PICK f : IsRank(f, C, s)
      BY DEF GraphOK, CommitsOK
<1>4. ASSUME NEW p \in Parents(r), Pending(s, p) PROVE FALSE
  <2>1. PICK n \in DOMAIN s : s[n].op = "keep" /\ s[n].ref = p
        BY <1>4 DEF Pending
  <2>2. p \in T \/ Follow(C, p) = {}
        BY <2>1 DEF GraphOK, StackOK
  <2>3. r \in Follow(C, p)
        BY <1>2, <1>4 DEF Follow
  <2> QED
      BY <2>2, <2>3, <1>2, <1>4
<1>5. ASSUME NEW n \in DOMAIN s, n # 1, s[n].op = "keep" PROVE s[n].ref # r
  <2>1. 1 \in 1 .. n - 1
        BY <1>1, <1>5
  <2>2. f[r] < f[s[n].ref]
        BY <2>1, <1>1, <1>3, <1>5 DEF IsRank
  <2>3. f[r] \in Nat
        BY <1>2, <1>3 DEF IsRank
  <2> QED
      BY <2>2, <2>3
<1>6. StackOK(C, left, t) /\ IsRank(f, C, t)
  <2>1. left \subseteq T /\ Head(s).ref \notin left
        OBVIOUS
  <2>2. \A n \in DOMAIN s : n # 1 /\ s[n].op = "keep" /\ s[n].ref \in T => s[n].ref \in left
        BY <1>5
  <2>3. StackOK(C, T, s)
        BY DEF GraphOK
  <2> HIDE DEF left
  <2> QED
      BY <2>1, <2>2, <2>3, <1>3, TailGraph
<1>7. \A x : Pending(s, x) => Pending(t, x) \/ x = r
      BY PendingTail
<1> HIDE DEF t
<1>8. ASSUME NEW x \in C \ left, Parents(x) \cap left # {} PROVE Pending(t, x)
  <2>1. x # r
        BY <1>2, <1>8
  <2>2. x \in C \ T /\ Parents(x) \cap T # {}
        BY <2>1, <1>8
  <2> QED
      BY <2>1, <2>2, <1>7 DEF GraphOK, CommitsOK
<1>9. CommitsOK(C, left, t)
      BY <1>2, <1>6, <1>8 DEF CommitsOK
<1>10. r \notin Parents(r)
  <2>1. \A p \in Parents(r) : f[p] < f[r]
        BY <1>2, <1>3 DEF IsRank
  <2>2. f[r] \in Nat
        BY <1>2, <1>3 DEF IsRank
  <2> QED
      BY <2>1, <2>2
<1>11. ASSUME NEW h \in AddHead(N, r), NEW y \in C \ left, h \in Parents(y)
       PROVE  Pending(t, y)
  <2>1. CASE y = r
        BY <2>1, <1>10, <1>11 DEF AddHead
  <2>2. CASE y # r /\ h # r
    <3>1. h \in N /\ y \in Follow(C \ T, h)
          BY <2>2, <1>11 DEF AddHead, Follow
    <3> QED
        BY <3>1, <2>2, <1>7 DEF GraphOK, HeadsOK
  <2>3. CASE y # r /\ h = r
    <3>1. y \in C \ T /\ r \in Parents(y)
          BY <2>3, <1>11
    <3>2. r \in T
      <4>1. r \in T \/ Follow(C, r) = {}
            BY <1>1 DEF GraphOK, StackOK
      <4> QED
          BY <4>1, <3>1 DEF Follow
    <3>3. Pending(s, y)
          BY <3>1, <3>2 DEF GraphOK, CommitsOK
    <3> QED
        BY <3>3, <2>3, <1>7
  <2> QED
      BY <2>1, <2>2, <2>3
<1>12. HeadsOK(C, left, A, AddHead(N, r), t)
       BY <1>11 DEF GraphOK, HeadsOK, Follow
<1> QED
    BY <1>2, <1>4, <1>6, <1>9, <1>12 DEF KeptOK, GraphOK, t

-----------------------------------------------------------------------------
(* The lists of commits on their way, each of which has the parents of a   *)
(* commit before it.                                                       *)

InBatches(q) == UNION {Elements(q[n]) : n \in DOMAIN q}

Earlier(q, n) == {q[m] : m \in {k \in DOMAIN q : k < n}}

InEarlier(q, n) == UNION {Elements(q[m]) : m \in {k \in DOMAIN q : k < n}}

(* To the repository: the updates q, then the commits u of the next one.   *)
OutOK(refs, q, u) ==
    /\ \A i \in DOMAIN q : \A n \in DOMAIN q[i] :
          Parents(q[i][n]) \subseteq refs \cup InEarlier(q, i) \cup Earlier(q[i], n)
    /\ \A n \in DOMAIN u : Parents(u[n]) \subseteq refs \cup InBatches(q) \cup Earlier(u, n)

Externals(a) == {a[n].ref : n \in {m \in DOMAIN a : a[m].op = "external"}}

ExternalsBefore(a, n) == {a[m].ref : m \in {k \in DOMAIN a : k < n /\ a[k].op = "external"}}

(* From the repository, which has refs, to a client which has some: the    *)
(* calls of the handler, then the events q.                                *)
InOK(has, refs, a, q) ==
    /\ refs \subseteq has \cup Externals(a) \cup InBatches(q)
    /\ \A n \in DOMAIN a : a[n].op = "sync" => n = Len(a)
    /\ \A n \in DOMAIN a : a[n].op = "external" =>
          Parents(a[n].ref) \subseteq has \cup ExternalsBefore(a, n)
    /\ \A i \in DOMAIN q : \A n \in DOMAIN q[i] :
          Parents(q[i][n]) \subseteq
              has \cup Externals(a) \cup InEarlier(q, i) \cup Earlier(q[i], n)

LEMMA EarlierAppend ==
    ASSUME NEW q, IsQueue(q), NEW x
    PROVE  /\ DOMAIN Append(q, x) = 1 .. Len(q) + 1 /\ DOMAIN q = 1 .. Len(q) /\ Len(q) \in Nat
           /\ \A n \in DOMAIN q : /\ Append(q, x)[n] = q[n]
                                  /\ Earlier(q, n) = Earlier(Append(q, x), n)
                                  /\ InEarlier(q, n) = InEarlier(Append(q, x), n)
           /\ Append(q, x)[Len(q) + 1] = x
           /\ Earlier(Append(q, x), Len(q) + 1) = Elements(q)
           /\ InEarlier(Append(q, x), Len(q) + 1) = InBatches(q)
           /\ InBatches(Append(q, x)) = InBatches(q) \cup Elements(x)
<1> DEFINE t == Append(q, x)
<1>1. /\ DOMAIN t = 1 .. Len(q) + 1 /\ DOMAIN q = 1 .. Len(q) /\ Len(q) \in Nat
      /\ \A n \in 1 .. Len(q) : t[n] = q[n]
      /\ t[Len(q) + 1] = x
      BY QueueAppend, QueueDomain
<1> HIDE DEF t
<1>2. ASSUME NEW n \in 1 .. Len(q) + 1
      PROVE  {k \in DOMAIN t : k < n} = {k \in DOMAIN q : k < n}
      BY <1>1
<1>3. {k \in DOMAIN q : k < Len(q) + 1} = DOMAIN q
      BY <1>1
<1>4. ASSUME NEW n \in 1 .. Len(q) + 1
      PROVE  /\ Earlier(t, n) = {q[m] : m \in {k \in DOMAIN q : k < n}}
             /\ InEarlier(t, n) = UNION {Elements(q[m]) : m \in {k \in DOMAIN q : k < n}}
  <2> DEFINE D == {k \in DOMAIN q : k < n}
  <2>1. D = {k \in DOMAIN t : k < n} /\ \A m \in D : t[m] = q[m]
        BY <1>1, <1>2
  <2> HIDE DEF D
  <2>2. {t[m] : m \in D} = {q[m] : m \in D}
        BY <2>1
  <2>3. {Elements(t[m]) : m \in D} = {Elements(q[m]) : m \in D}
        BY <2>1
  <2> QED
      BY <2>1, <2>2, <2>3 DEF Earlier, InEarlier, D
<1>5. /\ \A n \in DOMAIN q : Earlier(q, n) = Earlier(t, n) /\ InEarlier(q, n) = InEarlier(t, n)
      /\ Earlier(t, Len(q) + 1) = Elements(q) /\ InEarlier(t, Len(q) + 1) = InBatches(q)
      BY <1>1, <1>3, <1>4 DEF Earlier, InEarlier, Elements, InBatches
<1>6. InBatches(t) = InBatches(q) \cup Elements(x)
  <2>1. DOMAIN t = DOMAIN q \cup {Len(q) + 1}
        BY <1>1
  <2>2. {Elements(t[n]) : n \in DOMAIN t} = {Elements(q[n]) : n \in DOMAIN q} \cup {Elements(x)}
        BY <1>1, <2>1
  <2> QED
      BY <2>2 DEF InBatches
<1> QED
    BY <1>1, <1>5, <1>6 DEF t

LEMMA EarlierTail ==
    ASSUME NEW q, IsQueue(q), q # <<>>
    PROVE  /\ \A n \in DOMAIN Tail(q) :
                 /\ n + 1 \in DOMAIN q /\ Tail(q)[n] = q[n + 1]
                 /\ InEarlier(q, n + 1) = Elements(Head(q)) \cup InEarlier(Tail(q), n)
           /\ InBatches(q) = Elements(Head(q)) \cup InBatches(Tail(q))
           /\ 1 \in DOMAIN q /\ Head(q) = q[1] /\ InEarlier(q, 1) = {}
<1> DEFINE t == Tail(q)
<1>1. /\ DOMAIN t = 1 .. Len(q) - 1 /\ DOMAIN q = 1 .. Len(q) /\ Len(q) \in Nat /\ Len(q) # 0
      /\ \A n \in 1 .. Len(q) - 1 : t[n] = q[n + 1]
      /\ Head(q) = q[1]
  <2>1. IsQueue(t) /\ Len(t) = Len(q) - 1
        BY QueueTail
  <2>2. DOMAIN t = 1 .. Len(t)
        BY <2>1, QueueDomain
  <2> QED
      BY <2>1, <2>2, QueueTail, QueueDomain
<1> HIDE DEF t
<1>2. ASSUME NEW n \in DOMAIN t
      PROVE  InEarlier(q, n + 1) = Elements(Head(q)) \cup InEarlier(t, n)
  <2>1. ASSUME NEW x \in InEarlier(q, n + 1)
        PROVE  x \in Elements(Head(q)) \cup InEarlier(t, n)
    <3>1. PICK m \in DOMAIN q : m < n + 1 /\ x \in Elements(q[m])
          BY <2>1 DEF InEarlier
    <3>2. CASE m = 1
          BY <3>1, <3>2, <1>1
    <3>3. CASE m # 1
      <4>1. m - 1 \in DOMAIN t /\ m - 1 < n /\ (m - 1) + 1 = m
            BY <3>1, <3>3, <1>1, <1>2
      <4>2. t[m - 1] = q[m]
            BY <4>1, <1>1
      <4> QED
          BY <3>1, <4>1, <4>2 DEF InEarlier
    <3> QED
        BY <3>2, <3>3
  <2>2. ASSUME NEW x \in Elements(Head(q)) PROVE x \in InEarlier(q, n + 1)
    <3>1. 1 \in DOMAIN q /\ 1 < n + 1 /\ x \in Elements(q[1])
          BY <2>2, <1>1, <1>2
    <3> QED
        BY <3>1 DEF InEarlier
  <2>3. ASSUME NEW x \in InEarlier(t, n) PROVE x \in InEarlier(q, n + 1)
    <3>1. PICK m \in DOMAIN t : m < n /\ x \in Elements(t[m])
          BY <2>3 DEF InEarlier
    <3>2. m + 1 \in DOMAIN q /\ m + 1 < n + 1 /\ t[m] = q[m + 1]
          BY <3>1, <1>1, <1>2
    <3> QED
        BY <3>1, <3>2 DEF InEarlier
  <2> QED
      BY <2>1, <2>2, <2>3
<1>3. InBatches(q) = Elements(Head(q)) \cup InBatches(t)
  <2>1. ASSUME NEW x \in InBatches(q) PROVE x \in Elements(Head(q)) \cup InBatches(t)
    <3>1. PICK m \in DOMAIN q : x \in Elements(q[m])
          BY <2>1 DEF InBatches
    <3>2. CASE m = 1
          BY <3>1, <3>2, <1>1
    <3>3. CASE m # 1
      <4>1. m - 1 \in DOMAIN t /\ (m - 1) + 1 = m
            BY <3>1, <3>3, <1>1
      <4>2. t[m - 1] = q[m]
            BY <4>1, <1>1
      <4> QED
          BY <3>1, <4>1, <4>2 DEF InBatches
    <3> QED
        BY <3>2, <3>3
  <2>2. ASSUME NEW x \in Elements(Head(q)) PROVE x \in InBatches(q)
    <3>1. 1 \in DOMAIN q /\ x \in Elements(q[1])
          BY <2>2, <1>1
    <3> QED
        BY <3>1 DEF InBatches
  <2>3. ASSUME NEW x \in InBatches(t) PROVE x \in InBatches(q)
    <3>1. PICK m \in DOMAIN t : x \in Elements(t[m])
          BY <2>3 DEF InBatches
    <3>2. m + 1 \in DOMAIN q /\ t[m] = q[m + 1]
          BY <3>1, <1>1
    <3> QED
        BY <3>1, <3>2 DEF InBatches
  <2> QED
      BY <2>1, <2>2, <2>3
<1>4. \A n \in DOMAIN t : n + 1 \in DOMAIN q /\ t[n] = q[n + 1]
      BY <1>1
<1>5. 1 \in DOMAIN q /\ InEarlier(q, 1) = {}
  <2>1. {k \in DOMAIN q : k < 1} = {}
        BY <1>1
  <2> QED
      BY <2>1, <1>1 DEF InEarlier
<1> QED
    BY <1>1, <1>2, <1>3, <1>4, <1>5 DEF t

-----------------------------------------------------------------------------
(* To the repository.                                                      *)

LEMMA OutKeep ==
    ASSUME NEW refs, NEW q, NEW u, IsQueue(u), OutOK(refs, q, u),
           NEW r, Parents(r) \subseteq refs \cup InBatches(q) \cup Elements(u)
    PROVE  OutOK(refs, q, Append(u, r)) /\ Elements(Append(u, r)) = Elements(u) \cup {r}
<1>1. \A n \in DOMAIN Append(u, r) : n \in DOMAIN u \/ n = Len(u) + 1
      BY EarlierAppend
<1>2. ASSUME NEW n \in DOMAIN Append(u, r)
      PROVE  Parents(Append(u, r)[n]) \subseteq refs \cup InBatches(q) \cup Earlier(Append(u, r), n)
  <2>1. CASE n \in DOMAIN u
        BY <2>1, EarlierAppend DEF OutOK
  <2>2. CASE n = Len(u) + 1
        BY <2>2, EarlierAppend
  <2> QED
      BY <1>1, <2>1, <2>2
<1> QED
    BY <1>2, QueueAppend DEF OutOK

LEMMA OutSync ==
    ASSUME NEW refs, NEW q, IsQueue(q), NEW u, OutOK(refs, q, u)
    PROVE  /\ OutOK(refs, Append(q, u), <<>>)
           /\ InBatches(Append(q, u)) = InBatches(q) \cup Elements(u)
<1>1. \A i \in DOMAIN Append(q, u) : i \in DOMAIN q \/ i = Len(q) + 1
      BY EarlierAppend
<1>2. ASSUME NEW i \in DOMAIN Append(q, u), NEW n \in DOMAIN Append(q, u)[i]
      PROVE  Parents(Append(q, u)[i][n])
                 \subseteq refs \cup InEarlier(Append(q, u), i) \cup Earlier(Append(q, u)[i], n)
  <2>1. CASE i \in DOMAIN q
    <3>1. Append(q, u)[i] = q[i] /\ InEarlier(q, i) = InEarlier(Append(q, u), i)
          BY <2>1, EarlierAppend
    <3> QED
        BY <2>1, <3>1, <1>2 DEF OutOK
  <2>2. CASE i = Len(q) + 1
    <3>1. Append(q, u)[i] = u /\ InEarlier(Append(q, u), i) = InBatches(q)
          BY <2>2, EarlierAppend
    <3> QED
        BY <2>2, <3>1, <1>2 DEF OutOK
  <2> QED
      BY <1>1, <2>1, <2>2
<1> QED
    BY <1>2, EarlierAppend DEF OutOK

LEMMA OutMore ==
    ASSUME NEW refs, NEW q, NEW u, OutOK(refs, q, u), NEW new, refs \subseteq new
    PROVE  OutOK(new, q, u)
BY DEF OutOK

LEMMA OutSave ==
    ASSUME NEW refs, NEW q, IsQueue(q), q # <<>>, NEW u, OutOK(refs, q, u),
           NEW new, refs \subseteq new, Elements(Head(q)) \subseteq new
    PROVE  /\ OutOK(new, Tail(q), u)
           /\ \A n \in DOMAIN Head(q) : Parents(Head(q)[n]) \subseteq refs \cup Earlier(Head(q), n)
<1>1. \A n \in DOMAIN Head(q) : Parents(Head(q)[n]) \subseteq refs \cup Earlier(Head(q), n)
      BY EarlierTail DEF OutOK
<1>2. ASSUME NEW i \in DOMAIN Tail(q), NEW n \in DOMAIN Tail(q)[i]
      PROVE  Parents(Tail(q)[i][n]) \subseteq new \cup InEarlier(Tail(q), i) \cup Earlier(Tail(q)[i], n)
  <2>1. /\ i + 1 \in DOMAIN q /\ Tail(q)[i] = q[i + 1]
        /\ InEarlier(q, i + 1) = Elements(Head(q)) \cup InEarlier(Tail(q), i)
        BY EarlierTail
  <2>2. Parents(q[i + 1][n]) \subseteq refs \cup InEarlier(q, i + 1) \cup Earlier(q[i + 1], n)
        BY <2>1, <1>2 DEF OutOK
  <2> QED
      BY <2>1, <2>2
<1>3. \A n \in DOMAIN u : Parents(u[n]) \subseteq new \cup InBatches(Tail(q)) \cup Earlier(u, n)
      BY EarlierTail DEF OutOK
<1> QED
    BY <1>1, <1>2, <1>3 DEF OutOK

-----------------------------------------------------------------------------
(* The calls of a handler.                                                 *)

LEMMA TailCalls ==
    ASSUME NEW a, IsQueue(a), a # <<>>
    PROVE  /\ \A n \in DOMAIN Tail(a) :
                 /\ n + 1 \in DOMAIN a /\ Tail(a)[n] = a[n + 1]
                 /\ \A x \in ExternalsBefore(a, n + 1) :
                        \/ x \in ExternalsBefore(Tail(a), n)
                        \/ Head(a).op = "external" /\ x = Head(a).ref
           /\ \A x \in Externals(a) :
                  \/ x \in Externals(Tail(a))
                  \/ Head(a).op = "external" /\ x = Head(a).ref
           /\ Externals(Tail(a)) \subseteq Externals(a)
           /\ 1 \in DOMAIN a /\ a[1] = Head(a) /\ ExternalsBefore(a, 1) = {}
           /\ Head(a).op = "external" => Head(a).ref \in Externals(a)
           /\ IsQueue(Tail(a)) /\ Len(Tail(a)) = Len(a) - 1 /\ Len(a) \in Nat
<1> DEFINE t == Tail(a)
<1>1. /\ DOMAIN t = 1 .. Len(a) - 1 /\ DOMAIN a = 1 .. Len(a) /\ Len(a) \in Nat /\ Len(a) # 0
      /\ \A n \in 1 .. Len(a) - 1 : t[n] = a[n + 1]
      /\ Head(a) = a[1] /\ IsQueue(t) /\ Len(t) = Len(a) - 1
  <2>1. IsQueue(t) /\ Len(t) = Len(a) - 1
        BY QueueTail
  <2>2. DOMAIN t = 1 .. Len(t)
        BY <2>1, QueueDomain
  <2> QED
      BY <2>1, <2>2, QueueTail, QueueDomain
<1> HIDE DEF t
<1>2. \A m \in DOMAIN a : m # 1 => m - 1 \in DOMAIN t /\ t[m - 1] = a[m]
  <2> TAKE m \in DOMAIN a
  <2>1. m # 1 => m - 1 \in DOMAIN t /\ (m - 1) + 1 = m
        BY <1>1
  <2>2. m # 1 => t[m - 1] = a[(m - 1) + 1]
        BY <1>1, <2>1
  <2> QED
      BY <2>1, <2>2
<1>3. \A n \in DOMAIN t : n + 1 \in DOMAIN a /\ t[n] = a[n + 1]
      BY <1>1
<1>4. ASSUME NEW n \in DOMAIN t, NEW x \in ExternalsBefore(a, n + 1)
      PROVE  x \in ExternalsBefore(t, n) \/ (Head(a).op = "external" /\ x = Head(a).ref)
  <2>1. PICK m \in DOMAIN a : m < n + 1 /\ a[m].op = "external" /\ x = a[m].ref
        BY <1>4 DEF ExternalsBefore
  <2>2. CASE m = 1
        BY <2>1, <2>2, <1>1
  <2>3. CASE m # 1
    <3>1. m - 1 \in DOMAIN t /\ m - 1 < n /\ t[m - 1] = a[m]
          BY <2>1, <2>3, <1>1, <1>2
    <3> QED
        BY <2>1, <3>1 DEF ExternalsBefore
  <2> QED
      BY <2>2, <2>3
<1>5. ASSUME NEW x \in Externals(a)
      PROVE  x \in Externals(t) \/ (Head(a).op = "external" /\ x = Head(a).ref)
  <2>1. PICK m \in DOMAIN a : a[m].op = "external" /\ x = a[m].ref
        BY <1>5 DEF Externals
  <2>2. CASE m = 1
        BY <2>1, <2>2, <1>1
  <2>3. CASE m # 1
        BY <2>1, <2>3, <1>2 DEF Externals
  <2> QED
      BY <2>2, <2>3
<1>6. Externals(t) \subseteq Externals(a)
      BY <1>3 DEF Externals
<1>7. 1 \in DOMAIN a /\ ExternalsBefore(a, 1) = {}
  <2>1. {k \in DOMAIN a : k < 1 /\ a[k].op = "external"} = {}
        BY <1>1
  <2> QED
      BY <2>1, <1>1 DEF ExternalsBefore
<1>8. Head(a).op = "external" => Head(a).ref \in Externals(a)
      BY <1>1, <1>7 DEF Externals
<1> QED
    BY <1>1, <1>3, <1>4, <1>5, <1>6, <1>7, <1>8 DEF t

(* The calls t: those of p, then those of a.                               *)
Joins(p, a, t) ==
    /\ Externals(t) = Externals(p) \cup Externals(a)
    /\ \A n \in DOMAIN p : /\ t[n] = p[n] /\ n \in DOMAIN t
                           /\ ExternalsBefore(p, n) \subseteq ExternalsBefore(t, n)
    /\ \A n \in DOMAIN a :
          /\ t[Len(p) + n] = a[n] /\ Len(p) + n \in DOMAIN t
          /\ ExternalsBefore(a, n) \subseteq ExternalsBefore(t, Len(p) + n)
    /\ \A n \in DOMAIN t :
          n \in DOMAIN p \/ (\E m \in DOMAIN a : n = Len(p) + m)
    /\ Len(t) = Len(p) + Len(a) /\ Len(p) \in Nat /\ Len(a) \in Nat
    /\ DOMAIN p = 1 .. Len(p) /\ DOMAIN a = 1 .. Len(a) /\ IsQueue(t)

LEMMA MoreCalls ==
    ASSUME NEW p, IsQueue(p), NEW a, IsQueue(a)
    PROVE  Joins(p, a, p \o a)
<1> DEFINE t == p \o a
<1>1. /\ DOMAIN p = 1 .. Len(p) /\ Len(p) \in Nat /\ DOMAIN a = 1 .. Len(a) /\ Len(a) \in Nat
      /\ DOMAIN t = 1 .. Len(p) + Len(a) /\ IsQueue(t) /\ Len(t) = Len(p) + Len(a)
      /\ \A n \in 1 .. Len(p) : t[n] = p[n]
      /\ \A n \in 1 .. Len(a) : t[Len(p) + n] = a[n]
  <2>1. IsQueue(t) /\ Len(t) = Len(p) + Len(a)
        BY QueueConcat
  <2> QED
      BY <2>1, QueueConcat, QueueDomain
<1> HIDE DEF t
<1>2. \A n \in DOMAIN t : n \in DOMAIN p \/ (\E m \in DOMAIN a : n = Len(p) + m)
  <2> SUFFICES ASSUME NEW n \in DOMAIN t, n \notin DOMAIN p
               PROVE  \E m \in DOMAIN a : n = Len(p) + m
      OBVIOUS
  <2>1. n - Len(p) \in DOMAIN a /\ n = Len(p) + (n - Len(p))
        BY <1>1
  <2> QED
      BY <2>1
<1>3. \A n \in DOMAIN p : n \in DOMAIN t /\ t[n] = p[n]
      BY <1>1
<1>4. \A n \in DOMAIN a : Len(p) + n \in DOMAIN t /\ t[Len(p) + n] = a[n]
      BY <1>1
<1>5. Externals(t) = Externals(p) \cup Externals(a)
  <2>1. ASSUME NEW x \in Externals(t) PROVE x \in Externals(p) \cup Externals(a)
    <3>1. PICK n \in DOMAIN t : t[n].op = "external" /\ x = t[n].ref
          BY <2>1 DEF Externals
    <3>2. CASE n \in DOMAIN p
          BY <3>1, <3>2, <1>3 DEF Externals
    <3>3. ASSUME NEW m \in DOMAIN a, n = Len(p) + m PROVE x \in Externals(a)
          BY <3>1, <3>3, <1>4 DEF Externals
    <3> QED
        BY <3>2, <3>3, <1>2
  <2>2. ASSUME NEW x \in Externals(p) PROVE x \in Externals(t)
        BY <2>2, <1>3 DEF Externals
  <2>3. ASSUME NEW x \in Externals(a) PROVE x \in Externals(t)
        BY <2>3, <1>4 DEF Externals
  <2> QED
      BY <2>1, <2>2, <2>3
<1>6. \A n \in DOMAIN p : ExternalsBefore(p, n) \subseteq ExternalsBefore(t, n)
      BY <1>3 DEF ExternalsBefore
<1>7. ASSUME NEW n \in DOMAIN a, NEW x \in ExternalsBefore(a, n)
      PROVE  x \in ExternalsBefore(t, Len(p) + n)
  <2>1. PICK m \in DOMAIN a : m < n /\ a[m].op = "external" /\ x = a[m].ref
        BY <1>7 DEF ExternalsBefore
  <2>2. Len(p) + m \in DOMAIN t /\ t[Len(p) + m] = a[m] /\ Len(p) + m < Len(p) + n
        BY <2>1, <1>1, <1>4
  <2> QED
      BY <2>1, <2>2 DEF ExternalsBefore
<1> QED
  <2>1. Joins(p, a, t)
        BY <1>1, <1>2, <1>3, <1>4, <1>5, <1>6, <1>7 DEF Joins
  <2> QED
      BY <2>1 DEF t

LEMMA BatchCalls ==
    ASSUME NEW b, IsQueue(b)
    PROVE  LET a == [n \in DOMAIN b |-> External(b[n])]
           IN  /\ IsQueue(a) /\ Len(a) = Len(b) /\ DOMAIN a = DOMAIN b
               /\ Externals(a) = Elements(b)
               /\ \A n \in DOMAIN b : /\ a[n].op = "external" /\ a[n].ref = b[n]
                                      /\ ExternalsBefore(a, n) = Earlier(b, n)
<1> DEFINE a == [n \in DOMAIN b |-> External(b[n])]
<1>1. DOMAIN b = 1 .. Len(b) /\ Len(b) \in Nat
      BY QueueDomain
<1>2. a = [n \in 1 .. Len(b) |-> a[n]]
      BY <1>1
<1>3. DOMAIN a = DOMAIN b /\ \A n \in DOMAIN b : a[n].op = "external" /\ a[n].ref = b[n]
      BY DEF External
<1> HIDE DEF a
<1>4. IsQueue(a) /\ Len(a) = Len(b)
      BY <1>1, <1>2, ListedQueue
<1>5. {m \in DOMAIN a : a[m].op = "external"} = DOMAIN b
      BY <1>3
<1>6. Externals(a) = Elements(b)
      BY <1>3, <1>5 DEF Externals, Elements
<1>7. ASSUME NEW n \in DOMAIN b PROVE ExternalsBefore(a, n) = Earlier(b, n)
  <2>1. {k \in DOMAIN a : k < n /\ a[k].op = "external"} = {k \in DOMAIN b : k < n}
        BY <1>3
  <2> QED
      BY <2>1, <1>3 DEF ExternalsBefore, Earlier
<1> QED
    BY <1>3, <1>4, <1>6, <1>7 DEF a

(* Calls that add nothing from the repository and do not end the handler.  *)
Quiet(p) == \A n \in DOMAIN p : p[n].op # "external" /\ p[n].op # "sync"

LEMMA QuietCalls ==
    /\ \A p : Quiet(p) => Externals(p) = {}
    /\ \A r, temp : IsQueue(<<NewCommit(r, temp)>>) /\ Quiet(<<NewCommit(r, temp)>>)
    /\ \A p \in Seq(NewCommits) : IsQueue(p) /\ Quiet(p)
<1>1. ASSUME NEW p, Quiet(p) PROVE Externals(p) = {}
      BY <1>1 DEF Quiet, Externals
<1>2. ASSUME NEW r, NEW temp
      PROVE  IsQueue(<<NewCommit(r, temp)>>) /\ Quiet(<<NewCommit(r, temp)>>)
  <2> DEFINE x == NewCommit(r, temp)
  <2>1. x.op # "external" /\ x.op # "sync"
        BY DEF NewCommit
  <2> HIDE DEF x
  <2>2. <<x>> \in Seq({x}) /\ DOMAIN <<x>> = {1} /\ <<x>>[1] = x
        OBVIOUS
  <2>3. IsQueue(<<x>>) /\ Quiet(<<x>>)
        BY <2>1, <2>2 DEF IsQueue, Quiet
  <2> QED
      BY <2>3 DEF x
<1>3. ASSUME NEW p \in Seq(NewCommits) PROVE IsQueue(p) /\ Quiet(p)
  <2>1. \A n \in DOMAIN p : p[n] \in NewCommits
        OBVIOUS
  <2>2. \A x \in NewCommits : x.op # "external" /\ x.op # "sync"
        BY DEF NewCommits
  <2> QED
      BY <2>1, <2>2 DEF IsQueue, Quiet
<1> QED
    BY <1>1, <1>2, <1>3

LEMMA FinishCalls ==
    /\ IsQueue(Finish) /\ Len(Finish) = 3 /\ Externals(Finish) = {}
    /\ \A n \in DOMAIN Finish : Finish[n].op # "external" /\ (Finish[n].op = "sync" => n = 3)
<1>1. /\ DOMAIN Finish = 1 .. 3 /\ Len(Finish) = 3
      /\ Finish[1].op = "mergeHeads" /\ Finish[2].op = "readDoc" /\ Finish[3].op = "sync"
      BY DEF Finish, Call
<1>2. IsQueue(Finish)
      BY FinishType DEF IsQueue
<1>3. \A n \in DOMAIN Finish : Finish[n].op # "external" /\ (Finish[n].op = "sync" => n = 3)
      BY <1>1
<1> QED
    BY <1>1, <1>2, <1>3 DEF Externals

-----------------------------------------------------------------------------
(* From the repository.                                                    *)

LEMMA InMore ==
    ASSUME NEW has, NEW refs, NEW a, NEW q, InOK(has, refs, a, q),
           NEW more, has \subseteq more, NEW new, new \subseteq refs \cup more
    PROVE  InOK(more, new, a, q)
BY DEF InOK

(* The handler has made its next call.                                     *)
LEMMA InTask ==
    ASSUME NEW has, NEW refs, NEW a, IsQueue(a), a # <<>>, NEW q, InOK(has, refs, a, q),
           NEW more, has \subseteq more,
           Head(a).op = "external" => Head(a).ref \in more
    PROVE  /\ InOK(more, refs, Tail(a), q)
           /\ Head(a).op = "external" => Parents(Head(a).ref) \subseteq has
           /\ Head(a).op = "sync" => Tail(a) = <<>>
<1>1. /\ \A n \in DOMAIN Tail(a) : n + 1 \in DOMAIN a /\ Tail(a)[n] = a[n + 1]
      /\ \A n \in DOMAIN Tail(a) :
             ExternalsBefore(a, n + 1) \subseteq more \cup ExternalsBefore(Tail(a), n)
      /\ Externals(a) \subseteq more \cup Externals(Tail(a))
      /\ 1 \in DOMAIN a /\ a[1] = Head(a) /\ ExternalsBefore(a, 1) = {}
      /\ IsQueue(Tail(a)) /\ Len(Tail(a)) = Len(a) - 1 /\ Len(a) \in Nat
      BY TailCalls
<1>2. refs \subseteq more \cup Externals(Tail(a)) \cup InBatches(q)
      BY <1>1 DEF InOK
<1>3. ASSUME NEW n \in DOMAIN Tail(a), Tail(a)[n].op = "sync" PROVE n = Len(Tail(a))
  <2>1. n + 1 = Len(a) /\ n \in Nat
        BY <1>1, <1>3, QueueDomain DEF InOK
  <2> QED
      BY <2>1, <1>1
<1>4. ASSUME NEW n \in DOMAIN Tail(a), Tail(a)[n].op = "external"
      PROVE  Parents(Tail(a)[n].ref) \subseteq more \cup ExternalsBefore(Tail(a), n)
  <2>1. Parents(a[n + 1].ref) \subseteq has \cup ExternalsBefore(a, n + 1)
        BY <1>1, <1>4 DEF InOK
  <2> QED
      BY <2>1, <1>1
<1>5. \A i \in DOMAIN q : \A n \in DOMAIN q[i] :
          Parents(q[i][n]) \subseteq
              more \cup Externals(Tail(a)) \cup InEarlier(q, i) \cup Earlier(q[i], n)
      BY <1>1 DEF InOK
<1>6. Head(a).op = "external" => Parents(Head(a).ref) \subseteq has
      BY <1>1 DEF InOK
<1>7. Head(a).op = "sync" => Tail(a) = <<>>
  <2>1. Head(a).op = "sync" => Len(a) = 1
        BY <1>1 DEF InOK
  <2> QED
      BY <2>1, <1>1, QueueDomain
<1> QED
    BY <1>2, <1>3, <1>4, <1>5, <1>6, <1>7 DEF InOK

(* The handler has calls to make first that add nothing from outside.      *)
LEMMA InPlan ==
    ASSUME NEW has, NEW refs, NEW a, IsQueue(a), NEW q, InOK(has, refs, a, q),
           NEW p, IsQueue(p), Quiet(p)
    PROVE  InOK(has, refs, p \o a, q) /\ Externals(p \o a) = Externals(a)
<1> DEFINE t == p \o a
<1>0. Joins(p, a, t)
      BY MoreCalls
<1> HIDE DEF t
<1>1. /\ Externals(t) = Externals(a)
      /\ \A n \in DOMAIN p : t[n] = p[n]
      /\ \A n \in DOMAIN a :
             t[Len(p) + n] = a[n] /\ ExternalsBefore(a, n) \subseteq ExternalsBefore(t, Len(p) + n)
      /\ \A n \in DOMAIN t : n \in DOMAIN p \/ (\E m \in DOMAIN a : n = Len(p) + m)
      /\ Len(t) = Len(p) + Len(a)
      BY <1>0, QuietCalls DEF Joins
<1>2. ASSUME NEW n \in DOMAIN t
      PROVE  /\ t[n].op = "sync" => n = Len(t)
             /\ t[n].op = "external" => Parents(t[n].ref) \subseteq has \cup ExternalsBefore(t, n)
  <2>1. CASE n \in DOMAIN p
        BY <2>1, <1>1 DEF Quiet
  <2>2. ASSUME NEW m \in DOMAIN a, n = Len(p) + m
        PROVE  /\ t[n].op = "sync" => n = Len(t)
               /\ t[n].op = "external" =>
                      Parents(t[n].ref) \subseteq has \cup ExternalsBefore(t, n)
    <3>1. /\ t[n] = a[m] /\ ExternalsBefore(a, m) \subseteq ExternalsBefore(t, n)
          /\ Len(t) = Len(p) + Len(a)
          BY <2>2, <1>1
    <3>2. a[m].op = "sync" => m = Len(a)
          BY DEF InOK
    <3>3. a[m].op = "external" => Parents(a[m].ref) \subseteq has \cup ExternalsBefore(a, m)
          BY DEF InOK
    <3> QED
        BY <2>2, <3>1, <3>2, <3>3
  <2> QED
      BY <2>1, <2>2, <1>1
<1>3. InOK(has, refs, t, q)
      BY <1>1, <1>2 DEF InOK
<1> QED
    BY <1>1, <1>3 DEF t

(* A handler starts that adds nothing from outside.                        *)
LEMMA InFinish ==
    ASSUME NEW has, NEW refs, NEW q, InOK(has, refs, <<>>, q)
    PROVE  InOK(has, refs, Finish, q)
<1>1. Externals(<<>>) = {}
      BY DEF Externals
<1> QED
    BY <1>1, FinishCalls DEF InOK

(* The next event is delivered.                                            *)
LEMMA InDeliver ==
    ASSUME NEW has, NEW refs, NEW q, IsQueue(q), q # <<>>, InOK(has, refs, <<>>, q),
           IsQueue(Head(q))
    PROVE  LET a == [n \in DOMAIN Head(q) |-> External(Head(q)[n])] \o Finish
           IN  InOK(has, refs, a, Tail(q)) /\ Externals(a) = Elements(Head(q))
<1> DEFINE b == Head(q)
           p == [n \in DOMAIN b |-> External(b[n])]
           a == p \o Finish
<1>1. /\ IsQueue(p) /\ DOMAIN p = DOMAIN b /\ Externals(p) = Elements(b)
      /\ \A n \in DOMAIN b : /\ p[n].op = "external" /\ p[n].ref = b[n]
                             /\ ExternalsBefore(p, n) = Earlier(b, n)
      BY BatchCalls
<1> HIDE DEF p
<1>a. Joins(p, Finish, a)
      BY <1>1, FinishCalls, MoreCalls
<1> HIDE DEF a
<1>2. /\ Externals(a) = Elements(b)
      /\ \A n \in DOMAIN p : /\ a[n] = p[n]
                             /\ ExternalsBefore(p, n) \subseteq ExternalsBefore(a, n)
      /\ \A n \in DOMAIN Finish : a[Len(p) + n] = Finish[n]
      /\ \A n \in DOMAIN a : n \in DOMAIN p \/ (\E m \in DOMAIN Finish : n = Len(p) + m)
      /\ Len(a) = Len(p) + 3
      BY <1>1, <1>a, FinishCalls DEF Joins
<1>3. /\ \A n \in DOMAIN Tail(q) :
             /\ n + 1 \in DOMAIN q /\ Tail(q)[n] = q[n + 1]
             /\ InEarlier(q, n + 1) = Elements(b) \cup InEarlier(Tail(q), n)
      /\ InBatches(q) = Elements(b) \cup InBatches(Tail(q))
      /\ 1 \in DOMAIN q /\ b = q[1] /\ InEarlier(q, 1) = {}
      BY EarlierTail
<1>4. Externals(<<>>) = {}
      BY DEF Externals
<1> HIDE DEF b
<1>5. refs \subseteq has \cup Externals(a) \cup InBatches(Tail(q))
      BY <1>2, <1>3, <1>4 DEF InOK
<1>6. ASSUME NEW n \in DOMAIN a
      PROVE  /\ a[n].op = "sync" => n = Len(a)
             /\ a[n].op = "external" => Parents(a[n].ref) \subseteq has \cup ExternalsBefore(a, n)
  <2>1. CASE n \in DOMAIN p
    <3>1. /\ a[n].op = "external" /\ a[n].ref = b[n] /\ n \in DOMAIN b
          /\ Earlier(b, n) \subseteq ExternalsBefore(a, n)
          BY <2>1, <1>1, <1>2
    <3>2. Parents(b[n]) \subseteq has \cup Earlier(b, n)
          BY <3>1, <1>3, <1>4 DEF InOK
    <3> QED
        BY <3>1, <3>2
  <2>2. ASSUME NEW m \in DOMAIN Finish, n = Len(p) + m
        PROVE  a[n].op # "external" /\ (a[n].op = "sync" => n = Len(a))
        BY <2>2, <1>2, FinishCalls
  <2> QED
      BY <2>1, <2>2, <1>2
<1>7. ASSUME NEW i \in DOMAIN Tail(q), NEW n \in DOMAIN Tail(q)[i]
      PROVE  Parents(Tail(q)[i][n]) \subseteq
                 has \cup Externals(a) \cup InEarlier(Tail(q), i) \cup Earlier(Tail(q)[i], n)
  <2>1. Parents(q[i + 1][n]) \subseteq
            has \cup Externals(<<>>) \cup InEarlier(q, i + 1) \cup Earlier(q[i + 1], n)
        BY <1>3, <1>7 DEF InOK
  <2> QED
      BY <2>1, <1>2, <1>3, <1>4
<1>8. InOK(has, refs, a, Tail(q))
      BY <1>5, <1>6, <1>7 DEF InOK
<1> QED
    BY <1>2, <1>8 DEF a, b, p

(* Another tab's update is persisted and broadcast.                        *)
LEMMA InAppend ==
    ASSUME NEW has, NEW refs, NEW a, NEW q, IsQueue(q), InOK(has, refs, a, q),
           NEW b, \A n \in DOMAIN b : Parents(b[n]) \subseteq refs \cup Earlier(b, n)
    PROVE  InOK(has, refs \cup Elements(b), a, Append(q, b))
<1> DEFINE t == Append(q, b)
<1>1. /\ \A i \in DOMAIN t : i \in DOMAIN q \/ i = Len(q) + 1
      /\ \A i \in DOMAIN q : t[i] = q[i] /\ InEarlier(q, i) = InEarlier(t, i)
      /\ t[Len(q) + 1] = b /\ InEarlier(t, Len(q) + 1) = InBatches(q)
      /\ InBatches(t) = InBatches(q) \cup Elements(b)
      BY EarlierAppend
<1> HIDE DEF t
<1>2. ASSUME NEW i \in DOMAIN t, NEW n \in DOMAIN t[i]
      PROVE  Parents(t[i][n]) \subseteq
                 has \cup Externals(a) \cup InEarlier(t, i) \cup Earlier(t[i], n)
  <2>1. CASE i \in DOMAIN q
    <3>1. t[i] = q[i] /\ InEarlier(q, i) = InEarlier(t, i)
          BY <2>1, <1>1
    <3> QED
        BY <2>1, <3>1, <1>2 DEF InOK
  <2>2. CASE i = Len(q) + 1
    <3>1. t[i] = b /\ InEarlier(t, i) = InBatches(q)
          BY <2>2, <1>1
    <3>2. Parents(b[n]) \subseteq refs \cup Earlier(b, n)
          BY <3>1, <1>2
    <3>3. refs \subseteq has \cup Externals(a) \cup InBatches(q)
          BY DEF InOK
    <3> QED
        BY <3>1, <3>2, <3>3
  <2> QED
      BY <1>1, <2>1, <2>2
<1>3. InOK(has, refs \cup Elements(b), a, t)
      BY <1>1, <1>2 DEF InOK
<1> QED
    BY <1>3 DEF t

(* A tab opens and is sent the repository p.                               *)
LEMMA InOpen ==
    ASSUME NEW p, \A n \in DOMAIN p : Parents(p[n]) \subseteq Earlier(p, n)
    PROVE  InOK({}, Elements(p), <<>>, <<p>>) /\ InBatches(<<p>>) = Elements(p)
<1> DEFINE q == <<p>>
<1>1. DOMAIN q = {1} /\ q[1] = p
      OBVIOUS
<1> HIDE DEF q
<1>2. InBatches(q) = Elements(p) /\ DOMAIN <<>> = {}
      BY <1>1 DEF InBatches
<1>3. InOK({}, Elements(p), <<>>, q)
      BY <1>1, <1>2 DEF InOK
<1> QED
    BY <1>2, <1>3 DEF q

(* What an update adds to the repository, and that this keeps its order.   *)
LEMMA RepoAdds ==
    ASSUME NEW p, IsQueue(p), NEW b, IsQueue(b)
    PROVE  LET added == Among(b, {n \in DOMAIN b : b[n] \notin Elements(p)})
           IN  /\ IsQueue(added)
               /\ Elements(p \o added) = Elements(p) \cup Elements(b)
               /\ (/\ \A n \in DOMAIN p : Parents(p[n]) \subseteq Earlier(p, n)
                   /\ \A n \in DOMAIN b : Parents(b[n]) \subseteq Elements(p) \cup Earlier(b, n))
                   => \A n \in DOMAIN (p \o added) :
                          Parents((p \o added)[n]) \subseteq Earlier(p \o added, n)
<1> DEFINE kept == {n \in DOMAIN b : b[n] \notin Elements(p)}
           added == Among(b, kept)
           new == p \o added
           card == Cardinality(kept)
<1>1. /\ IsQueue(added) /\ card \in Nat /\ Len(added) = card
      /\ \A i \in 1 .. card : Nth(kept, i) \in kept /\ added[i] = b[Nth(kept, i)]
      /\ \A m \in kept : \E i \in 1 .. card : Nth(kept, i) = m
      /\ \A i, j \in 1 .. card : i < j => Nth(kept, i) < Nth(kept, j)
      /\ Elements(added) = {b[m] : m \in kept}
  <2>1. kept \subseteq DOMAIN b
        OBVIOUS
  <2> HIDE DEF kept
  <2> QED
      BY <2>1, AmongQueue
<1>2. \A n \in kept : n \in DOMAIN b /\ b[n] \notin Elements(p)
      OBVIOUS
<1>3. \A n \in DOMAIN b : n \in kept \/ b[n] \in Elements(p)
      OBVIOUS
<1>4. DOMAIN b = 1 .. Len(b) /\ Len(b) \in Nat /\ DOMAIN p = 1 .. Len(p) /\ Len(p) \in Nat
      BY QueueDomain
<1> HIDE DEF kept, added, card
<1>5. /\ IsQueue(new) /\ DOMAIN new = 1 .. Len(p) + card
      /\ \A n \in 1 .. Len(p) : new[n] = p[n]
      /\ \A n \in 1 .. card : new[Len(p) + n] = added[n]
      /\ Elements(new) = Elements(p) \cup Elements(added)
  <2>1. IsQueue(new) /\ Len(new) = Len(p) + card
        BY <1>1, QueueConcat
  <2>2. \A n \in 1 .. Len(p) : new[n] = p[n]
        BY <1>1, QueueConcat
  <2>3. \A n \in 1 .. card : new[Len(p) + n] = added[n]
        BY <1>1, QueueConcat
  <2>4. Elements(new) = Elements(p) \cup Elements(added)
        BY <1>1, QueueConcat
  <2> HIDE DEF new
  <2>5. DOMAIN new = 1 .. Len(p) + card
        BY <2>1, QueueDomain
  <2> QED
      BY <2>1, <2>2, <2>3, <2>4, <2>5
<1> HIDE DEF new
<1>6. Elements(new) = Elements(p) \cup Elements(b)
  <2>1. ASSUME NEW x \in Elements(b) PROVE x \in Elements(p) \cup Elements(added)
    <3>1. PICK n \in DOMAIN b : x = b[n]
          BY <2>1 DEF Elements
    <3> QED
        BY <3>1, <1>1, <1>3
  <2>2. ASSUME NEW x \in Elements(added) PROVE x \in Elements(b)
    <3>1. PICK n \in kept : x = b[n]
          BY <2>2, <1>1
    <3> QED
        BY <3>1, <1>2 DEF Elements
  <2> QED
      BY <2>1, <2>2, <1>5
<1>7. ASSUME \A n \in DOMAIN p : Parents(p[n]) \subseteq Earlier(p, n),
             \A n \in DOMAIN b : Parents(b[n]) \subseteq Elements(p) \cup Earlier(b, n),
             NEW n \in DOMAIN new
      PROVE  Parents(new[n]) \subseteq Earlier(new, n)
  <2>1. CASE n \in DOMAIN p
    <3>1. new[n] = p[n]
          BY <2>1, <1>4, <1>5
    <3>2. Earlier(p, n) \subseteq Earlier(new, n)
      <4>1. ASSUME NEW k \in DOMAIN p, k < n PROVE k \in DOMAIN new /\ new[k] = p[k]
            BY <4>1, <1>1, <1>4, <1>5
      <4> QED
          BY <4>1 DEF Earlier
    <3> QED
        BY <2>1, <3>1, <3>2, <1>7
  <2>2. CASE n \notin DOMAIN p
    <3> DEFINE i == n - Len(p)
               m == Nth(kept, i)
    <3>1. i \in 1 .. card /\ n = Len(p) + i
          BY <2>2, <1>1, <1>4, <1>5
    <3> HIDE DEF i
    <3>2. m \in DOMAIN b /\ new[n] = b[m]
          BY <3>1, <1>1, <1>2, <1>5
    <3>3. ASSUME NEW x \in Elements(p) PROVE x \in Earlier(new, n)
      <4>1. PICK k \in DOMAIN p : x = p[k]
            BY <3>3 DEF Elements
      <4>2. k \in DOMAIN new /\ k < n /\ new[k] = x
            BY <4>1, <3>1, <1>1, <1>4, <1>5
      <4> QED
          BY <4>2 DEF Earlier
    <3>4. ASSUME NEW x \in Earlier(b, m) PROVE x \in Earlier(new, n)
      <4>1. PICK k \in DOMAIN b : k < m /\ x = b[k]
            BY <3>4 DEF Earlier
      <4>2. CASE k \notin kept
            BY <4>1, <4>2, <1>3, <3>3
      <4>3. CASE k \in kept
        <5>1. PICK j \in 1 .. card : Nth(kept, j) = k
              BY <4>3, <1>1
        <5>2. ~(i < j) /\ i # j
          <6>1. k \in Nat /\ m \in Nat
                BY <3>2, <1>4
          <6>2. i < j => m < k
                BY <3>1, <5>1, <1>1
          <6>3. i = j => m = k
                BY <5>1
          <6> QED
              BY <4>1, <6>1, <6>2, <6>3
        <5>3. Len(p) + j \in DOMAIN new /\ Len(p) + j < n
              BY <3>1, <5>1, <5>2, <1>1, <1>4, <1>5
        <5>4. new[Len(p) + j] = x
              BY <4>1, <5>1, <1>1, <1>5
        <5> QED
            BY <5>3, <5>4 DEF Earlier
      <4> QED
          BY <4>2, <4>3
    <3>5. Parents(b[m]) \subseteq Elements(p) \cup Earlier(b, m)
          BY <3>2, <1>7
    <3> QED
        BY <3>2, <3>3, <3>4, <3>5
  <2> QED
      BY <2>1, <2>2
<1> QED
    BY <1>1, <1>6, <1>7 DEF new, added, kept

-----------------------------------------------------------------------------
(* Where the commits of a client are.                                      *)

Stack(c) == IF running = c THEN promoting ELSE <<>>

Agenda(c) == IF running = c THEN agenda ELSE <<>>

RepoRefs == Elements(repo)

ClosedOK(c) ==
    /\ c \notin failed /\ running # c
    /\ commits[c] = {} /\ tempCommits[c] = {}
    /\ unsyncedCommits[c] = <<>> /\ storeQueue[c] = <<>> /\ inbox[c] = <<>>
    /\ localSave[c] = "ready"

(* A permanent commit of a client is in the repository, or in an update on *)
(* its way there, or waits for the sync at the end of the handler, or is   *)
(* being promoted; what comes from the repository is there.                *)
SavedOK(c) ==
    /\ \A r \in NonTemp(c) :
          \/ r \in RepoRefs
          \/ r \in InBatches(storeQueue[c])
          \/ r \in Elements(unsyncedCommits[c])
          \/ Pending(Stack(c), r)
    /\ localSave[c] = "ready" => storeQueue[c] = <<>>
    /\ running # c => unsyncedCommits[c] = <<>>
    /\ InBatches(inbox[c]) \subseteq RepoRefs
    /\ Externals(Agenda(c)) \subseteq RepoRefs

SaveInv ==
    /\ \A c \in Client \ open : ClosedOK(c)
    /\ \A c \in open \ failed : SavedOK(c)

LEMMA Queues ==
    ASSUME TypeOK
    PROVE  /\ IsQueue(repo) /\ IsQueue(agenda) /\ IsQueue(promoting)
           /\ \A c \in Client : /\ IsQueue(storeQueue[c]) /\ IsQueue(inbox[c])
                                /\ IsQueue(unsyncedCommits[c])
                                /\ storeQueue[c] # <<>> => IsQueue(Head(storeQueue[c]))
                                /\ inbox[c] # <<>> => IsQueue(Head(inbox[c]))
<1>1. ASSUME NEW q \in Seq(Seq(CommitRefs)), q # <<>> PROVE IsQueue(Head(q))
      BY <1>1, HeadTailType DEF IsQueue
<1> QED
    BY <1>1 DEF TypeOK, IsQueue

LEMMA NoQueue ==
    /\ InBatches(<<>>) = {} /\ Elements(<<>>) = {} /\ Externals(<<>>) = {}
    /\ \A r : ~Pending(<<>>, r)
BY NoStack DEF InBatches, Elements, Externals

(* What an update adds to the repository.                                  *)
LEMMA SaveRefs ==
    ASSUME TypeOK, NEW c \in Client, SaveUpdate(c)
    PROVE  /\ repo' = repo \o Among(Head(storeQueue[c]),
                                    {n \in DOMAIN Head(storeQueue[c]) :
                                        Head(storeQueue[c])[n] \notin Elements(repo)})
           /\ RepoRefs' = RepoRefs \cup Elements(Head(storeQueue[c]))
<1> DEFINE batch == Head(storeQueue[c])
           added == Among(batch, {n \in DOMAIN batch : batch[n] \notin Elements(repo)})
<1>1. ToSet(repo) = Elements(repo)
      BY DEF ToSet, Elements
<1>2. repo' = repo \o added
      BY <1>1 DEF SaveUpdate
<1>3. IsQueue(repo) /\ IsQueue(batch)
      BY Queues DEF SaveUpdate
<1>4. Elements(repo \o added) = Elements(repo) \cup Elements(batch)
      BY <1>3, RepoAdds
<1> QED
    BY <1>2, <1>4 DEF RepoRefs

(* A client whose commits stay where they are.                             *)
LEMMA SavedFrame ==
    ASSUME NEW o \in Client, SavedOK(o), commits'[o] = commits[o], tempCommits'[o] = tempCommits[o],
           RepoRefs \subseteq RepoRefs', storeQueue'[o] = storeQueue[o],
           unsyncedCommits'[o] = unsyncedCommits[o], localSave'[o] = localSave[o],
           InBatches(inbox'[o]) \subseteq RepoRefs',
           \A r : Pending(Stack(o), r) => Pending(Stack(o)', r),
           Externals(Agenda(o)') \subseteq RepoRefs',
           running' # o => running # o
    PROVE  SavedOK(o)'
BY DEF SavedOK, NonTemp

(* The other clients, whichever handler step c takes.                      *)
LEMMA SavedOther ==
    ASSUME NEW c \in Client, NEW o \in Client \ {c},
           running \in {c, NoClient}, running' \in {c, NoClient},
           commits'[o] = commits[o], tempCommits'[o] = tempCommits[o], repo' = repo,
           storeQueue'[o] = storeQueue[o], unsyncedCommits'[o] = unsyncedCommits[o],
           localSave'[o] = localSave[o], inbox'[o] = inbox[o], o \notin failed'
    PROVE  (SavedOK(o) => SavedOK(o)') /\ (ClosedOK(o) => ClosedOK(o)')
<1>1. running # o /\ running' # o
      BY NoClientAssumption
<1>2. Stack(o) = <<>> /\ Stack(o)' = <<>> /\ Agenda(o) = <<>> /\ Agenda(o)' = <<>>
      BY <1>1 DEF Stack, Agenda
<1>3. RepoRefs' = RepoRefs
      BY DEF RepoRefs
<1>4. SavedOK(o) => SavedOK(o)'
  <2>1. SavedOK(o) => InBatches(inbox'[o]) \subseteq RepoRefs'
        BY <1>3 DEF SavedOK
  <2> QED
      BY <1>1, <1>2, <1>3, <2>1, SavedFrame, NoQueue
<1>5. ClosedOK(o) => ClosedOK(o)'
      BY <1>1 DEF ClosedOK
<1> QED
    BY <1>4, <1>5

LEMMA InitSave == Init => SaveInv
BY NoClientAssumption DEF Init, SaveInv, ClosedOK

(* The calls of the handler that stay, and what they bring.                *)
LEMMA NextExternals ==
    ASSUME TypeOK, agenda # <<>>
    PROVE  /\ Externals(Tail(agenda)) \subseteq Externals(agenda)
           /\ Head(agenda).op = "external" => Head(agenda).ref \in Externals(agenda)
BY Queues, TailCalls

(* A temp commit's parents go on the stack, and nothing leaves it.         *)
LEMMA PromoteKeeps ==
    ASSUME TypeOK, NEW c \in Client, PromoteTempCommit(c)
    PROVE  /\ \A x : Pending(promoting, x) => Pending(promoting', x)
           /\ \A x : Mentions(promoting, x) => Mentions(promoting', x)
<1> DEFINE r == Head(promoting).ref
<1>1. /\ promoting \in Seq(Promotion) /\ promoting # <<>> /\ r \in CommitRefs
      /\ Head(promoting).op = "promote" /\ Head(promoting).ref = r
      /\ promoting' = PromoteParents(r) \o Tail(promoting)
      BY DEF PromoteTempCommit, NextPromotion, TypeOK
<1>2. Unfolds(promoting, r, promoting')
      BY <1>1, UnfoldIndex
<1>3. BaseFirst(promoting, {})
      BY DEF BaseFirst
<1> HIDE DEF r
<1> QED
    BY ONLY <1>1, <1>2, <1>3, UnfoldStack, ZenonT(30)

(* The unsynced commits become an update, if there are any.                *)
LEMMA SyncMoves ==
    ASSUME TypeOK, NEW c \in Client, Sync(c)
    PROVE  /\ unsyncedCommits'[c] = <<>>
           /\ \/ /\ unsyncedCommits[c] = <<>> /\ storeQueue'[c] = storeQueue[c]
                 /\ localSave'[c] = localSave[c]
              \/ /\ storeQueue'[c] = Append(storeQueue[c], unsyncedCommits[c])
                 /\ localSave'[c] = "saving"
           /\ \A o \in Client \ {c} : /\ storeQueue'[o] = storeQueue[o]
                                      /\ localSave'[o] = localSave[o]
                                      /\ unsyncedCommits'[o] = unsyncedCommits[o]
<1>1. CASE unsyncedCommits[c] = <<>>
      BY <1>1 DEF Sync
<1>2. CASE unsyncedCommits[c] # <<>>
  <2>1. /\ storeQueue' = [storeQueue EXCEPT ![c] = Append(@, unsyncedCommits[c])]
        /\ unsyncedCommits' = [unsyncedCommits EXCEPT ![c] = <<>>]
        /\ localSave' = [localSave EXCEPT ![c] = "saving"]
        BY <1>2 DEF Sync
  <2>2. /\ DOMAIN storeQueue = Client /\ DOMAIN unsyncedCommits = Client
        /\ DOMAIN localSave = Client
        BY DEF TypeOK
  <2>3. unsyncedCommits'[c] = <<>> /\ localSave'[c] = "saving"
        BY <2>1, <2>2
  <2>4. storeQueue'[c] = Append(storeQueue[c], unsyncedCommits[c])
        BY <2>1, <2>2
  <2> QED
      BY <2>1, <2>2, <2>3, <2>4
<1> QED
    BY <1>1, <1>2

LEMMA SaveStep == TypeOK /\ TypeOK' /\ GraphInv /\ SaveInv /\ [Next]_vars => SaveInv'
<1> SUFFICES ASSUME TypeOK, TypeOK', GraphInv, SaveInv, [Next]_vars PROVE SaveInv'
    OBVIOUS
<1> USE NoClientAssumption
(* The steps of a handler c that was running, or starts.                   *)
<1>h. ASSUME NEW c \in Client, running \in {c, NoClient}, running' \in {c, NoClient},
             open' = open, c \in open, failed' \in {failed, failed \cup {c}}, repo' = repo,
             \A o \in Client \ {c} :
                /\ commits'[o] = commits[o] /\ tempCommits'[o] = tempCommits[o]
                /\ storeQueue'[o] = storeQueue[o] /\ unsyncedCommits'[o] = unsyncedCommits[o]
                /\ localSave'[o] = localSave[o] /\ inbox'[o] = inbox[o],
             c \notin failed' => SavedOK(c)'
      PROVE  SaveInv'
  <2>1. ASSUME NEW o \in Client \ open' PROVE ClosedOK(o)'
    <3>1. ClosedOK(o) /\ o # c
          BY <1>h DEF SaveInv
    <3>2. o \notin failed'
          BY <3>1, <1>h DEF ClosedOK
    <3> QED
        BY <3>1, <3>2, <1>h, SavedOther
  <2>2. ASSUME NEW o \in open' \ failed' PROVE SavedOK(o)'
    <3>1. o \in open \ failed /\ o \in Client
          BY <1>h DEF TypeOK
    <3>2. CASE o = c
          BY <3>2, <1>h
    <3>3. CASE o # c
          BY <3>1, <3>3, <1>h, SavedOther DEF SaveInv
    <3> QED
        BY <3>2, <3>3
  <2> QED
      BY <2>1, <2>2 DEF SaveInv
(* A client that runs has a tab.                                           *)
<1>r. \A c \in Client : running = c => c \in open \ failed
      BY DEF SaveInv, ClosedOK, GraphInv, HandlerInv
<1>1. ASSUME NEW c \in Client, Open(c) PROVE SaveInv'
  <2>1. ClosedOK(c) /\ UNCHANGED <<memory, handler, failed, storeQueue, repo>>
        BY <1>1 DEF Open, SaveInv
  <2>2. \A o \in Client \ {c} : inbox'[o] = inbox[o]
        BY <1>1 DEF Open, TypeOK
  <2>3. SavedOK(c)'
    <3>1. InBatches(<<repo>>) = Elements(repo)
      <4> DEFINE q == <<repo>>
      <4>1. DOMAIN q = {1} /\ q[1] = repo
            OBVIOUS
      <4> HIDE DEF q
      <4>2. InBatches(q) = Elements(repo)
            BY <4>1 DEF InBatches
      <4> QED
          BY <4>2 DEF q
    <3>2. inbox'[c] = <<repo>> /\ RepoRefs' = Elements(repo)
          BY <1>1, <2>1 DEF Open, TypeOK, RepoRefs
    <3>3. /\ running' # c /\ commits'[c] = {} /\ unsyncedCommits'[c] = <<>>
          /\ storeQueue'[c] = <<>> /\ Agenda(c)' = <<>>
          BY <2>1 DEF ClosedOK, memory, handler, Agenda
    <3> QED
        BY <3>1, <3>2, <3>3, NoQueue DEF SavedOK, NonTemp
  <2>4. \A o \in Client : running # o /\ running' # o
        BY <1>1 DEF Open, handler
  <2>5. ASSUME NEW o \in Client \ {c}
        PROVE  (SavedOK(o) => SavedOK(o)') /\ (ClosedOK(o) => ClosedOK(o)')
    <3>1. CASE o \in failed
      <4>1. (ClosedOK(o) => ClosedOK(o)')
            BY <3>1 DEF ClosedOK
      <4>2. SavedOK(o) => SavedOK(o)'
            BY <2>1, <2>2, <2>4 DEF SavedOK, Stack, Agenda, RepoRefs, NonTemp, memory
      <4> QED
          BY <4>1, <4>2
    <3>2. CASE o \notin failed
          BY <2>1, <2>2, <3>2, <1>1, SavedOther DEF Open, memory, handler
    <3> QED
        BY <3>1, <3>2
  <2> QED
      BY <1>1, <2>1, <2>3, <2>5 DEF SaveInv, Open, TypeOK
<1>2. ASSUME NEW c \in Client, Crash(c) PROVE SaveInv'
  <2>1. ClosedOK(c)'
        BY <1>2 DEF Crash, TypeOK, ClosedOK, handler
  <2>2. ASSUME NEW o \in Client \ {c}, o \notin failed
        PROVE  (SavedOK(o) => SavedOK(o)') /\ (ClosedOK(o) => ClosedOK(o)')
        BY <1>2, <2>2, SavedOther DEF Crash, TypeOK, handler
  <2>3. \A o \in Client \ open' : o = c \/ (o # c /\ o \in Client \ open /\ ClosedOK(o) /\ o \notin failed)
        BY <1>2 DEF Crash, SaveInv, ClosedOK
  <2>4. \A o \in open' \ failed' : o # c /\ o \in open \ failed /\ o \in Client
        BY <1>2 DEF Crash, TypeOK
  <2> QED
      BY <2>1, <2>2, <2>3, <2>4 DEF SaveInv
<1>3. ASSUME NEW c \in Client, NEW d \in DeltaOf(c), UpdateDoc(c, d) PROVE SaveInv'
  <2>1. /\ running = NoClient /\ running' = c /\ c \in open \ failed
        /\ UNCHANGED <<memory, promoting, open, failed, store>>
        BY <1>3 DEF UpdateDoc
  <2>2. SavedOK(c)
        BY <2>1 DEF SaveInv
  <2>3. Externals(agenda') = {}
    <3> DEFINE p == <<NewCommit(EditRef(lastSavedDoc[c], d), FALSE)>>
    <3>1. IsQueue(p) /\ Externals(p) = {}
          BY QuietCalls
    <3>2. agenda' = p \o Finish
          BY <1>3 DEF UpdateDoc
    <3> HIDE DEF p
    <3>3. Joins(p, Finish, agenda')
          BY <3>1, <3>2, MoreCalls, FinishCalls
    <3> QED
        BY <3>1, <3>3, FinishCalls DEF Joins
  <2>4. SavedOK(c)'
    <3>1. /\ InBatches(inbox'[c]) \subseteq RepoRefs' /\ RepoRefs' = RepoRefs
          /\ Stack(c) = <<>> /\ Agenda(c)' = agenda'
          BY <2>1, <2>2 DEF SavedOK, RepoRefs, store, Stack, Agenda
    <3> QED
        BY <2>1, <2>2, <2>3, <3>1, SavedFrame, NoQueue DEF memory, store
  <2> QED
      BY <2>1, <2>4, <1>h DEF memory, store
<1>4. ASSUME NEW c \in Client, OnCommits(c) PROVE SaveInv'
  <2>1. /\ running = NoClient /\ running' = c /\ c \in open \ failed /\ inbox[c] # <<>>
        /\ UNCHANGED <<memory, promoting, open, failed, storeQueue, repo>>
        /\ inbox'[c] = Tail(inbox[c]) /\ \A o \in Client \ {c} : inbox'[o] = inbox[o]
        BY <1>4 DEF OnCommits, tabs, TypeOK
  <2>2. SavedOK(c)
        BY <2>1 DEF SaveInv
  <2>3. IsQueue(inbox[c]) /\ IsQueue(Head(inbox[c]))
        BY <2>1, Queues
  <2>4. Externals(agenda') = Elements(Head(inbox[c]))
    <3> DEFINE p == [n \in DOMAIN Head(inbox[c]) |-> External(Head(inbox[c])[n])]
    <3>1. IsQueue(p) /\ Externals(p) = Elements(Head(inbox[c]))
          BY <2>3, BatchCalls
    <3>2. agenda' = p \o Finish
          BY <1>4 DEF OnCommits
    <3> HIDE DEF p
    <3>3. Joins(p, Finish, agenda')
          BY <3>1, <3>2, MoreCalls, FinishCalls
    <3> QED
        BY <3>1, <3>3, FinishCalls DEF Joins
  <2>5. InBatches(inbox[c]) = Elements(Head(inbox[c])) \cup InBatches(Tail(inbox[c]))
        BY <2>1, <2>3, EarlierTail
  <2>6. SavedOK(c)'
    <3>1. /\ InBatches(inbox'[c]) \subseteq RepoRefs' /\ RepoRefs' = RepoRefs
          /\ Externals(Agenda(c)') \subseteq RepoRefs' /\ Stack(c) = <<>>
          BY <2>1, <2>2, <2>4, <2>5 DEF SavedOK, RepoRefs, Stack, Agenda
    <3> QED
        BY <2>1, <2>2, <3>1, SavedFrame, NoQueue DEF memory
  <2> QED
      BY <2>1, <2>6, <1>h DEF memory
(* The steps that only go on to the next call, or promotion.               *)
<1>m. ASSUME NEW c \in Client, running = c, running' = c,
             UNCHANGED <<commits, tempCommits, unsyncedCommits, localSave, tabs, store>>,
             \A r : Pending(promoting, r) => Pending(promoting', r),
             Externals(agenda') \subseteq Externals(agenda)
      PROVE  SaveInv'
  <2>1. SavedOK(c) /\ c \in open \ failed
        BY <1>m, <1>r DEF SaveInv
  <2>2. /\ InBatches(inbox'[c]) \subseteq RepoRefs' /\ RepoRefs' = RepoRefs
        /\ Externals(Agenda(c)') \subseteq RepoRefs'
        BY <2>1, <1>m DEF SavedOK, RepoRefs, Agenda, store
  <2>3. SavedOK(c)'
        BY <1>m, <2>1, <2>2, SavedFrame DEF Stack, store
  <2> QED
      BY <1>m, <2>1, <2>3, <1>h DEF tabs, store
<1>5. ASSUME NEW c \in Client, UpdateCommitFromRemote(c) PROVE SaveInv'
      BY <1>5, <1>m, NextExternals, NoQueue DEF UpdateCommitFromRemote, NextCall, memory
<1>6. ASSUME NEW c \in Client, AddExternalCommit(c) PROVE SaveInv'
  <2> DEFINE r == Head(agenda).ref
  <2>1. /\ running = c /\ running' = c /\ agenda # <<>> /\ Head(agenda).op = "external"
        /\ agenda' = Tail(agenda)
        /\ UNCHANGED <<unsyncedCommits, localSave, promoting, open, failed, store>>
        /\ commits'[c] = (commits[c] \ tempCommits[c]) \cup {r} /\ tempCommits'[c] = {}
        /\ \A o \in Client \ {c} : commits'[o] = commits[o] /\ tempCommits'[o] = tempCommits[o]
        BY <1>6 DEF AddExternalCommit, NextCall, RolledBack, TypeOK, tabs
  <2>2. SavedOK(c) /\ c \in open \ failed
        BY <2>1, <1>r DEF SaveInv
  <2>3. /\ RepoRefs' = RepoRefs /\ Stack(c)' = Stack(c) /\ NonTemp(c)' = NonTemp(c) \cup {r}
        /\ Agenda(c) = agenda /\ Agenda(c)' = Tail(agenda)
        BY <2>1 DEF RepoRefs, Stack, store, NonTemp, Agenda
  <2>4. r \in RepoRefs /\ Externals(Agenda(c)') \subseteq RepoRefs
        BY <2>1, <2>2, <2>3, NextExternals DEF SavedOK
  <2>5. SavedOK(c)'
        BY <2>1, <2>2, <2>3, <2>4 DEF SavedOK, store
  <2> QED
      BY <2>1, <2>2, <2>5, <1>h DEF store
<1>7. ASSUME NEW c \in Client, AddExternalCommitThrows(c) PROVE SaveInv'
  <2>1. running = c /\ c \in open \ failed
        BY <1>7, <1>r DEF AddExternalCommitThrows, NextCall
  <2> QED
      BY <1>7, <2>1, <1>h DEF AddExternalCommitThrows, TypeOK, store
<1>8. ASSUME NEW c \in Client, SkipNewCommit(c) PROVE SaveInv'
      BY <1>8, <1>m, NextExternals DEF SkipNewCommit, NextCall, memory
<1>9. ASSUME NEW c \in Client, AddNewCommit(c) PROVE SaveInv'
  <2> DEFINE r == Head(agenda).ref
             temp == Head(agenda).op = "temp"
  <2>1. /\ running = c /\ running' = c /\ agenda # <<>> /\ promoting = <<>>
        /\ agenda' = Tail(agenda)
        /\ UNCHANGED <<unsyncedCommits, localSave, open, failed, store>>
        /\ commits'[c] = commits[c] \cup {r}
        /\ tempCommits'[c] = IF temp THEN tempCommits[c] \cup {r} ELSE tempCommits[c]
        /\ promoting' = IF temp THEN <<>> ELSE PromoteParents(r)
        /\ \A o \in Client \ {c} : commits'[o] = commits[o] /\ tempCommits'[o] = tempCommits[o]
        BY <1>9 DEF AddNewCommit, NextCall, TypeOK, tabs
  <2>2. SavedOK(c) /\ c \in open \ failed
        BY <2>1, <1>r DEF SaveInv
  <2>3. /\ RepoRefs' = RepoRefs /\ Stack(c) = <<>> /\ Stack(c)' = promoting'
        /\ Agenda(c) = agenda /\ Agenda(c)' = Tail(agenda)
        BY <2>1 DEF RepoRefs, Stack, store, Agenda
  <2>4. \A x \in NonTemp(c)' : x \in NonTemp(c) \/ (x = r /\ ~temp)
        BY <2>1 DEF NonTemp
  <2>5. ~temp => Pending(promoting', r)
    <3>1. DOMAIN PromoteParents(r) = 1 .. 3 /\ PromoteParents(r)[3] = [op |-> "keep", ref |-> r]
          BY ParentsIndex
    <3>2. Pending(PromoteParents(r), r)
          BY <3>1 DEF Pending
    <3> QED
        BY <2>1, <3>2
  <2>6. \A x \in NonTemp(c)' :
            \/ x \in RepoRefs
            \/ x \in InBatches(storeQueue[c])
            \/ x \in Elements(unsyncedCommits[c])
            \/ Pending(promoting', x)
        BY <2>2, <2>3, <2>4, <2>5, NoQueue DEF SavedOK
  <2>7. Externals(Agenda(c)') \subseteq RepoRefs
        BY <2>1, <2>2, <2>3, NextExternals DEF SavedOK
  <2>8. SavedOK(c)'
        BY <2>1, <2>2, <2>3, <2>6, <2>7 DEF SavedOK, store
  <2> QED
      BY <2>1, <2>2, <2>8, <1>h DEF store
<1>10. ASSUME NEW c \in Client, PromoteTempCommit(c) PROVE SaveInv'
      BY <1>10, PromoteKeeps, <1>m DEF PromoteTempCommit, NextPromotion, memory
<1>11. ASSUME NEW c \in Client, PromotePermanentCommit(c) PROVE SaveInv'
  <2>1. /\ promoting \in Seq(Promotion) /\ promoting # <<>> /\ Head(promoting).op = "promote"
        /\ promoting' = Tail(promoting)
        BY <1>11 DEF PromotePermanentCommit, NextPromotion, TypeOK
  <2>2. \A r : Pending(promoting, r) => Pending(promoting', r)
        BY <2>1, PendingTail
  <2> QED
      BY <1>11, <2>2, <1>m DEF PromotePermanentCommit, NextPromotion
<1>12. ASSUME NEW c \in Client, KeepCommit(c) PROVE SaveInv'
  <2> DEFINE r == Head(promoting).ref
  <2>1. /\ running = c /\ running' = c /\ promoting # <<>> /\ promoting \in Seq(Promotion)
        /\ promoting' = Tail(promoting)
        /\ UNCHANGED <<commits, localSave, agenda, tabs, store>>
        /\ tempCommits'[c] = tempCommits[c] \ {r}
        /\ unsyncedCommits'[c] = Append(unsyncedCommits[c], r)
        /\ \A o \in Client \ {c} : /\ tempCommits'[o] = tempCommits[o]
                                   /\ unsyncedCommits'[o] = unsyncedCommits[o]
        BY <1>12 DEF KeepCommit, NextPromotion, TypeOK
  <2>2. SavedOK(c) /\ c \in open \ failed
        BY <2>1, <1>r DEF SaveInv
  <2>3. /\ RepoRefs' = RepoRefs /\ Stack(c) = promoting /\ Stack(c)' = Tail(promoting)
        /\ Agenda(c)' = Agenda(c)
        BY <2>1 DEF RepoRefs, Stack, store, Agenda
  <2>4. Elements(unsyncedCommits'[c]) = Elements(unsyncedCommits[c]) \cup {r}
        BY <2>1, Queues, QueueAppend
  <2>5. \A x \in NonTemp(c)' : x \in NonTemp(c) \/ x = r
        BY <2>1 DEF NonTemp
  <2>6. \A x : Pending(promoting, x) => Pending(Tail(promoting), x) \/ x = r
        BY <2>1, PendingTail
  <2>7. \A x \in NonTemp(c)' :
            \/ x \in RepoRefs
            \/ x \in InBatches(storeQueue[c])
            \/ x \in Elements(unsyncedCommits'[c])
            \/ Pending(Stack(c)', x)
        BY <2>2, <2>3, <2>4, <2>5, <2>6 DEF SavedOK
  <2>8. SavedOK(c)'
        BY <2>1, <2>2, <2>3, <2>7 DEF SavedOK, store
  <2> QED
      BY <2>1, <2>2, <2>8, <1>h DEF tabs, store
<1>13. ASSUME NEW c \in Client, MergeHeads(c) PROVE SaveInv'
  <2>1. PICK plan \in Seq(NewCommits) : agenda' = plan \o Tail(agenda)
        BY <1>13 DEF MergeHeads
  <2>2. agenda # <<>>
        BY <1>13 DEF MergeHeads, NextCall
  <2>3. Externals(agenda') \subseteq Externals(agenda)
    <3>1. IsQueue(plan) /\ Externals(plan) = {} /\ IsQueue(Tail(agenda))
          BY <2>2, QuietCalls, Queues, QueueTail
    <3>2. Joins(plan, Tail(agenda), agenda')
          BY <2>1, <3>1, MoreCalls
    <3> QED
        BY <2>2, <3>1, <3>2, NextExternals DEF Joins
  <2> QED
      BY <1>13, <2>3, <1>m DEF MergeHeads, NextCall, memory
<1>14. ASSUME NEW c \in Client, ReadDoc(c) PROVE SaveInv'
  <2> DEFINE p == <<NewCommit(MigratedRef(lastSavedDoc[c]), TRUE)>>
  <2>1. agenda # <<>> /\ agenda' \in {p \o agenda, Tail(agenda)}
        BY <1>14 DEF ReadDoc, NextCall
  <2>2. Externals(p \o agenda) = Externals(agenda)
    <3>1. IsQueue(p) /\ Externals(p) = {}
          BY QuietCalls
    <3> HIDE DEF p
    <3>2. Joins(p, agenda, p \o agenda)
          BY <3>1, Queues, MoreCalls
    <3> QED
        BY <3>1, <3>2 DEF Joins
  <2>3. Externals(agenda') \subseteq Externals(agenda)
    <3> HIDE DEF p
    <3> QED
        BY <2>1, <2>2, NextExternals
  <2> QED
      BY <1>14, <2>3, <1>m DEF ReadDoc, NextCall
<1>15. ASSUME NEW c \in Client, Sync(c) PROVE SaveInv'
  <2>1. /\ running = c /\ running' = NoClient /\ promoting = <<>>
        /\ UNCHANGED <<commits, tempCommits, tabs, repo, inbox>>
        BY <1>15 DEF Sync, NextCall
  <2>2. SavedOK(c) /\ c \in open \ failed
        BY <2>1, <1>r DEF SaveInv
  <2>3. RepoRefs' = RepoRefs /\ Stack(c) = <<>> /\ Agenda(c)' = <<>>
        BY <2>1 DEF RepoRefs, Stack, Agenda
  <2>4. InBatches(storeQueue'[c]) = InBatches(storeQueue[c]) \cup Elements(unsyncedCommits[c])
    <3>1. InBatches(Append(storeQueue[c], unsyncedCommits[c]))
              = InBatches(storeQueue[c]) \cup Elements(unsyncedCommits[c])
          BY Queues, EarlierAppend
    <3> QED
        BY <1>15, <3>1, SyncMoves, NoQueue
  <2>5. NonTemp(c)' = NonTemp(c)
        BY <2>1 DEF NonTemp
  <2>6. localSave'[c] = "ready" => storeQueue'[c] = <<>>
        BY <1>15, <2>2, SyncMoves DEF SavedOK
  <2>7. SavedOK(c)'
        BY <1>15, <2>1, <2>2, <2>3, <2>4, <2>5, <2>6, SyncMoves, NoQueue DEF SavedOK
  <2> QED
      BY <1>15, <2>1, <2>2, <2>7, SyncMoves, <1>h DEF tabs
<1>16. ASSUME NEW c \in Client, SaveUpdate(c) PROVE SaveInv'
  <2> DEFINE batch == Head(storeQueue[c])
  <2>1. /\ running = NoClient /\ c \in open /\ storeQueue[c] # <<>>
        /\ UNCHANGED <<commits, tempCommits, unsyncedCommits, running, agenda, promoting, open, failed>>
        /\ storeQueue'[c] = Tail(storeQueue[c])
        /\ \A o \in Client \ {c} : storeQueue'[o] = storeQueue[o] /\ localSave'[o] = localSave[o]
        /\ \A o \in Client : inbox'[o] = IF o \in open \ {c} THEN Append(inbox[o], batch) ELSE inbox[o]
        /\ localSave'[c] = IF Len(storeQueue[c]) = 1 THEN "ready" ELSE localSave[c]
        BY <1>16 DEF SaveUpdate, LastUpdate, handler, tabs, TypeOK
  <2>2. RepoRefs' = RepoRefs \cup Elements(batch)
        BY <1>16, SaveRefs
  <2>3. \A o \in Client : Stack(o) = Stack(o)' /\ Agenda(o)' = <<>> /\ NonTemp(o)' = NonTemp(o)
        BY <2>1 DEF Stack, Agenda, NonTemp
  <2>4. ASSUME NEW o \in Client \ open' PROVE ClosedOK(o)'
    <3>1. ClosedOK(o) /\ o # c
          BY <2>1, <2>4 DEF SaveInv
    <3> QED
        BY <2>1, <3>1 DEF ClosedOK
  <2>5. ASSUME NEW o \in open' \ failed', o # c PROVE SavedOK(o)'
    <3>1. SavedOK(o) /\ o \in Client /\ inbox'[o] = Append(inbox[o], batch)
          BY <2>1, <2>5 DEF SaveInv, TypeOK
    <3>2. InBatches(inbox'[o]) = InBatches(inbox[o]) \cup Elements(batch)
          BY <3>1, Queues, EarlierAppend
    <3>3. InBatches(inbox'[o]) \subseteq RepoRefs'
          BY <2>2, <3>1, <3>2 DEF SavedOK
    <3> QED
        BY <2>1, <2>2, <2>3, <2>5, <3>1, <3>3, SavedFrame, NoQueue
  <2>6. ASSUME c \notin failed' PROVE SavedOK(c)'
    <3>1. SavedOK(c)
          BY <2>1, <2>6 DEF SaveInv
    <3>2. InBatches(storeQueue[c]) = Elements(batch) \cup InBatches(storeQueue'[c])
          BY <2>1, Queues, EarlierTail
    <3>3. localSave'[c] = "ready" => storeQueue'[c] = <<>>
      <4>1. localSave[c] # "ready"
            BY <2>1, <3>1 DEF SavedOK
      <4>2. /\ IsQueue(Tail(storeQueue[c])) /\ Len(Tail(storeQueue[c])) = Len(storeQueue[c]) - 1
            BY <2>1, Queues, QueueTail
      <4>3. Len(storeQueue[c]) = 1 => Tail(storeQueue[c]) = <<>>
        <5>1. Len(storeQueue[c]) = 1 => Len(Tail(storeQueue[c])) = 0
              BY <4>2
        <5>2. Tail(storeQueue[c]) = <<>> <=> Len(Tail(storeQueue[c])) = 0
              BY <4>2, QueueDomain
        <5> QED
            BY <5>1, <5>2
      <4> QED
          BY <2>1, <4>1, <4>3
    <3> QED
        BY <2>1, <2>2, <2>3, <3>1, <3>2, <3>3, NoQueue DEF SavedOK
  <2> QED
      BY <2>1, <2>4, <2>5, <2>6 DEF SaveInv
<1>17. ASSUME UNCHANGED vars PROVE SaveInv'
      BY <1>17 DEF vars, memory, handler, tabs, store, SaveInv, ClosedOK, SavedOK, NonTemp,
                   RepoRefs, Stack, Agenda
<1> QED
    BY <1>1, <1>2, <1>3, <1>4, <1>5, <1>6, <1>7, <1>8, <1>9, <1>10, <1>11, <1>12,
       <1>13, <1>14, <1>15, <1>16, <1>17 DEF Next, Handler

LEMMA SaveInvariant == Spec => [](TypeOK /\ GraphInv /\ SaveInv)
<1>1. TypeOK /\ GraphInv /\ SaveInv /\ [Next]_vars => (TypeOK /\ GraphInv /\ SaveInv)'
      BY TypeStep, GraphStep, SaveStep
<1> QED
    BY <1>1, InitTypeOK, InitGraphInv, InitSave, PTL DEF Spec

(* "ready" tells the truth: whatever tabs open, crash, edit, fail and      *)
(* merge, and however many updates are under way, a client that shows it   *)
(* has no permanent commit that is not in the repository.                  *)
THEOREM ReadyMeansSaved == Spec => []SavedWhenReady
<1>1. TypeOK /\ GraphInv /\ SaveInv => SavedWhenReady
  <2> SUFFICES ASSUME TypeOK, GraphInv, SaveInv, Idle, NEW c \in open \ failed,
                      localSave[c] = "ready", NEW r \in NonTemp(c)
               PROVE  r \in ToSet(repo)
      BY DEF SavedWhenReady
  <2>1. SavedOK(c) /\ running # c
        BY NoClientAssumption DEF SaveInv, Idle, TypeOK
  <2>2. storeQueue[c] = <<>> /\ unsyncedCommits[c] = <<>> /\ Stack(c) = <<>>
        BY <2>1 DEF SavedOK, Stack
  <2>3. r \in RepoRefs
        BY <2>1, <2>2, NoQueue DEF SavedOK
  <2> QED
      BY <2>3 DEF RepoRefs, ToSet, Elements
<1> QED
    BY <1>1, SaveInvariant, PTL

-----------------------------------------------------------------------------
(* What the order of the commits rests on, when the repository starts out  *)
(* in order.                                                               *)

InOrder(p) == \A n \in DOMAIN p : Parents(p[n]) \subseteq Earlier(p, n)

SeedsInOrder == \A p \in Seeds : InOrder(p)

(* The permanent commits of a client, and those that it is promoting.      *)
Has(c) == {r \in commits[c] : r \notin tempCommits[c] \/ Mentions(Stack(c), r)}

ClientOrder(c) ==
    /\ GraphOK(commits[c], tempCommits[c], allHeadRefs[c], nonTempHeadRefs[c], Stack(c))
    /\ InBatches(storeQueue[c]) \cup Elements(unsyncedCommits[c]) \subseteq NonTemp(c)
    /\ OutOK(RepoRefs, storeQueue[c], unsyncedCommits[c])
    /\ c \in open => InOK(Has(c), RepoRefs, Agenda(c), inbox[c])

OrderInv ==
    /\ failed = {}
    /\ InOrder(repo)
    /\ \A c \in Client : ClientOrder(c)

LEMMA EmptyGraph ==
    /\ GraphOK({}, {}, {}, {}, <<>>)
    /\ \A refs : OutOK(refs, <<>>, <<>>)
<1>1. IsRank([x \in {} |-> 0], {}, <<>>)
      BY DEF IsRank
<1>2. GraphOK({}, {}, {}, {}, <<>>)
      BY <1>1, NoStack DEF GraphOK, CommitsOK, HeadsOK
<1> QED
    BY <1>2 DEF OutOK

LEMMA InitOrder == Init /\ SeedsInOrder => OrderInv
<1> SUFFICES ASSUME Init, SeedsInOrder PROVE OrderInv
    OBVIOUS
<1>1. failed = {} /\ InOrder(repo) /\ open = {} /\ running = NoClient
      BY DEF Init, SeedsInOrder
<1>2. ASSUME NEW c \in Client PROVE ClientOrder(c)
  <2>1. Stack(c) = <<>>
        BY <1>1, NoClientAssumption DEF Stack
  <2>2. /\ commits[c] = {} /\ tempCommits[c] = {} /\ allHeadRefs[c] = {}
        /\ nonTempHeadRefs[c] = {} /\ storeQueue[c] = <<>> /\ unsyncedCommits[c] = <<>>
        BY DEF Init
  <2> QED
      BY <1>1, <2>1, <2>2, EmptyGraph, NoQueue DEF ClientOrder
<1> QED
    BY <1>1, <1>2 DEF OrderInv

(* The other clients, whichever handler step c takes.                      *)
LEMMA OrderOther ==
    ASSUME NEW c \in Client, NEW o \in Client \ {c}, ClientOrder(o),
           running \in {c, NoClient}, running' \in {c, NoClient},
           commits'[o] = commits[o], tempCommits'[o] = tempCommits[o], repo' = repo,
           allHeadRefs'[o] = allHeadRefs[o], nonTempHeadRefs'[o] = nonTempHeadRefs[o],
           storeQueue'[o] = storeQueue[o], unsyncedCommits'[o] = unsyncedCommits[o],
           inbox'[o] = inbox[o], o \in open' => o \in open
    PROVE  ClientOrder(o)'
<1>1. running # o /\ running' # o
      BY NoClientAssumption
<1>2. Stack(o)' = Stack(o) /\ Agenda(o)' = Agenda(o) /\ RepoRefs' = RepoRefs
      BY <1>1 DEF Stack, Agenda, RepoRefs
<1>3. Has(o)' = Has(o) /\ NonTemp(o)' = NonTemp(o)
      BY <1>2 DEF Has, NonTemp
<1> QED
    BY <1>2, <1>3 DEF ClientOrder

(* While nothing is promoted a client has its permanent commits.           *)
LEMMA HasNonTemp == \A c : Stack(c) = <<>> => Has(c) = NonTemp(c)
BY NoStack DEF Has, NonTemp

LEMMA OrderStep ==
    /\ TypeOK /\ TypeOK' /\ GraphInv /\ SaveInv /\ OrderInv /\ [Next]_vars => OrderInv'
<1> SUFFICES ASSUME TypeOK, TypeOK', GraphInv, SaveInv, OrderInv, [Next]_vars PROVE OrderInv'
    OBVIOUS
<1> USE NoClientAssumption
<1>i. HandlerInv /\ failed = {} /\ InOrder(repo) /\ \A c \in Client : ClientOrder(c)
      BY DEF OrderInv, GraphInv
<1>q. /\ IsQueue(repo) /\ IsQueue(agenda) /\ promoting \in Seq(Promotion)
      /\ \A c \in Client : /\ IsQueue(storeQueue[c]) /\ IsQueue(inbox[c])
                           /\ IsQueue(unsyncedCommits[c])
                           /\ storeQueue[c] # <<>> => IsQueue(Head(storeQueue[c]))
                           /\ inbox[c] # <<>> => IsQueue(Head(inbox[c]))
      BY Queues DEF TypeOK
(* The steps of a handler c that was running, or starts.                   *)
<1>h. ASSUME NEW c \in Client, running \in {c, NoClient}, running' \in {c, NoClient},
             open' = open, failed' = failed, repo' = repo,
             \A o \in Client \ {c} :
                /\ commits'[o] = commits[o] /\ tempCommits'[o] = tempCommits[o]
                /\ allHeadRefs'[o] = allHeadRefs[o] /\ nonTempHeadRefs'[o] = nonTempHeadRefs[o]
                /\ storeQueue'[o] = storeQueue[o] /\ unsyncedCommits'[o] = unsyncedCommits[o]
                /\ inbox'[o] = inbox[o],
             ClientOrder(c)'
      PROVE  OrderInv'
  <2>1. ASSUME NEW o \in Client PROVE ClientOrder(o)'
    <3>1. CASE o = c
          BY <3>1, <1>h
    <3>2. CASE o # c
          BY <3>2, <1>h, <1>i, OrderOther
    <3> QED
        BY <3>1, <3>2
  <2> QED
      BY <2>1, <1>h, <1>i DEF OrderInv
(* A client that runs has a tab.                                           *)
<1>r. \A c \in Client : running = c => c \in open
      BY DEF SaveInv, ClosedOK
<1>1. ASSUME NEW c \in Client, Open(c) PROVE OrderInv'
  <2>1. /\ UNCHANGED <<memory, handler, failed, storeQueue, repo>> /\ running = NoClient
        /\ inbox'[c] = <<repo>> /\ \A o \in Client \ {c} : inbox'[o] = inbox[o]
        /\ open' = open \cup {c}
        BY <1>1 DEF Open, TypeOK
  <2>2. ASSUME NEW o \in Client \ {c} PROVE ClientOrder(o)'
        BY <2>1, <2>2, <1>i, OrderOther DEF memory, handler
  <2>3. ClientOrder(c)'
    <3>1. /\ Stack(c)' = Stack(c) /\ Agenda(c)' = <<>> /\ RepoRefs' = RepoRefs
          /\ RepoRefs = Elements(repo) /\ NonTemp(c)' = NonTemp(c)
          BY <2>1 DEF Stack, Agenda, RepoRefs, NonTemp, memory, handler
    <3>2. InOK({}, Elements(repo), <<>>, <<repo>>)
          BY <1>i, InOpen DEF InOrder
    <3>3. InOK(Has(c)', RepoRefs', Agenda(c)', inbox'[c])
          BY <2>1, <3>1, <3>2, InMore
    <3> QED
        BY <2>1, <3>1, <3>3, <1>i DEF ClientOrder, memory
  <2> QED
      BY <2>1, <2>2, <2>3, <1>i DEF OrderInv
<1>2. ASSUME NEW c \in Client, Crash(c) PROVE OrderInv'
  <2>1. /\ running = NoClient /\ UNCHANGED <<handler, repo>> /\ failed' = {} /\ c \notin open'
        /\ commits'[c] = {} /\ tempCommits'[c] = {} /\ allHeadRefs'[c] = {}
        /\ nonTempHeadRefs'[c] = {} /\ storeQueue'[c] = <<>> /\ unsyncedCommits'[c] = <<>>
        BY <1>2, <1>i DEF Crash, TypeOK
  <2>2. ASSUME NEW o \in Client \ {c} PROVE ClientOrder(o)'
        BY <1>2, <2>1, <2>2, <1>i, OrderOther DEF Crash, handler, TypeOK
  <2>3. Stack(c)' = <<>>
        BY <2>1 DEF Stack, handler
  <2>4. ClientOrder(c)'
        BY <2>1, <2>3, EmptyGraph, NoQueue DEF ClientOrder
  <2> QED
      BY <2>1, <2>2, <2>4, <1>i DEF OrderInv
(* A handler starts: only its calls, and the events that wait, change.     *)
<1>s. ASSUME NEW c \in Client, running = NoClient, running' = c, c \in open,
             UNCHANGED <<memory, promoting, open, failed, storeQueue, repo>>,
             \A o \in Client \ {c} : inbox'[o] = inbox[o],
             InOK(Has(c), RepoRefs, <<>>, inbox[c]) =>
                 InOK(Has(c), RepoRefs, agenda', inbox'[c])
      PROVE  OrderInv'
  <2>1. /\ Stack(c) = <<>> /\ Stack(c)' = <<>> /\ Agenda(c) = <<>> /\ Agenda(c)' = agenda'
        /\ RepoRefs' = RepoRefs
        BY <1>s, <1>i DEF Stack, Agenda, RepoRefs, HandlerInv
  <2>2. Has(c)' = Has(c) /\ NonTemp(c)' = NonTemp(c)
        BY <2>1, <1>s DEF Has, NonTemp, memory
  <2>3. ClientOrder(c)'
        BY <2>1, <2>2, <1>s, <1>i DEF ClientOrder, memory
  <2> QED
      BY <2>3, <1>s, <1>h DEF memory
<1>3. ASSUME NEW c \in Client, NEW d \in DeltaOf(c), UpdateDoc(c, d) PROVE OrderInv'
  <2> DEFINE p == <<NewCommit(EditRef(lastSavedDoc[c], d), FALSE)>>
  <2>1. /\ running = NoClient /\ running' = c /\ c \in open /\ agenda' = p \o Finish
        /\ UNCHANGED <<memory, promoting, open, failed, store>>
        BY <1>3 DEF UpdateDoc
  <2>2. IsQueue(p) /\ Quiet(p)
        BY QuietCalls
  <2> HIDE DEF p
  <2>3. ASSUME InOK(Has(c), RepoRefs, <<>>, inbox[c])
        PROVE  InOK(Has(c), RepoRefs, agenda', inbox[c])
    <3>1. InOK(Has(c), RepoRefs, Finish, inbox[c])
          BY <2>3, InFinish
    <3> QED
        BY <2>1, <2>2, <3>1, InPlan, FinishCalls
  <2> QED
      BY <2>1, <2>3, <1>s DEF store
<1>4. ASSUME NEW c \in Client, OnCommits(c) PROVE OrderInv'
  <2>1. /\ running = NoClient /\ running' = c /\ c \in open /\ inbox[c] # <<>>
        /\ UNCHANGED <<memory, promoting, open, failed, storeQueue, repo>>
        /\ inbox'[c] = Tail(inbox[c]) /\ \A o \in Client \ {c} : inbox'[o] = inbox[o]
        /\ agenda' = [n \in DOMAIN Head(inbox[c]) |-> External(Head(inbox[c])[n])] \o Finish
        BY <1>4 DEF OnCommits, tabs, TypeOK
  <2>2. ASSUME InOK(Has(c), RepoRefs, <<>>, inbox[c])
        PROVE  InOK(Has(c), RepoRefs, agenda', inbox'[c])
        BY <2>1, <2>2, <1>q, InDeliver
  <2> QED
      BY <2>1, <2>2, <1>s
(* Of the client that runs.                                                *)
<1>c. ASSUME NEW c \in Client, running = c
      PROVE  /\ GraphOK(commits[c], tempCommits[c], allHeadRefs[c], nonTempHeadRefs[c], promoting)
             /\ InBatches(storeQueue[c]) \cup Elements(unsyncedCommits[c]) \subseteq NonTemp(c)
             /\ OutOK(RepoRefs, storeQueue[c], unsyncedCommits[c])
             /\ InOK(Has(c), RepoRefs, agenda, inbox[c])
             /\ c \in open /\ Has(c) = {r \in commits[c] : r \notin tempCommits[c] \/ Mentions(promoting, r)}
             /\ promoting = <<>> => Has(c) = NonTemp(c)
      BY <1>c, <1>i, <1>r, HasNonTemp DEF ClientOrder, Stack, Agenda, Has
(* It makes a call, or a promotion, that sends nothing.                    *)
<1>g. ASSUME NEW c \in Client, running = c, running' = c,
             UNCHANGED <<unsyncedCommits, tabs, store>>,
             \A o \in Client \ {c} :
                /\ commits'[o] = commits[o] /\ tempCommits'[o] = tempCommits[o]
                /\ allHeadRefs'[o] = allHeadRefs[o] /\ nonTempHeadRefs'[o] = nonTempHeadRefs[o],
             GraphOK(commits'[c], tempCommits'[c], allHeadRefs'[c], nonTempHeadRefs'[c], promoting'),
             NonTemp(c) \subseteq NonTemp(c)',
             InOK(Has(c)', RepoRefs, agenda', inbox[c])
      PROVE  OrderInv'
  <2>1. /\ Stack(c)' = promoting' /\ Agenda(c)' = agenda' /\ RepoRefs' = RepoRefs
        BY <1>g DEF Stack, Agenda, RepoRefs, store
  <2>2. ClientOrder(c)'
        BY <2>1, <1>c, <1>g DEF ClientOrder, store
  <2> QED
      BY <2>2, <1>g, <1>h DEF tabs, store
<1>5. ASSUME NEW c \in Client, UpdateCommitFromRemote(c) PROVE OrderInv'
  <2> DEFINE r == Head(agenda).ref
  <2>1. /\ running = c /\ running' = c /\ promoting = <<>> /\ agenda # <<>>
        /\ r \in commits[c] /\ agenda' = Tail(agenda)
        /\ promoting' = IF r \in tempCommits[c] THEN <<[op |-> "promote", ref |-> r]>> ELSE <<>>
        /\ UNCHANGED <<memory, tabs, store>>
        BY <1>5 DEF UpdateCommitFromRemote, NextCall
  <2>2. Has(c) \subseteq Has(c)' /\ r \in Has(c)'
    <3>1. Has(c)' = {x \in commits[c] : x \notin tempCommits[c] \/ Mentions(promoting', x)}
          BY <2>1 DEF Has, Stack, memory
    <3>2. r \in tempCommits[c] => Mentions(promoting', r)
      <4> DEFINE s == <<[op |-> "promote", ref |-> r]>>
      <4>1. 1 \in DOMAIN s /\ s[1].ref = r
            OBVIOUS
      <4> HIDE DEF s
      <4>2. Mentions(s, r)
            BY <4>1 DEF Mentions
      <4> QED
          BY <2>1, <4>2 DEF s
    <3> QED
        BY <2>1, <3>1, <3>2, <1>c DEF NonTemp
  <2>3. InOK(Has(c)', RepoRefs, agenda', inbox[c])
        BY <2>1, <2>2, <1>c, <1>q, InTask
  <2>4. GraphOK(commits[c], tempCommits[c], allHeadRefs[c], nonTempHeadRefs[c], promoting')
        BY <2>1, <1>c, StartGraph
  <2> QED
      BY <2>1, <2>3, <2>4, <1>g DEF memory, NonTemp
<1>6. ASSUME NEW c \in Client, AddExternalCommit(c) PROVE OrderInv'
  <2> DEFINE r == Head(agenda).ref
  <2>1. /\ running = c /\ running' = c /\ promoting = <<>> /\ promoting' = <<>> /\ agenda # <<>>
        /\ Head(agenda).op = "external" /\ r \notin commits[c] /\ agenda' = Tail(agenda)
        /\ UNCHANGED <<unsyncedCommits, tabs, store>>
        /\ commits'[c] = (commits[c] \ tempCommits[c]) \cup {r} /\ tempCommits'[c] = {}
        /\ allHeadRefs'[c] = AddHead(nonTempHeadRefs[c], r)
        /\ nonTempHeadRefs'[c] = AddHead(nonTempHeadRefs[c], r)
        /\ \A o \in Client \ {c} :
              /\ commits'[o] = commits[o] /\ tempCommits'[o] = tempCommits[o]
              /\ allHeadRefs'[o] = allHeadRefs[o] /\ nonTempHeadRefs'[o] = nonTempHeadRefs[o]
        BY <1>6 DEF AddExternalCommit, NextCall, RolledBack, TypeOK
  <2>2. /\ NonTemp(c)' = NonTemp(c) \cup {r} /\ Has(c)' = NonTemp(c) \cup {r}
        /\ Has(c) = NonTemp(c)
        BY <2>1, <1>c DEF Has, NonTemp
  <2>3. InOK(Has(c)', RepoRefs, agenda', inbox[c]) /\ Parents(r) \subseteq Has(c)
    <3>1. InOK(Has(c), RepoRefs, agenda, inbox[c])
          BY <2>1, <1>c
    <3>2. Has(c) \subseteq Has(c)' /\ r \in Has(c)'
          BY <2>2
    <3> QED
        BY <2>1, <3>1, <3>2, <1>q, InTask
  <2>4. GraphOK(commits'[c], tempCommits'[c], allHeadRefs'[c], nonTempHeadRefs'[c], promoting')
    <3>1. Parents(r) \subseteq commits[c] \ tempCommits[c]
          BY <2>2, <2>3 DEF NonTemp
    <3>2. GraphOK(commits[c], tempCommits[c], allHeadRefs[c], nonTempHeadRefs[c], <<>>)
          BY <2>1, <1>c
    <3> HIDE DEF r
    <3> QED
        BY <2>1, <3>1, <3>2, ExternalGraph
  <2> QED
      BY <2>1, <2>2, <2>3, <2>4, <1>g
(* A base is never missing: the parents of what arrives are permanent.     *)
<1>7. ASSUME NEW c \in Client, AddExternalCommitThrows(c) PROVE OrderInv'
  <2> DEFINE r == Head(agenda).ref
  <2>1. /\ running = c /\ promoting = <<>> /\ agenda # <<>>
        /\ Head(agenda).op = "external" /\ ~CanResolve(c, r)
        BY <1>7 DEF AddExternalCommitThrows, NextCall
  <2>2. Parents(r) \subseteq NonTemp(c)
    <3>1. InOK(Has(c), RepoRefs, agenda, inbox[c]) /\ Has(c) = NonTemp(c)
          BY <2>1, <1>c
    <3>2. Has(c) \subseteq Has(c) \cup {r} /\ r \in Has(c) \cup {r}
          OBVIOUS
    <3>3. Parents(r) \subseteq Has(c)
          BY <2>1, <3>1, <3>2, <1>q, InTask
    <3> QED
        BY <3>1, <3>3
  <2>3. BaseOf(r) = NoRef \/ BaseOf(r) \in NonTemp(c)
        BY <2>2 DEF Parents
  <2> QED
      BY <2>1, <2>3 DEF CanResolve, RolledBack, NonTemp
<1>8. ASSUME NEW c \in Client, SkipNewCommit(c) PROVE OrderInv'
  <2>1. /\ running = c /\ running' = c /\ promoting' = promoting /\ agenda # <<>>
        /\ Head(agenda).op # "external" /\ agenda' = Tail(agenda)
        /\ UNCHANGED <<memory, tabs, store>>
        BY <1>8 DEF SkipNewCommit, NextCall
  <2>2. Has(c)' = Has(c) /\ NonTemp(c)' = NonTemp(c)
        BY <2>1 DEF Has, Stack, NonTemp, memory
  <2>3. InOK(Has(c)', RepoRefs, agenda', inbox[c])
        BY <2>1, <2>2, <1>c, <1>q, InTask
  <2> QED
      BY <2>1, <2>2, <2>3, <1>c, <1>g DEF memory
<1>9. ASSUME NEW c \in Client, AddNewCommit(c) PROVE OrderInv'
  <2> DEFINE r == Head(agenda).ref
             temp == Head(agenda).op = "temp"
  <2>1. /\ running = c /\ running' = c /\ agenda # <<>> /\ promoting = <<>>
        /\ Head(agenda).op # "external" /\ r \notin commits[c] /\ Parents(r) \subseteq commits[c]
        /\ agenda' = Tail(agenda)
        /\ UNCHANGED <<nonTempHeadRefs, unsyncedCommits, tabs, store>>
        /\ commits'[c] = commits[c] \cup {r}
        /\ allHeadRefs'[c] = AddHead(allHeadRefs[c], r)
        /\ tempCommits'[c] = IF temp THEN tempCommits[c] \cup {r} ELSE tempCommits[c]
        /\ promoting' = IF temp THEN <<>> ELSE PromoteParents(r)
        /\ \A o \in Client \ {c} : /\ commits'[o] = commits[o] /\ tempCommits'[o] = tempCommits[o]
                                   /\ allHeadRefs'[o] = allHeadRefs[o]
        BY <1>9 DEF AddNewCommit, NextCall, TypeOK
  <2>2. tempCommits[c] \subseteq commits[c]
        BY <2>1, <1>c DEF GraphOK, CommitsOK
  <2>3. NonTemp(c) \subseteq NonTemp(c)' /\ NonTemp(c)' \subseteq Has(c)'
        BY <2>1, <2>2 DEF NonTemp, Has
  <2>4. InOK(Has(c)', RepoRefs, agenda', inbox[c])
    <3>1. Has(c) \subseteq Has(c)'
          BY <2>1, <2>3, <1>c
    <3> QED
        BY <2>1, <3>1, <1>c, <1>q, InTask
  <2>5. GraphOK(commits'[c], tempCommits'[c], allHeadRefs'[c], nonTempHeadRefs[c], promoting')
    <3>1. GraphOK(commits[c], tempCommits[c], allHeadRefs[c], nonTempHeadRefs[c], <<>>)
          BY <2>1, <1>c
    <3> HIDE DEF r, temp
    <3>2. CASE temp
          BY <2>1, <3>1, <3>2, TempGraph
    <3>3. CASE ~temp
          BY <2>1, <3>1, <3>3, LocalGraph
    <3> QED
        BY <3>2, <3>3
  <2> QED
      BY <2>1, <2>3, <2>4, <2>5, <1>g
<1>10. ASSUME NEW c \in Client, PromoteTempCommit(c) PROVE OrderInv'
  <2> DEFINE r == Head(promoting).ref
  <2>1. /\ running = c /\ running' = c /\ promoting # <<>> /\ Head(promoting).op = "promote"
        /\ r \in tempCommits[c] /\ r \in CommitRefs /\ agenda' = agenda
        /\ promoting' = PromoteParents(r) \o Tail(promoting)
        /\ UNCHANGED <<memory, tabs, store>>
        BY <1>10 DEF PromoteTempCommit, NextPromotion, TypeOK
  <2>2. Has(c) \subseteq Has(c)' /\ NonTemp(c)' = NonTemp(c)
        BY <1>10, <2>1, PromoteKeeps DEF Has, Stack, NonTemp, memory
  <2>3. InOK(Has(c)', RepoRefs, agenda', inbox[c])
        BY <2>1, <2>2, <1>c, InMore
  <2>4. GraphOK(commits[c], tempCommits[c], allHeadRefs[c], nonTempHeadRefs[c], promoting')
    <3>1. Head(promoting).ref = r
          OBVIOUS
    <3> HIDE DEF r
    <3> QED
        BY <2>1, <3>1, <1>c, <1>q, PromoteGraph
  <2> QED
      BY <2>1, <2>2, <2>3, <2>4, <1>g DEF memory
<1>11. ASSUME NEW c \in Client, PromotePermanentCommit(c) PROVE OrderInv'
  <2>1. /\ running = c /\ running' = c /\ promoting # <<>> /\ Head(promoting).op = "promote"
        /\ Head(promoting).ref \notin tempCommits[c] /\ agenda' = agenda
        /\ promoting' = Tail(promoting)
        /\ UNCHANGED <<commits, tempCommits, allHeadRefs, nonTempHeadRefs, unsyncedCommits,
                       tabs, store>>
        BY <1>11 DEF PromotePermanentCommit, NextPromotion
  <2>2. Has(c) \subseteq Has(c)' /\ NonTemp(c)' = NonTemp(c)
        BY <2>1, <1>q, TailStack DEF Has, Stack, NonTemp
  <2>3. InOK(Has(c)', RepoRefs, agenda', inbox[c])
        BY <2>1, <2>2, <1>c, InMore
  <2>4. GraphOK(commits[c], tempCommits[c], allHeadRefs[c], nonTempHeadRefs[c], promoting')
        BY <2>1, <1>c, <1>q, PermanentGraph
  <2> QED
      BY <2>1, <2>2, <2>3, <2>4, <1>g
<1>12. ASSUME NEW c \in Client, KeepCommit(c) PROVE OrderInv'
  <2> DEFINE r == Head(promoting).ref
  <2>1. /\ running = c /\ running' = c /\ promoting # <<>> /\ Head(promoting).op = "keep"
        /\ promoting' = Tail(promoting)
        /\ UNCHANGED <<commits, allHeadRefs, agenda, tabs, store>>
        /\ tempCommits'[c] = tempCommits[c] \ {r}
        /\ nonTempHeadRefs'[c] = AddHead(nonTempHeadRefs[c], r)
        /\ unsyncedCommits'[c] = Append(unsyncedCommits[c], r)
        /\ \A o \in Client \ {c} : /\ tempCommits'[o] = tempCommits[o]
                                   /\ nonTempHeadRefs'[o] = nonTempHeadRefs[o]
                                   /\ unsyncedCommits'[o] = unsyncedCommits[o]
        BY <1>12 DEF KeepCommit, NextPromotion, TypeOK
  <2>2. r # NoRef /\ r \in CommitRefs
    <3>1. Head(promoting) \in Promotion
          BY <2>1, <1>q, HeadTailType
    <3> QED
        BY <2>1, <3>1, KeepTask, NoRefAssumption DEF CommitRefs
  <2>3. /\ r \in commits[c] /\ Parents(r) \subseteq NonTemp(c)
        /\ \A p \in Parents(r) : ~Pending(promoting, p)
        /\ GraphOK(commits[c], tempCommits'[c], allHeadRefs[c], nonTempHeadRefs'[c], promoting')
    <3>1. PICK x : x = r
          OBVIOUS
    <3>2. Head(promoting).ref = x /\ x # NoRef /\ x \in CommitRefs
          BY <2>2, <3>1
    <3>3. GraphOK(commits[c], tempCommits[c], allHeadRefs[c], nonTempHeadRefs[c], promoting)
          BY <2>1, <1>c
    <3>4. promoting \in Seq(Promotion) /\ promoting # <<>> /\ Head(promoting).op = "keep"
          BY <2>1, <1>q
    <3>5. KeptOK(commits[c], tempCommits[c], allHeadRefs[c], nonTempHeadRefs[c], promoting, x)
          BY ONLY <3>2, <3>3, <3>4, KeepGraph
    <3> QED
        BY <2>1, <3>1, <3>5 DEF KeptOK, NonTemp
  <2>4. NonTemp(c)' = NonTemp(c) \cup {r}
        BY <2>1, <2>3 DEF NonTemp
  <2>5. Has(c) \subseteq Has(c)'
    <3>1. \A x : Mentions(promoting, x) => Mentions(Tail(promoting), x) \/ x = r
          BY <2>1, <1>q, TailStack
    <3> QED
        BY <2>1, <3>1 DEF Has, Stack
  <2>6. InOK(Has(c)', RepoRefs, agenda', inbox[c])
        BY <2>1, <2>5, <1>c, InMore
  <2>7. Parents(r) \subseteq RepoRefs \cup InBatches(storeQueue[c]) \cup Elements(unsyncedCommits[c])
    <3>1. SavedOK(c) /\ Stack(c) = promoting
          BY <2>1, <1>c, <1>i DEF SaveInv, Stack
    <3> QED
        BY <2>3, <3>1 DEF SavedOK
  <2>8. /\ OutOK(RepoRefs, storeQueue[c], unsyncedCommits'[c])
        /\ Elements(unsyncedCommits'[c]) = Elements(unsyncedCommits[c]) \cup {r}
        BY <2>1, <2>7, <1>c, <1>q, OutKeep
  <2>9. ClientOrder(c)'
    <3>1. Stack(c)' = promoting' /\ Agenda(c)' = agenda' /\ RepoRefs' = RepoRefs
          BY <2>1 DEF Stack, Agenda, RepoRefs, store
    <3> HIDE DEF r
    <3> QED
        BY <2>1, <2>3, <2>4, <2>6, <2>8, <3>1, <1>c DEF ClientOrder, store
  <2> QED
      BY <2>1, <2>9, <1>h DEF tabs, store
<1>13. ASSUME NEW c \in Client, MergeHeads(c) PROVE OrderInv'
  <2>1. PICK plan \in Seq(NewCommits) : agenda' = plan \o Tail(agenda)
        BY <1>13 DEF MergeHeads
  <2>2. /\ running = c /\ running' = c /\ promoting' = promoting /\ agenda # <<>>
        /\ Head(agenda).op = "mergeHeads" /\ UNCHANGED <<memory, tabs, store>>
        BY <1>13 DEF MergeHeads, NextCall
  <2>3. Has(c)' = Has(c) /\ NonTemp(c)' = NonTemp(c)
        BY <2>2 DEF Has, Stack, NonTemp, memory
  <2>4. InOK(Has(c), RepoRefs, Tail(agenda), inbox[c]) /\ IsQueue(Tail(agenda))
        BY <2>2, <1>c, <1>q, InTask, QueueTail
  <2>5. InOK(Has(c)', RepoRefs, agenda', inbox[c])
        BY <2>1, <2>3, <2>4, QuietCalls, InPlan
  <2> QED
      BY <2>2, <2>3, <2>5, <1>c, <1>g DEF memory
<1>14. ASSUME NEW c \in Client, ReadDoc(c) PROVE OrderInv'
  <2> DEFINE p == <<NewCommit(MigratedRef(lastSavedDoc[c]), TRUE)>>
  <2>1. /\ running = c /\ running' = c /\ promoting' = promoting /\ agenda # <<>>
        /\ Head(agenda).op = "readDoc" /\ agenda' \in {p \o agenda, Tail(agenda)}
        /\ UNCHANGED <<commits, tempCommits, allHeadRefs, nonTempHeadRefs, unsyncedCommits,
                       tabs, store>>
        BY <1>14 DEF ReadDoc, NextCall
  <2>2. Has(c)' = Has(c) /\ NonTemp(c)' = NonTemp(c)
        BY <2>1 DEF Has, Stack, NonTemp
  <2>3. IsQueue(p) /\ Quiet(p)
        BY QuietCalls
  <2> HIDE DEF p
  <2>4. InOK(Has(c), RepoRefs, p \o agenda, inbox[c])
        BY <2>1, <2>3, <1>c, <1>q, InPlan
  <2>5. InOK(Has(c), RepoRefs, Tail(agenda), inbox[c])
        BY <2>1, <1>c, <1>q, InTask
  <2>6. InOK(Has(c)', RepoRefs, agenda', inbox[c])
        BY <2>1, <2>2, <2>4, <2>5
  <2> QED
      BY <2>1, <2>2, <2>6, <1>c, <1>g
<1>15. ASSUME NEW c \in Client, Sync(c) PROVE OrderInv'
  <2>1. /\ running = c /\ running' = NoClient /\ promoting = <<>> /\ agenda # <<>>
        /\ Head(agenda).op = "sync"
        /\ UNCHANGED <<commits, tempCommits, allHeadRefs, nonTempHeadRefs, promoting, tabs,
                       repo, inbox>>
        BY <1>15 DEF Sync, NextCall
  <2>2. /\ Stack(c)' = promoting /\ Agenda(c)' = <<>> /\ RepoRefs' = RepoRefs
        /\ Has(c)' = Has(c) /\ NonTemp(c)' = NonTemp(c)
        BY <2>1, <1>c DEF Stack, Agenda, RepoRefs, Has, NonTemp
  <2>3. InOK(Has(c)', RepoRefs, <<>>, inbox[c])
    <3>1. InOK(Has(c), RepoRefs, agenda, inbox[c]) /\ Head(agenda).op # "external"
          BY <2>1, <1>c
    <3>2. InOK(Has(c), RepoRefs, Tail(agenda), inbox[c]) /\ Tail(agenda) = <<>>
          BY <2>1, <3>1, <1>q, InTask
    <3> QED
        BY <2>2, <3>2
  <2>4. /\ InBatches(storeQueue'[c]) \cup Elements(unsyncedCommits'[c]) \subseteq NonTemp(c)
        /\ OutOK(RepoRefs, storeQueue'[c], unsyncedCommits'[c])
    <3> DEFINE q == storeQueue[c]
               u == unsyncedCommits[c]
    <3>1. OutOK(RepoRefs, q, u) /\ InBatches(q) \cup Elements(u) \subseteq NonTemp(c) /\ IsQueue(q)
          BY <2>1, <1>c, <1>q
    <3>2. OutOK(RepoRefs, Append(q, u), <<>>) /\ InBatches(Append(q, u)) = InBatches(q) \cup Elements(u)
          BY ONLY <3>1, OutSync
    <3>3. \/ u = <<>> /\ storeQueue'[c] = q
          \/ storeQueue'[c] = Append(q, u)
          BY <1>15, SyncMoves
    <3>4. unsyncedCommits'[c] = <<>> /\ Elements(<<>>) = {}
          BY <1>15, SyncMoves, NoQueue
    <3> HIDE DEF q, u
    <3> QED
        BY <3>1, <3>2, <3>3, <3>4
  <2>5. ClientOrder(c)'
        BY <2>1, <2>2, <2>3, <2>4, <1>c DEF ClientOrder
  <2> QED
      BY <1>15, <2>1, <2>5, SyncMoves, <1>h DEF tabs
<1>16. ASSUME NEW c \in Client, SaveUpdate(c) PROVE OrderInv'
  <2> DEFINE batch == Head(storeQueue[c])
             added == Among(batch, {n \in DOMAIN batch : batch[n] \notin Elements(repo)})
  <2>1. /\ running = NoClient /\ c \in open /\ storeQueue[c] # <<>>
        /\ UNCHANGED <<commits, tempCommits, allHeadRefs, nonTempHeadRefs, unsyncedCommits,
                       running, agenda, promoting, open, failed>>
        /\ storeQueue'[c] = Tail(storeQueue[c])
        /\ \A o \in Client \ {c} : storeQueue'[o] = storeQueue[o]
        /\ \A o \in Client : inbox'[o] = IF o \in open \ {c} THEN Append(inbox[o], batch) ELSE inbox[o]
        BY <1>16 DEF SaveUpdate, handler, tabs, TypeOK
  <2>2. repo' = repo \o added /\ RepoRefs' = RepoRefs \cup Elements(batch)
        BY <1>16, SaveRefs
  <2>3. \A o \in Client : /\ Stack(o)' = Stack(o) /\ Agenda(o)' = <<>> /\ Agenda(o) = <<>>
                          /\ NonTemp(o)' = NonTemp(o) /\ Has(o)' = Has(o)
        BY <2>1 DEF Stack, Agenda, NonTemp, Has
  <2>4. /\ \A n \in DOMAIN batch : Parents(batch[n]) \subseteq RepoRefs \cup Earlier(batch, n)
        /\ OutOK(RepoRefs', Tail(storeQueue[c]), unsyncedCommits[c])
    <3>1. OutOK(RepoRefs, storeQueue[c], unsyncedCommits[c]) /\ IsQueue(storeQueue[c])
          BY <1>i, <1>q DEF ClientOrder
    <3>2. RepoRefs \subseteq RepoRefs' /\ Elements(batch) \subseteq RepoRefs'
          BY <2>2
    <3> QED
        BY <2>1, <3>1, <3>2, OutSave
  <2>5. InOrder(repo')
    <3>1. \A n \in DOMAIN (repo \o added) :
              Parents((repo \o added)[n]) \subseteq Earlier(repo \o added, n)
          BY <2>1, <2>4, <1>i, <1>q, RepoAdds DEF InOrder, RepoRefs
    <3> HIDE DEF added
    <3> QED
        BY <2>2, <3>1 DEF InOrder
  <2> HIDE DEF added
  <2>6. ASSUME NEW o \in Client \ {c} PROVE ClientOrder(o)'
    <3>1. OutOK(RepoRefs', storeQueue[o], unsyncedCommits[o])
          BY <2>2, <1>i, OutMore DEF ClientOrder
    <3>2. o \in open => InOK(Has(o), RepoRefs', <<>>, inbox'[o])
          BY <2>1, <2>2, <2>3, <2>4, <1>i, <1>q, InAppend DEF ClientOrder
    <3> QED
        BY <2>1, <2>3, <3>1, <3>2, <1>i DEF ClientOrder
  <2>7. ClientOrder(c)'
    <3>1. InBatches(storeQueue[c]) = Elements(batch) \cup InBatches(Tail(storeQueue[c]))
          BY <2>1, <1>q, EarlierTail
    <3>2. Elements(batch) \subseteq NonTemp(c) /\ NonTemp(c) \subseteq Has(c)
          BY <3>1, <1>i DEF ClientOrder, Has, NonTemp
    <3>3. InOK(Has(c), RepoRefs', <<>>, inbox[c])
          BY <2>1, <2>2, <2>3, <3>2, <1>i, InMore DEF ClientOrder
    <3> QED
        BY <2>1, <2>3, <2>4, <3>1, <3>3, <1>i DEF ClientOrder
  <2> QED
      BY <2>1, <2>5, <2>6, <2>7, <1>i DEF OrderInv
<1>17. ASSUME UNCHANGED vars PROVE OrderInv'
      BY <1>17 DEF vars, memory, handler, tabs, store, OrderInv, ClientOrder, Has, NonTemp,
                   RepoRefs, Stack, Agenda
<1> QED
    BY <1>1, <1>2, <1>3, <1>4, <1>5, <1>6, <1>7, <1>8, <1>9, <1>10, <1>11, <1>12,
       <1>13, <1>14, <1>15, <1>16, <1>17 DEF Next, Handler

LEMMA OrderInvariant == Spec /\ SeedsInOrder => [](TypeOK /\ GraphInv /\ SaveInv /\ OrderInv)
<1>1. TypeOK /\ GraphInv /\ SaveInv /\ OrderInv /\ [Next]_vars =>
          (TypeOK /\ GraphInv /\ SaveInv /\ OrderInv)'
      BY TypeStep, GraphStep, SaveStep, OrderStep
<1> QED
    BY <1>1, InitTypeOK, InitGraphInv, InitSave, InitOrder, PTL DEF Spec

(* A repository that holds parents first at the start always does, however *)
(* many tabs write to it and whichever of them crash: each sends a commit  *)
(* after its parents, or after another tab has.                            *)
THEOREM ParentsAreFirst == Spec /\ SeedsInOrder => []RepoParentsFirst
<1>1. TypeOK /\ OrderInv => RepoParentsFirst
  <2> SUFFICES ASSUME TypeOK, OrderInv, NEW n \in DOMAIN repo
               PROVE  Parents(repo[n]) \subseteq {repo[m] : m \in 1 .. n - 1}
      BY DEF RepoParentsFirst
  <2>1. Parents(repo[n]) \subseteq Earlier(repo, n)
        BY DEF OrderInv, InOrder
  <2>2. DOMAIN repo = 1 .. Len(repo) /\ Len(repo) \in Nat
        BY DEF TypeOK
  <2>3. \A k \in DOMAIN repo : k < n => k \in 1 .. n - 1
        BY <2>2
  <2> QED
      BY <2>1, <2>3 DEF Earlier
<1> QED
    BY <1>1, OrderInvariant, PTL

(* Then no handler throws: whatever the temp merges that an event rolls    *)
(* back, the parents of the commit that comes are permanent by then.       *)
THEOREM NothingFails == Spec /\ SeedsInOrder => []NoFailure
BY OrderInvariant, PTL DEF OrderInv, NoFailure

(* The two sets of heads are exactly the childless commits: with NoBranch- *)
(* IsLost no branch is missing, and here none is there twice.              *)
THEOREM HeadsAreChildless == Spec /\ SeedsInOrder => []HeadsExact
<1>1. TypeOK /\ GraphInv /\ OrderInv => HeadsExact
  <2> SUFFICES ASSUME TypeOK, GraphInv, OrderInv, Idle, NEW c \in Client \ failed
               PROVE  /\ allHeadRefs[c] = Childless(commits[c])
                      /\ nonTempHeadRefs[c] = Childless(NonTemp(c))
      BY DEF HeadsExact
  <2>1. promoting = <<>> /\ Stack(c) = <<>>
        BY NoClientAssumption DEF GraphInv, HandlerInv, Idle, Stack
  <2>2. /\ \A r \in allHeadRefs[c] : Follow(commits[c], r) = {}
        /\ \A r \in nonTempHeadRefs[c] : Follow(NonTemp(c), r) = {}
        BY <2>1, NoStack DEF OrderInv, ClientOrder, GraphOK, HeadsOK, NonTemp
  <2>3. /\ allHeadRefs[c] \subseteq commits[c] /\ nonTempHeadRefs[c] \subseteq NonTemp(c)
        /\ \A r \in commits[c] \ allHeadRefs[c] : \E x \in commits[c] : r \in Parents(x)
        /\ \A r \in NonTemp(c) \ nonTempHeadRefs[c] : \E x \in NonTemp(c) : r \in Parents(x)
        BY <2>1, StackEmpty DEF GraphInv, HeadsInv
  <2>4. \A C, r : r \in Childless(C) <=> r \in C /\ Follow(C, r) = {}
        BY DEF Childless, Follow
  <2>5. \A C, r : Follow(C, r) = {} <=> \A x \in C : r \notin Parents(x)
        BY DEF Follow
  <2>6. ASSUME NEW r PROVE r \in allHeadRefs[c] <=> r \in Childless(commits[c])
        BY <2>2, <2>3, <2>4, <2>5
  <2>7. ASSUME NEW r PROVE r \in nonTempHeadRefs[c] <=> r \in Childless(NonTemp(c))
        BY <2>2, <2>3, <2>4, <2>5
  <2> QED
      BY <2>6, <2>7
<1> QED
    BY <1>1, OrderInvariant, PTL

-----------------------------------------------------------------------------
(* One head.  What mergeAllBranches has to do for it: the addNewCommit     *)
(* calls it makes on the heads of a graph leave one head.  LeavesOneHead   *)
(* says so of the calls plan, made when the client has the commits known   *)
(* and the heads heads: h and k are the two after each call, as SkipNew-   *)
(* Commit and AddNewCommit change them.                                    *)

Single(S) == \A x, y \in S : x = y

IsReplay(plan, h, k) ==
    \A n \in DOMAIN plan :
        LET r == plan[n].ref
        IN  /\ k[n] = k[n - 1] \cup {r}
            /\ h[n] = IF r \in k[n - 1] THEN h[n - 1] ELSE AddHead(h[n - 1], r)

LeavesOneHead(heads, known, plan) ==
    \E h, k \in [0 .. Len(plan) -> SUBSET CommitRefs] :
        /\ h[0] = heads /\ k[0] = known
        /\ IsReplay(plan, h, k)
        /\ Single(h[Len(plan)])

(* A set of commits that is a graph: with their parents, and without a     *)
(* cycle.                                                                  *)
IsGraph(known) ==
    /\ known \subseteq CommitRefs /\ IsFiniteSet(known)
    /\ \A r \in known : Parents(r) \subseteq known
    /\ \E f : IsRank(f, known, <<>>)

(* README.md:72 of mergeAllBranches: "repeat until there is one head node".*)
PlansLeaveOneHead ==
    \A known : IsGraph(known) /\ ~(Cardinality(Childless(known)) <= 1) =>
        LeavesOneHead(Childless(known), known, PlanMerges(Childless(known), known))

(* Every document is of the current version: with other documents one head *)
(* is not what clients end with (the run old_branches).                    *)
NothingMigrates == \A r \in CommitRefs : MigratedRef(r) = r

LEMMA NoCalls ==
    ASSUME NEW heads \in SUBSET CommitRefs, NEW known \in SUBSET CommitRefs
    PROVE  LeavesOneHead(heads, known, <<>>) <=> Single(heads)
<1>1. Len(<<>>) = 0 /\ DOMAIN <<>> = {} /\ 0 .. 0 = {0}
      OBVIOUS
<1>2. ASSUME LeavesOneHead(heads, known, <<>>) PROVE Single(heads)
      BY <1>1, <1>2 DEF LeavesOneHead
<1>3. ASSUME Single(heads) PROVE LeavesOneHead(heads, known, <<>>)
  <2> DEFINE h == [n \in 0 .. 0 |-> heads]
             k == [n \in 0 .. 0 |-> known]
  <2>1. h \in [0 .. 0 -> SUBSET CommitRefs] /\ k \in [0 .. 0 -> SUBSET CommitRefs]
        OBVIOUS
  <2>2. h[0] = heads /\ k[0] = known
        OBVIOUS
  <2>3. IsReplay(<<>>, h, k)
        BY <1>1 DEF IsReplay
  <2> HIDE DEF h, k
  <2> QED
      BY <1>1, <1>3, <2>1, <2>2, <2>3 DEF LeavesOneHead
<1> QED
    BY <1>2, <1>3

LEMMA OneCall ==
    ASSUME NEW heads \in SUBSET CommitRefs, NEW known \in SUBSET CommitRefs,
           NEW plan \in Seq(NewCommits), plan # <<>>, LeavesOneHead(heads, known, plan)
    PROVE  LET r == Head(plan).ref
           IN  LeavesOneHead(IF r \in known THEN heads ELSE AddHead(heads, r),
                             known \cup {r}, Tail(plan))
<1> DEFINE r == Head(plan).ref
           len == Len(plan)
<1>1. PICK h, k \in [0 .. len -> SUBSET CommitRefs] :
          /\ h[0] = heads /\ k[0] = known
          /\ IsReplay(plan, h, k)
          /\ Single(h[len])
      BY DEF LeavesOneHead
<1>2. /\ len \in Nat \ {0} /\ DOMAIN plan = 1 .. len /\ Head(plan) = plan[1]
      /\ Len(Tail(plan)) = len - 1 /\ DOMAIN Tail(plan) = 1 .. len - 1
      /\ \A n \in 1 .. len - 1 : Tail(plan)[n] = plan[n + 1]
      OBVIOUS
<1> DEFINE h1 == [n \in 0 .. len - 1 |-> h[n + 1]]
           k1 == [n \in 0 .. len - 1 |-> k[n + 1]]
<1> HIDE DEF len
<1>3. \A n \in 0 .. len - 1 : n + 1 \in 0 .. len /\ n + 1 \in DOMAIN plan /\ n + 1 - 1 = n
      BY <1>2
<1>4. /\ h1 \in [0 .. len - 1 -> SUBSET CommitRefs] /\ k1 \in [0 .. len - 1 -> SUBSET CommitRefs]
      BY <1>1, <1>3
<1>5. /\ \A n \in 0 .. len - 1 : h1[n] = h[n + 1] /\ k1[n] = k[n + 1]
      BY <1>3
<1>6. /\ 0 \in 0 .. len - 1 /\ len - 1 \in 0 .. len - 1 /\ 0 + 1 = 1 /\ len - 1 + 1 = len
      BY <1>2
<1>7. /\ k1[0] = known \cup {r}
      /\ h1[0] = IF r \in known THEN heads ELSE AddHead(heads, r)
  <2>1. 1 \in DOMAIN plan /\ 1 - 1 = 0
        BY <1>2
  <2>2. /\ k[1] = k[1 - 1] \cup {r}
        /\ h[1] = IF r \in k[1 - 1] THEN h[1 - 1] ELSE AddHead(h[1 - 1], r)
        BY <1>1, <1>2, <2>1 DEF IsReplay
  <2> QED
      BY <1>1, <1>5, <1>6, <2>1, <2>2
<1>8. Single(h1[len - 1])
      BY <1>1, <1>5, <1>6
<1> HIDE DEF h1, k1
<1>9. IsReplay(Tail(plan), h1, k1)
  <2> SUFFICES ASSUME NEW n \in DOMAIN Tail(plan)
               PROVE  LET s == Tail(plan)[n].ref
                      IN  /\ k1[n] = k1[n - 1] \cup {s}
                          /\ h1[n] = IF s \in k1[n - 1] THEN h1[n - 1] ELSE AddHead(h1[n - 1], s)
      BY DEF IsReplay
  <2> DEFINE s == plan[n + 1].ref
  <2>1. /\ n \in 0 .. len - 1 /\ n - 1 \in 0 .. len - 1 /\ n - 1 + 1 = n /\ n + 1 - 1 = n
        /\ Tail(plan)[n] = plan[n + 1] /\ n + 1 \in DOMAIN plan
        BY <1>2
  <2>2. /\ k[n + 1] = k[n + 1 - 1] \cup {s}
        /\ h[n + 1] = IF s \in k[n + 1 - 1] THEN h[n + 1 - 1] ELSE AddHead(h[n + 1 - 1], s)
        BY <1>1, <2>1 DEF IsReplay
  <2>3. h1[n] = h[n + 1] /\ k1[n] = k[n + 1] /\ h1[n - 1] = h[n] /\ k1[n - 1] = k[n]
        BY <1>5, <2>1
  <2> HIDE DEF s
  <2>4. k1[n] = k1[n - 1] \cup {s} /\ h1[n] = IF s \in k1[n - 1] THEN h1[n - 1] ELSE AddHead(h1[n - 1], s)
        BY <2>1, <2>2, <2>3
  <2> QED
      BY <2>1, <2>4 DEF s
<1> QED
    BY <1>2, <1>4, <1>7, <1>8, <1>9 DEF LeavesOneHead

-----------------------------------------------------------------------------
(* Where a handler is in its calls: before mergeHeads, among the calls     *)
(* mergeHeads makes, or after them.                                        *)

CommitCalls == [op : {"external", "temp", "local"}, ref : CommitRefs]

ReadAndSync == <<Call("readDoc"), Call("sync")>>

Merges(calls, heads, known) ==
    \/ \E s \in Seq(CommitCalls) : calls = s \o Finish
    \/ \E plan \in Seq(NewCommits) :
          calls = plan \o ReadAndSync /\ LeavesOneHead(heads, known, plan)
    \/ calls = <<Call("sync")>> /\ Single(heads)

(* The doc on screen, and the one that a rollback goes back to, are docs   *)
(* of commits that the client has, then.                                   *)
DocsKnown(c) ==
    /\ lastSavedDoc[c] \in commits[c] \cup {NoRef}
    /\ lastNonTempDoc[c] \in NonTemp(c) \cup {NoRef}

OneHeadInv ==
    /\ \A c \in Client : IsFiniteSet(commits[c]) /\ DocsKnown(c)
    /\ \A c \in Client \ {running} : Single(allHeadRefs[c])
    /\ running # NoClient => Merges(agenda, allHeadRefs[running], commits[running])

LEMMA TailConcat ==
    ASSUME NEW S, NEW s \in Seq(S), NEW T, NEW t \in Seq(T), s # <<>>
    PROVE  /\ Head(s \o t) = Head(s) /\ Head(s) \in S
           /\ Tail(s \o t) = Tail(s) \o t /\ Tail(s) \in Seq(S)
OBVIOUS

LEMMA CallShapes ==
    /\ Finish \in Seq(Task) /\ Finish # <<>> /\ Head(Finish).op = "mergeHeads"
    /\ Tail(Finish) = ReadAndSync
    /\ ReadAndSync \in Seq(Task) /\ ReadAndSync # <<>> /\ Head(ReadAndSync).op = "readDoc"
    /\ Tail(ReadAndSync) = <<Call("sync")>> /\ Head(<<Call("sync")>>).op = "sync"
    /\ \A t \in Seq(Task) : <<>> \o t = t
    /\ NewCommits \subseteq CommitCalls
    /\ \A x \in CommitCalls : x.op \in {"external", "temp", "local"} /\ x.ref \in CommitRefs
    /\ \A x \in NewCommits : x.op \in {"temp", "local"} /\ x.ref \in CommitRefs
<1>1. /\ Finish \in Seq(Task) /\ ReadAndSync \in Seq(Task)
      BY FinishType DEF ReadAndSync, Call, Task
<1>2. /\ Finish # <<>> /\ Head(Finish).op = "mergeHeads"
      /\ Tail(Finish) = ReadAndSync
      BY DEF Finish, ReadAndSync, Call
<1>3. /\ ReadAndSync # <<>> /\ Head(ReadAndSync).op = "readDoc"
      /\ Tail(ReadAndSync) = <<Call("sync")>> /\ Head(<<Call("sync")>>).op = "sync"
      BY DEF ReadAndSync, Call
<1>4. \A t \in Seq(Task) : <<>> \o t = t
      OBVIOUS
<1>5. /\ NewCommits \subseteq CommitCalls
      /\ \A x \in CommitCalls : x.op \in {"external", "temp", "local"} /\ x.ref \in CommitRefs
      /\ \A x \in NewCommits : x.op \in {"temp", "local"} /\ x.ref \in CommitRefs
      BY DEF NewCommits, CommitCalls
<1> QED
    BY <1>1, <1>2, <1>3, <1>4, <1>5

(* What the next call tells of the calls that are left.                    *)
LEMMA NextOfMerges ==
    ASSUME NEW calls, NEW heads \in SUBSET CommitRefs, NEW known \in SUBSET CommitRefs,
           Merges(calls, heads, known)
    PROVE  /\ Head(calls).op = "external" =>
                  \E s \in Seq(CommitCalls) : Tail(calls) = s \o Finish
           /\ Head(calls).op \in {"temp", "local"} =>
                 LET r == Head(calls).ref
                     after == IF r \in known THEN heads ELSE AddHead(heads, r)
                 IN  Merges(Tail(calls), after, known \cup {r})
           /\ Head(calls).op = "mergeHeads" => Tail(calls) = ReadAndSync
           /\ Head(calls).op = "readDoc" => Tail(calls) = <<Call("sync")>> /\ Single(heads)
           /\ Head(calls).op = "sync" => Single(heads)
<1>1. CASE \E s \in Seq(CommitCalls) : calls = s \o Finish
  <2>1. PICK s \in Seq(CommitCalls) : calls = s \o Finish
        BY <1>1
  <2>2. CASE s = <<>>
    <3>1. calls = Finish
          BY <2>1, <2>2, CallShapes
    <3> QED
        BY <3>1, CallShapes
  <2>3. CASE s # <<>>
    <3>1. /\ Head(calls) \in CommitCalls
          /\ Tail(calls) = Tail(s) \o Finish /\ Tail(s) \in Seq(CommitCalls)
          BY <2>1, <2>3, TailConcat, CallShapes
    <3>2. Head(calls).op \in {"external", "temp", "local"}
          BY <3>1, CallShapes
    <3> QED
        BY <3>1, <3>2 DEF Merges
  <2> QED
      BY <2>2, <2>3
<1>2. CASE \E plan \in Seq(NewCommits) :
              calls = plan \o ReadAndSync /\ LeavesOneHead(heads, known, plan)
  <2>1. PICK plan \in Seq(NewCommits) :
            calls = plan \o ReadAndSync /\ LeavesOneHead(heads, known, plan)
        BY <1>2
  <2>2. CASE plan = <<>>
    <3>1. calls = ReadAndSync /\ Single(heads)
          BY <2>1, <2>2, CallShapes, NoCalls
    <3> QED
        BY <3>1, CallShapes
  <2>3. CASE plan # <<>>
    <3>1. /\ Head(calls) = Head(plan) /\ Head(calls) \in NewCommits
          /\ Tail(calls) = Tail(plan) \o ReadAndSync /\ Tail(plan) \in Seq(NewCommits)
      <4>1. ReadAndSync \in Seq(Task) /\ calls = plan \o ReadAndSync
            BY <2>1, CallShapes
      <4> QED
          BY <4>1, <2>3, TailConcat
    <3>2. Head(calls).op \in {"temp", "local"}
          BY <3>1, CallShapes
    <3>3. LET r == Head(calls).ref
          IN  LeavesOneHead(IF r \in known THEN heads ELSE AddHead(heads, r),
                            known \cup {r}, Tail(plan))
          BY <2>1, <2>3, <3>1, OneCall
    <3> QED
        BY <3>1, <3>2, <3>3 DEF Merges
  <2> QED
      BY <2>2, <2>3
<1>3. CASE calls = <<Call("sync")>> /\ Single(heads)
      BY <1>3, CallShapes
<1> QED
    BY <1>1, <1>2, <1>3 DEF Merges

LEMMA PairHasTwo ==
    ASSUME NEW x, NEW y, x # y
    PROVE  Cardinality({x, y}) = 2
<1>1. Cardinality({x}) = 1 /\ IsFiniteSet({x}) /\ {x, y} = {x} \cup {y} /\ y \notin {x}
      BY FS_Singleton
<1>2. Cardinality({x} \cup {y}) = Cardinality({x}) + 1
      BY <1>1, FS_AddElement
<1> QED
    BY <1>1, <1>2

-----------------------------------------------------------------------------
LEMMA InitOneHead == Init => OneHeadInv
<1> SUFFICES ASSUME Init PROVE OneHeadInv
    OBVIOUS
<1>1. ASSUME NEW c \in Client
      PROVE  IsFiniteSet(commits[c]) /\ DocsKnown(c) /\ Single(allHeadRefs[c])
      BY FS_EmptySet DEF Init, DocsKnown, Single
<1> QED
    BY <1>1 DEF Init, OneHeadInv

(* mergeHeads is called with the childless commits of a graph.             *)
LEMMA MergeLeavesOneHead ==
    ASSUME TypeOK, GraphInv, OrderInv, OneHeadInv, PlansLeaveOneHead,
           NEW c \in Client, running = c, promoting = <<>>
    PROVE  LeavesOneHead(allHeadRefs[c], commits[c], MergePlan(c))
<1>1. /\ allHeadRefs[c] \in SUBSET CommitRefs /\ commits[c] \in SUBSET CommitRefs
      /\ IsFiniteSet(commits[c]) /\ allHeadRefs[c] \subseteq commits[c] /\ c \notin failed
      BY DEF TypeOK, OneHeadInv, GraphInv, HeadsInv, OrderInv
<1>2. GraphOK(commits[c], tempCommits[c], allHeadRefs[c], nonTempHeadRefs[c], promoting)
      BY DEF OrderInv, ClientOrder, Stack
<1>3. IsGraph(commits[c])
      BY <1>1, <1>2 DEF GraphOK, CommitsOK, IsGraph
<1>4. allHeadRefs[c] = Childless(commits[c])
  <2>1. \A r \in allHeadRefs[c] : Follow(commits[c], r) = {}
        BY <1>2 DEF GraphOK, HeadsOK
  <2>2. \A r \in commits[c] \ allHeadRefs[c] : \E x \in commits[c] : r \in Parents(x)
        BY <1>1 DEF GraphInv, HeadsInv
  <2>3. \A C, r : r \in Childless(C) <=> r \in C /\ Follow(C, r) = {}
        BY DEF Childless, Follow
  <2>4. \A C, r : Follow(C, r) = {} <=> \A x \in C : r \notin Parents(x)
        BY DEF Follow
  <2>5. ASSUME NEW r PROVE r \in allHeadRefs[c] <=> r \in Childless(commits[c])
        BY <1>1, <2>1, <2>2, <2>3, <2>4
  <2> QED
      BY <2>5
<1>5. CASE Cardinality(allHeadRefs[c]) <= 1
  <2>1. IsFiniteSet(allHeadRefs[c])
        BY <1>1, FS_Subset
  <2>2. Single(allHeadRefs[c])
    <3>1. ASSUME NEW x \in allHeadRefs[c], NEW y \in allHeadRefs[c], x # y PROVE FALSE
      <4>1. {x, y} \subseteq allHeadRefs[c]
            OBVIOUS
      <4>2. Cardinality({x, y}) = 2
            BY <3>1, PairHasTwo
      <4>3. Cardinality({x, y}) <= Cardinality(allHeadRefs[c])
            BY <2>1, <4>1, FS_Subset
      <4>4. Cardinality(allHeadRefs[c]) \in Nat
            BY <2>1, FS_CardinalityType
      <4> QED
          BY <1>5, <4>2, <4>3, <4>4
    <3> QED
        BY <3>1 DEF Single
  <2>3. MergePlan(c) = <<>>
        BY <1>5 DEF MergePlan
  <2> QED
      BY <1>1, <2>2, <2>3, NoCalls
<1>6. CASE ~(Cardinality(allHeadRefs[c]) <= 1)
  <2>1. MergePlan(c) = PlanMerges(allHeadRefs[c], commits[c])
        BY <1>6 DEF MergePlan
  <2> QED
      BY <1>3, <1>4, <1>6, <2>1 DEF PlansLeaveOneHead
<1> QED
    BY <1>5, <1>6

LEMMA OneHeadStep ==
    TypeOK /\ TypeOK' /\ GraphInv /\ OrderInv /\ OrderInv' /\ OneHeadInv
        /\ PlansLeaveOneHead /\ NothingMigrates /\ [Next]_vars => OneHeadInv'
<1> SUFFICES ASSUME TypeOK, TypeOK', GraphInv, OrderInv, OrderInv', OneHeadInv,
                    PlansLeaveOneHead, NothingMigrates, [Next]_vars
             PROVE  OneHeadInv'
    OBVIOUS
<1> USE NoClientAssumption, NoRefAssumption
<1>i. /\ HandlerInv /\ failed = {} /\ failed' = {}
      /\ \A c \in Client : /\ tempCommits[c] \subseteq commits[c] /\ IsFiniteSet(commits[c])
                           /\ DocsKnown(c) /\ (c # running => Single(allHeadRefs[c]))
                           /\ allHeadRefs[c] \in SUBSET CommitRefs
                           /\ commits[c] \in SUBSET CommitRefs
                           /\ running = c => Merges(agenda, allHeadRefs[c], commits[c])
      BY DEF GraphInv, HeadsInv, OrderInv, OneHeadInv, TypeOK
(* A step of one client: what is to be shown of it, and of the calls.      *)
<1>h. ASSUME NEW c \in Client, running \in {c, NoClient}, running' \in {c, NoClient},
             \A o \in Client \ {c} :
                /\ commits'[o] = commits[o] /\ tempCommits'[o] = tempCommits[o]
                /\ allHeadRefs'[o] = allHeadRefs[o] /\ lastSavedDoc'[o] = lastSavedDoc[o]
                /\ lastNonTempDoc'[o] = lastNonTempDoc[o],
             IsFiniteSet(commits'[c]), DocsKnown(c)',
             running' = NoClient => Single(allHeadRefs'[c]),
             running' = c => Merges(agenda', allHeadRefs'[c], commits'[c])
      PROVE  OneHeadInv'
  <2>1. ASSUME NEW o \in Client
        PROVE  /\ IsFiniteSet(commits'[o]) /\ DocsKnown(o)'
               /\ o # running' => Single(allHeadRefs'[o])
    <3>1. CASE o = c
          BY <3>1, <1>h
    <3>2. CASE o # c
          BY <3>2, <1>h, <1>i DEF DocsKnown, NonTemp
    <3> QED
        BY <3>1, <3>2
  <2> QED
      BY <2>1, <1>h DEF OneHeadInv
(* A step that leaves the commits, the heads and the docs of all clients.  *)
<1>u. ASSUME NEW c \in Client, running \in {c, NoClient}, running' \in {c, NoClient},
             UNCHANGED <<commits, tempCommits, allHeadRefs, lastSavedDoc, lastNonTempDoc>>,
             running' = NoClient => Single(allHeadRefs[c]),
             running' = c => Merges(agenda', allHeadRefs[c], commits[c])
      PROVE  OneHeadInv'
  <2>1. IsFiniteSet(commits'[c]) /\ DocsKnown(c)'
        BY <1>u, <1>i DEF DocsKnown, NonTemp
  <2> QED
      BY <2>1, <1>u, <1>h
<1>1. ASSUME NEW c \in Client, Open(c) PROVE OneHeadInv'
      BY <1>1, <1>i, <1>u DEF Open, memory, handler
<1>2. ASSUME NEW c \in Client, Crash(c) PROVE OneHeadInv'
  <2>1. /\ running = NoClient /\ running' = NoClient /\ commits'[c] = {} /\ tempCommits'[c] = {}
        /\ allHeadRefs'[c] = {} /\ lastSavedDoc'[c] = NoRef /\ lastNonTempDoc'[c] = NoRef
        BY <1>2 DEF Crash, handler, TypeOK
  <2>2. \A o \in Client \ {c} :
                /\ commits'[o] = commits[o] /\ tempCommits'[o] = tempCommits[o]
                /\ allHeadRefs'[o] = allHeadRefs[o] /\ lastSavedDoc'[o] = lastSavedDoc[o]
                /\ lastNonTempDoc'[o] = lastNonTempDoc[o]
        BY <1>2 DEF Crash, TypeOK
  <2>3. IsFiniteSet(commits'[c]) /\ DocsKnown(c)' /\ Single(allHeadRefs'[c])
        BY <2>1, FS_EmptySet DEF DocsKnown, Single
  <2> QED
      BY <2>1, <2>2, <2>3, <1>h
<1>3. ASSUME NEW c \in Client, NEW d \in DeltaOf(c), UpdateDoc(c, d) PROVE OneHeadInv'
  <2> DEFINE x == NewCommit(EditRef(lastSavedDoc[c], d), FALSE)
  <2>1. /\ running = NoClient /\ running' = c /\ agenda' = <<x>> \o Finish /\ UNCHANGED memory
        /\ EditRef(lastSavedDoc[c], d) \in CommitRefs
        BY <1>3 DEF UpdateDoc
  <2>2. x \in CommitCalls
        BY <2>1 DEF NewCommit, CommitCalls
  <2> HIDE DEF x
  <2>3. <<x>> \in Seq(CommitCalls)
        BY <2>2
  <2>4. Merges(agenda', allHeadRefs[c], commits[c])
        BY <2>1, <2>3 DEF Merges
  <2> QED
      BY <2>1, <2>4, <1>u DEF memory
<1>4. ASSUME NEW c \in Client, OnCommits(c) PROVE OneHeadInv'
  <2> DEFINE batch == Head(inbox[c])
             s == [n \in DOMAIN batch |-> External(batch[n])]
  <2>1. /\ running = NoClient /\ running' = c /\ agenda' = s \o Finish /\ UNCHANGED memory
        /\ inbox[c] # <<>> /\ inbox[c] \in Seq(Seq(CommitRefs))
        BY <1>4 DEF OnCommits, TypeOK
  <2>2. batch \in Seq(CommitRefs)
        BY <2>1
  <2> HIDE DEF batch
  <2>3. s \in Seq(CommitCalls)
    <3>1. \A n \in DOMAIN batch : External(batch[n]) \in CommitCalls
          BY <2>2 DEF External, CommitCalls
    <3> QED
        BY <2>2, <3>1
  <2> HIDE DEF s
  <2>4. Merges(agenda', allHeadRefs[c], commits[c])
        BY <2>1, <2>3 DEF Merges
  <2> QED
      BY <2>1, <2>4, <1>u DEF memory
(* The next call of the handler.                                           *)
<1>n. ASSUME NEW c \in Client, running = c
      PROVE  /\ Head(agenda).op = "external" =>
                    \E s \in Seq(CommitCalls) : Tail(agenda) = s \o Finish
             /\ Head(agenda).op \in {"temp", "local"} =>
                   LET r == Head(agenda).ref
                       after == IF r \in commits[c] THEN allHeadRefs[c]
                                ELSE AddHead(allHeadRefs[c], r)
                   IN  Merges(Tail(agenda), after, commits[c] \cup {r})
             /\ Head(agenda).op = "mergeHeads" => Tail(agenda) = ReadAndSync
             /\ Head(agenda).op = "readDoc" =>
                    Tail(agenda) = <<Call("sync")>> /\ Single(allHeadRefs[c])
             /\ Head(agenda).op = "sync" => Single(allHeadRefs[c])
      BY <1>n, <1>i, NextOfMerges
<1>5. ASSUME NEW c \in Client, UpdateCommitFromRemote(c) PROVE OneHeadInv'
  <2>1. /\ running = c /\ running' = c /\ Head(agenda).op = "external" /\ UNCHANGED memory
        /\ agenda' = Tail(agenda)
        BY <1>5 DEF UpdateCommitFromRemote, NextCall
  <2>2. Merges(agenda', allHeadRefs[c], commits[c])
        BY <2>1, <1>n DEF Merges
  <2> QED
      BY <2>1, <2>2, <1>u DEF memory
<1>6. ASSUME NEW c \in Client, AddExternalCommit(c) PROVE OneHeadInv'
  <2> DEFINE r == Head(agenda).ref
  <2>1. /\ running = c /\ running' = c /\ Head(agenda).op = "external" /\ agenda' = Tail(agenda)
        /\ commits'[c] = NonTemp(c) \cup {r} /\ tempCommits'[c] = {} /\ r \notin commits[c]
        /\ lastSavedDoc'[c] \in {r, lastNonTempDoc[c]}
        /\ lastNonTempDoc'[c] \in {r, lastNonTempDoc[c]}
        BY <1>6 DEF AddExternalCommit, NextCall, TypeOK, RolledBack, NonTemp
  <2>2. \A o \in Client \ {c} :
                /\ commits'[o] = commits[o] /\ tempCommits'[o] = tempCommits[o]
                /\ allHeadRefs'[o] = allHeadRefs[o] /\ lastSavedDoc'[o] = lastSavedDoc[o]
                /\ lastNonTempDoc'[o] = lastNonTempDoc[o]
        BY <1>6 DEF AddExternalCommit, TypeOK
  <2>3. Merges(agenda', allHeadRefs'[c], commits'[c])
        BY <2>1, <1>n DEF Merges
  <2>4. IsFiniteSet(commits'[c])
    <3>1. IsFiniteSet(NonTemp(c))
          BY <1>i, FS_Subset DEF NonTemp
    <3> QED
        BY <2>1, <3>1, FS_AddElement
  <2>5. DocsKnown(c)'
        BY <2>1, <1>i DEF DocsKnown, NonTemp
  <2> QED
      BY <2>1, <2>2, <2>3, <2>4, <2>5, <1>h
<1>7. ASSUME NEW c \in Client, AddExternalCommitThrows(c) PROVE OneHeadInv'
      BY <1>7, <1>i DEF AddExternalCommitThrows
<1>8. ASSUME NEW c \in Client, SkipNewCommit(c) PROVE OneHeadInv'
  <2>1. /\ running = c /\ running' = c /\ Head(agenda).op \in {"temp", "local"}
        /\ Head(agenda).ref \in commits[c] /\ agenda' = Tail(agenda) /\ UNCHANGED memory
        BY <1>8 DEF SkipNewCommit, NextCall
  <2>2. commits[c] \cup {Head(agenda).ref} = commits[c]
        BY <2>1
  <2>3. Merges(agenda', allHeadRefs[c], commits[c])
        BY <2>1, <2>2, <1>n
  <2> QED
      BY <2>1, <2>3, <1>u DEF memory
<1>9. ASSUME NEW c \in Client, AddNewCommit(c) PROVE OneHeadInv'
  <2> DEFINE r == Head(agenda).ref
  <2>1. /\ running = c /\ running' = c /\ Head(agenda).op \in {"temp", "local"}
        /\ r \notin commits[c] /\ agenda' = Tail(agenda)
        /\ commits'[c] = commits[c] \cup {r}
        /\ allHeadRefs'[c] = AddHead(allHeadRefs[c], r)
        /\ lastSavedDoc'[c] \in {r, lastSavedDoc[c]}
        BY <1>9 DEF AddNewCommit, NextCall, TypeOK
  <2>6. \/ lastNonTempDoc'[c] = lastNonTempDoc[c] /\ tempCommits'[c] \subseteq tempCommits[c] \cup {r}
        \/ lastNonTempDoc'[c] = r /\ tempCommits'[c] = tempCommits[c]
        BY <1>9 DEF AddNewCommit, TypeOK
  <2>2. \A o \in Client \ {c} :
                /\ commits'[o] = commits[o] /\ tempCommits'[o] = tempCommits[o]
                /\ allHeadRefs'[o] = allHeadRefs[o] /\ lastSavedDoc'[o] = lastSavedDoc[o]
                /\ lastNonTempDoc'[o] = lastNonTempDoc[o]
        BY <1>9 DEF AddNewCommit, TypeOK
  <2>3. Merges(agenda', allHeadRefs'[c], commits'[c])
        BY <2>1, <1>n
  <2>4. IsFiniteSet(commits'[c])
        BY <2>1, <1>i, FS_AddElement
  <2>5. DocsKnown(c)'
        BY <2>1, <2>6, <1>i DEF DocsKnown, NonTemp
  <2> QED
      BY <2>1, <2>2, <2>3, <2>4, <2>5, <1>h
<1>10. ASSUME NEW c \in Client, PromoteTempCommit(c) PROVE OneHeadInv'
  <2>1. running = c /\ running' = c /\ agenda' = agenda /\ UNCHANGED memory
        BY <1>10 DEF PromoteTempCommit, NextPromotion
  <2> QED
      BY <2>1, <1>i, <1>u DEF memory
<1>11. ASSUME NEW c \in Client, PromotePermanentCommit(c) PROVE OneHeadInv'
  <2>1. /\ running = c /\ running' = c /\ agenda' = agenda
        /\ UNCHANGED <<commits, tempCommits, allHeadRefs, lastSavedDoc>>
        /\ \/ lastNonTempDoc'[c] = lastNonTempDoc[c]
           \/ lastNonTempDoc'[c] = lastSavedDoc[c] /\ lastSavedDoc[c] \notin tempCommits[c]
        /\ \A o \in Client \ {c} : lastNonTempDoc'[o] = lastNonTempDoc[o]
        BY <1>11 DEF PromotePermanentCommit, NextPromotion, TypeOK
  <2>2. DocsKnown(c)'
        BY <2>1, <1>i DEF DocsKnown, NonTemp
  <2> QED
      BY <2>1, <2>2, <1>i, <1>h
<1>12. ASSUME NEW c \in Client, KeepCommit(c) PROVE OneHeadInv'
  <2> DEFINE r == Head(promoting).ref
  <2>1. /\ running = c /\ running' = c /\ agenda' = agenda
        /\ UNCHANGED <<commits, allHeadRefs, lastSavedDoc>>
        /\ tempCommits'[c] = tempCommits[c] \ {r}
        /\ \/ lastNonTempDoc'[c] = lastNonTempDoc[c]
           \/ lastNonTempDoc'[c] = r /\ lastSavedDoc[c] = r
        /\ \A o \in Client \ {c} :
              lastNonTempDoc'[o] = lastNonTempDoc[o] /\ tempCommits'[o] = tempCommits[o]
        BY <1>12 DEF KeepCommit, NextPromotion, TypeOK
  <2>2. DocsKnown(c)'
        BY <2>1, <1>i DEF DocsKnown, NonTemp
  <2> QED
      BY <2>1, <2>2, <1>i, <1>h
<1>13. ASSUME NEW c \in Client, MergeHeads(c) PROVE OneHeadInv'
  <2>1. /\ running = c /\ running' = c /\ promoting = <<>> /\ Head(agenda).op = "mergeHeads"
        /\ UNCHANGED memory
        /\ MergePlan(c) \in Seq(NewCommits) /\ agenda' = MergePlan(c) \o Tail(agenda)
        BY <1>13 DEF MergeHeads, NextCall
  <2>2. LeavesOneHead(allHeadRefs[c], commits[c], MergePlan(c))
        BY <2>1, MergeLeavesOneHead
  <2>3. Tail(agenda) = ReadAndSync
        BY <2>1, <1>n
  <2>4. Merges(agenda', allHeadRefs[c], commits[c])
        BY <2>1, <2>2, <2>3 DEF Merges
  <2> QED
      BY <2>1, <2>4, <1>u DEF memory
<1>14. ASSUME NEW c \in Client, ReadDoc(c) PROVE OneHeadInv'
  <2>1. /\ running = c /\ running' = c /\ Head(agenda).op = "readDoc"
        /\ UNCHANGED <<commits, tempCommits, allHeadRefs, lastSavedDoc, lastNonTempDoc>>
        BY <1>14 DEF ReadDoc, NextCall
  <2>2. lastSavedDoc[c] = NoRef \/ MigratedRef(lastSavedDoc[c]) \in commits[c]
    <3>1. lastSavedDoc[c] # NoRef => lastSavedDoc[c] \in commits[c]
          BY <1>i DEF DocsKnown
    <3> QED
        BY <3>1, <1>i DEF NothingMigrates
  <2>3. agenda' = Tail(agenda)
        BY <1>14, <2>2 DEF ReadDoc
  <2>4. Merges(agenda', allHeadRefs[c], commits[c])
        BY <2>1, <2>3, <1>n DEF Merges
  <2> QED
      BY <2>1, <2>4, <1>u
<1>15. ASSUME NEW c \in Client, Sync(c) PROVE OneHeadInv'
  <2>1. /\ running = c /\ running' = NoClient /\ Head(agenda).op = "sync"
        /\ UNCHANGED <<commits, tempCommits, allHeadRefs, lastSavedDoc, lastNonTempDoc>>
        BY <1>15 DEF Sync, NextCall
  <2>2. Single(allHeadRefs[c])
        BY <2>1, <1>n
  <2> QED
      BY <2>1, <2>2, <1>u
<1>16. ASSUME NEW c \in Client, SaveUpdate(c) PROVE OneHeadInv'
  <2>1. /\ running = NoClient /\ running' = NoClient
        /\ UNCHANGED <<commits, tempCommits, allHeadRefs, lastSavedDoc, lastNonTempDoc>>
        BY <1>16 DEF SaveUpdate, handler
  <2> QED
      BY <2>1, <1>i, <1>u
<1>17. ASSUME UNCHANGED vars PROVE OneHeadInv'
      BY <1>17 DEF vars, memory, handler, OneHeadInv, DocsKnown, NonTemp
<1> QED
    BY <1>1, <1>2, <1>3, <1>4, <1>5, <1>6, <1>7, <1>8, <1>9, <1>10, <1>11, <1>12,
       <1>13, <1>14, <1>15, <1>16, <1>17 DEF Next, Handler

(* README.md:72, one head: whatever commits arrive in whatever order, and  *)
(* whatever temp merges are rolled back or promoted on the way, a handler  *)
(* ends with one head if mergeAllBranches leaves one on every graph of     *)
(* commits.  Documents of an old version are excluded, with which the      *)
(* property fails.                                                         *)
THEOREM EndsWithOneHead ==
    Spec /\ SeedsInOrder /\ PlansLeaveOneHead /\ NothingMigrates => []OneHead
<1> SUFFICES ASSUME PlansLeaveOneHead, NothingMigrates
             PROVE  Spec /\ SeedsInOrder => []OneHead
    OBVIOUS
<1>1. TypeOK /\ GraphInv /\ SaveInv /\ OrderInv /\ OneHeadInv /\ [Next]_vars =>
          (TypeOK /\ GraphInv /\ SaveInv /\ OrderInv /\ OneHeadInv)'
      BY TypeStep, GraphStep, SaveStep, OrderStep, OneHeadStep
<1>2. TypeOK /\ GraphInv /\ OneHeadInv => OneHead
  <2> SUFFICES ASSUME TypeOK, GraphInv, OneHeadInv, Idle, NEW c \in Client
               PROVE  Cardinality(allHeadRefs[c]) <= 1
      BY DEF OneHead
  <2>1. Single(allHeadRefs[c])
        BY NoClientAssumption DEF OneHeadInv, Idle
  <2>2. CASE allHeadRefs[c] = {}
        BY <2>2, FS_EmptySet
  <2>3. CASE allHeadRefs[c] # {}
    <3>1. PICK h : allHeadRefs[c] = {h}
          BY <2>1, <2>3 DEF Single
    <3>2. Cardinality({h}) = 1
          BY FS_Singleton
    <3> QED
        BY <3>1, <3>2
  <2> QED
      BY <2>2, <2>3
<1> QED
    BY <1>1, <1>2, InitTypeOK, InitGraphInv, InitSave, InitOrder, InitOneHead, PTL DEF Spec
=============================================================================
