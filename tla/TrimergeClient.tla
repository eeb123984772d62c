--------------------------- MODULE TrimergeClient ---------------------------
(***************************************************************************)
(* TrimergeClient.ts: the clients that edit one document, each in a tab of *)
(* its own, over one local store.                                          *)
(*                                                                         *)
(* A document is a graph of commits.  A client holds the commits it knows, *)
(* some of which are temp: merges (and migrations) that it made only to    *)
(* show one document, that no other client has, and that are rolled back   *)
(* when a commit of another client arrives or become permanent when the    *)
(* user edits on top of them.                                              *)
(*                                                                         *)
(* The handlers of the client (updateDoc, onStoreEvent) run to completion  *)
(* in one turn of the JavaScript event loop, up to the first await, which  *)
(* is in store.update.  Here a handler is a sequence of small steps:       *)
(* `running' is the client whose handler is running, `agenda' the calls    *)
(* its handler has still to make and `promoting' the stack of the          *)
(* recursive promoteTempCommit.  A handler reads and writes the state of   *)
(* its own client only, so nothing is lost by letting one run at a time.   *)
(*                                                                         *)
(* The local store is external to this module: an update is persisted, the *)
(* commits it adds are appended to the repository, and the batch is then   *)
(* broadcast to the other tabs (CoordinatingLocalStore.doUpdate).          *)
(***************************************************************************)
EXTENDS SequencesExt, Selection

CONSTANTS
    Client,
    NoClient,
    Ref,             \* refs of commits: computeRef is a hash, so a ref
    NoRef,           \*   determines its commit; NoRef is undefined
    BaseOf(_),       \* baseRef of the commit with this ref
    MergeOf(_),      \* its mergeRef
    DeltaOf(_),      \* the edits a client's user may make
    EditRef(_, _),   \* computeRef of an edit: base ref, delta
    MigratedRef(_),  \* the ref of the migrated commit, itself if up to date
    PlanMerges(_, _),\* the addNewCommit calls mergeAllBranches makes
    Seeds,           \* what may be in the repository at the start
    MaxEdits,        \* bound: edits of all clients
    MaxCrashes       \* bound: tabs closed without warning

ASSUME NoRefAssumption == NoRef \notin Ref
ASSUME NoClientAssumption == NoClient \notin Client
ASSUME BoundAssumption == MaxEdits \in Nat /\ MaxCrashes \in Nat

VARIABLES
    \* the fields of TrimergeClient
    commits,          \* the keys of commits
    tempCommits,      \* the keys of tempCommits
    allHeadRefs,
    nonTempHeadRefs,
    lastSavedDoc,     \* the ref of this.lastSavedDoc
    lastNonTempDoc,   \* the ref of this.lastNonTempDoc
    latestDoc,        \* the ref of this.latestDoc, the migrated lastSavedDoc
    unsyncedCommits,
    localSave,        \* syncState.localSave
    \* the handler that is running
    running,
    agenda,
    promoting,
    \* the tabs and their store
    open,             \* clients with a tab
    failed,           \* clients whose handler threw: their store shuts down
    storeQueue,       \* batches given to store.update and not yet persisted
    repo,             \* the commits of the repository, in the order of syncId
    inbox,            \* 'commits' events on their way to a client
    edits,
    crashes

memory == <<commits, tempCommits, allHeadRefs, nonTempHeadRefs, lastSavedDoc,
            lastNonTempDoc, latestDoc, unsyncedCommits, localSave>>
handler == <<running, agenda, promoting>>
tabs == <<open, failed, edits, crashes>>
store == <<storeQueue, repo, inbox>>
vars == <<memory, handler, tabs, store>>

-----------------------------------------------------------------------------
(* The refs of the commits whose parents, if they have any, have refs too. *)
CommitRefs ==
    {r \in Ref : BaseOf(r) \in Ref \cup {NoRef} /\ MergeOf(r) \in Ref \cup {NoRef}}

ASSUME SeedAssumption == Seeds \subseteq Seq(CommitRefs)

Parents(r) == {BaseOf(r), MergeOf(r)} \ {NoRef}

(* Bugs addHead might have, for the runs' sensitivity: the parents stay,   *)
(* only the base goes, every other head goes, or add and delete swapped.   *)
AddHeadKeepsParents(heads, r) == heads \cup {r}
AddHeadKeepsMerge(heads, r) == (heads \ {BaseOf(r)}) \cup {r}
AddHeadDropsOthers(heads, r) == {r}
AddHeadSwapped(heads, r) == (heads \ {r}) \cup {BaseOf(r), MergeOf(r)}

(* addHead: a new head takes the place of its parents.                     *)
AddHead(heads, r) == (heads \ Parents(r)) \cup {r}

NonTemp(c) == commits[c] \ tempCommits[c]

(* A bug: the rollback clears commits, not tempCommits.                    *)
RollBackAll(c) == {}

(* What is left of the commits when the temp commits are rolled back.      *)
RolledBack(c) == commits[c] \ tempCommits[c]

(* addHead's check after a rollback, when no cached doc helps: is the base *)
(* a commit that the client has, the new commit included?                  *)
CanResolve(c, r) == BaseOf(r) \in RolledBack(c) \cup {r, NoRef}

(* A bug: a merge is not a child of its mergeRef.                          *)
FollowsBaseOnly(current, r) == current = NoRef \/ current = BaseOf(r)

(* Does the doc on screen follow the commit: addCommit's test on           *)
(* currentRef.                                                             *)
Follows(current, r) == current = NoRef \/ current \in Parents(r)

Task == [op : {"external", "temp", "local"}, ref : CommitRefs]
            \cup [op : {"mergeHeads", "readDoc", "sync"}]

(* The calls that mergeHelpers lets mergeAllBranches make.                 *)
NewCommits == [op : {"temp", "local"}, ref : CommitRefs]

External(r) == [op |-> "external", ref |-> r]
NewCommit(r, temp) == [op |-> IF temp THEN "temp" ELSE "local", ref |-> r]
Call(op) == [op |-> op]

(* What a handler does once its commits are added.                         *)
Finish == <<Call("mergeHeads"), Call("readDoc"), Call("sync")>>

Promotion == [op : {"promote"}, ref : Ref \cup {NoRef}]
                 \cup [op : {"keep"}, ref : CommitRefs]

(* Bugs of the recursion: the commit before its parents, or only one of    *)
(* its parents.                                                            *)
KeepBeforeParents(r) ==
    << [op |-> "keep", ref |-> r],
       [op |-> "promote", ref |-> BaseOf(r)],
       [op |-> "promote", ref |-> MergeOf(r)] >>
PromoteMergeOnly(r) ==
    << [op |-> "promote", ref |-> MergeOf(r)], [op |-> "keep", ref |-> r] >>

(* promoteTempCommit(baseRef), promoteTempCommit(mergeRef), then the       *)
(* commit itself.                                                          *)
PromoteParents(r) ==
    << [op |-> "promote", ref |-> BaseOf(r)],
       [op |-> "promote", ref |-> MergeOf(r)],
       [op |-> "keep", ref |-> r] >>

-----------------------------------------------------------------------------
Init ==
    /\ commits = [c \in Client |-> {}]
    /\ tempCommits = [c \in Client |-> {}]
    /\ allHeadRefs = [c \in Client |-> {}]
    /\ nonTempHeadRefs = [c \in Client |-> {}]
    /\ lastSavedDoc = [c \in Client |-> NoRef]
    /\ lastNonTempDoc = [c \in Client |-> NoRef]
    /\ latestDoc = [c \in Client |-> NoRef]
    /\ unsyncedCommits = [c \in Client |-> <<>>]
    /\ localSave = [c \in Client |-> "ready"]
    /\ running = NoClient
    /\ agenda = <<>>
    /\ promoting = <<>>
    /\ open = {}
    /\ failed = {}
    /\ storeQueue = [c \in Client |-> <<>>]
    /\ repo \in Seeds
    /\ inbox = [c \in Client |-> <<>>]
    /\ edits = 0
    /\ crashes = 0

-----------------------------------------------------------------------------
(* A tab opens: a new TrimergeClient, whose store sends it the commits of  *)
(* the repository (CoordinatingLocalStore.initialize) and from then on     *)
(* those that other tabs add.                                              *)
Open(c) ==
    /\ running = NoClient
    /\ c \notin open
    /\ open' = open \cup {c}
    /\ inbox' = [inbox EXCEPT ![c] = <<repo>>]
    /\ UNCHANGED <<memory, handler, failed, edits, crashes, storeQueue, repo>>

(* A tab is closed or dies: what was not persisted is gone.                *)
Crash(c) ==
    /\ running = NoClient
    /\ c \in open
    /\ crashes < MaxCrashes
    /\ crashes' = crashes + 1
    /\ open' = open \ {c}
    /\ failed' = failed \ {c}
    /\ commits' = [commits EXCEPT ![c] = {}]
    /\ tempCommits' = [tempCommits EXCEPT ![c] = {}]
    /\ allHeadRefs' = [allHeadRefs EXCEPT ![c] = {}]
    /\ nonTempHeadRefs' = [nonTempHeadRefs EXCEPT ![c] = {}]
    /\ lastSavedDoc' = [lastSavedDoc EXCEPT ![c] = NoRef]
    /\ lastNonTempDoc' = [lastNonTempDoc EXCEPT ![c] = NoRef]
    /\ latestDoc' = [latestDoc EXCEPT ![c] = NoRef]
    /\ unsyncedCommits' = [unsyncedCommits EXCEPT ![c] = <<>>]
    /\ localSave' = [localSave EXCEPT ![c] = "ready"]
    /\ storeQueue' = [storeQueue EXCEPT ![c] = <<>>]
    /\ inbox' = [inbox EXCEPT ![c] = <<>>]
    /\ UNCHANGED <<handler, edits, repo>>

-----------------------------------------------------------------------------
(* The handlers: updateDoc, and onStoreEvent with a 'commits' event.       *)

UpdateDoc(c, d) ==
    LET r == EditRef(lastSavedDoc[c], d)
    IN  /\ running = NoClient
        /\ c \in open \ failed
        /\ edits < MaxEdits
        /\ r \in CommitRefs
        /\ edits' = edits + 1
        /\ running' = c
        /\ agenda' = <<NewCommit(r, FALSE)>> \o Finish
        /\ UNCHANGED <<memory, promoting, open, failed, crashes, store>>

OnCommits(c) ==
    /\ running = NoClient
    /\ c \in open \ failed
    /\ inbox[c] # <<>>
    /\ inbox' = [inbox EXCEPT ![c] = Tail(@)]
    /\ running' = c
    /\ agenda' = [n \in DOMAIN Head(inbox[c]) |-> External(Head(inbox[c])[n])] \o Finish
    /\ UNCHANGED <<memory, promoting, tabs, storeQueue, repo>>

-----------------------------------------------------------------------------
(* The steps of a running handler.                                         *)

NextCall(c, op) ==
    /\ running = c
    /\ promoting = <<>>
    /\ agenda # <<>>
    /\ Head(agenda).op = op

(* addCommit(commit, 'external') of a commit that the client has:          *)
(* updateCommitFromRemote promotes it if it is temp.                       *)
UpdateCommitFromRemote(c) ==
    LET r == Head(agenda).ref
    IN  /\ NextCall(c, "external")
        /\ r \in commits[c]
        /\ agenda' = Tail(agenda)
        /\ promoting' = IF r \in tempCommits[c]
                        THEN <<[op |-> "promote", ref |-> r]>> ELSE <<>>
        /\ UNCHANGED <<memory, running, tabs, store>>

(* addCommit(commit, 'external') of a new commit.  Every temp commit is    *)
(* rolled back before the commit is added to the heads.                    *)
AddExternalCommit(c) ==
    LET r == Head(agenda).ref
        follows == Follows(lastNonTempDoc[c], r)
    IN  /\ NextCall(c, "external")
        /\ r \notin commits[c]
        /\ CanResolve(c, r)
        /\ agenda' = Tail(agenda)
        /\ commits' = [commits EXCEPT ![c] = RolledBack(c) \cup {r}]
        /\ tempCommits' = [tempCommits EXCEPT ![c] = {}]
        /\ allHeadRefs' = [allHeadRefs EXCEPT ![c] = AddHead(nonTempHeadRefs[c], r)]
        /\ nonTempHeadRefs' = [nonTempHeadRefs EXCEPT ![c] = AddHead(@, r)]
        /\ lastSavedDoc' =
              [lastSavedDoc EXCEPT ![c] = IF follows THEN r ELSE lastNonTempDoc[c]]
        /\ lastNonTempDoc' = [lastNonTempDoc EXCEPT ![c] = IF follows THEN r ELSE @]
        /\ latestDoc' =
              [latestDoc EXCEPT ![c] =
                  IF follows \/ lastSavedDoc[c] # lastNonTempDoc[c] THEN NoRef ELSE @]
        /\ UNCHANGED <<unsyncedCommits, localSave, running, promoting, tabs, store>>

(* The same of a commit whose base is unknown: addHead throws after the    *)
(* commit is set and the temp commits are rolled back, and the store shuts *)
(* down (CoordinatingLocalStore.sendEvent).                                *)
AddExternalCommitThrows(c) ==
    LET r == Head(agenda).ref
    IN  /\ NextCall(c, "external")
        /\ r \notin commits[c]
        /\ ~CanResolve(c, r)
        /\ running' = NoClient
        /\ agenda' = <<>>
        /\ failed' = failed \cup {c}
        /\ commits' = [commits EXCEPT ![c] = RolledBack(c) \cup {r}]
        /\ tempCommits' = [tempCommits EXCEPT ![c] = {}]
        /\ allHeadRefs' = [allHeadRefs EXCEPT ![c] = nonTempHeadRefs[c]]
        /\ lastSavedDoc' = [lastSavedDoc EXCEPT ![c] = lastNonTempDoc[c]]
        /\ latestDoc' =
              [latestDoc EXCEPT ![c] =
                  IF lastSavedDoc[c] # lastNonTempDoc[c] THEN NoRef ELSE @]
        /\ UNCHANGED <<nonTempHeadRefs, lastNonTempDoc, unsyncedCommits, localSave,
                       promoting, open, edits, crashes, store>>

(* addNewCommit that computes a ref the client already has: skipped.       *)
SkipNewCommit(c) ==
    /\ NextCall(c, "temp") \/ NextCall(c, "local")
    /\ Head(agenda).ref \in commits[c]
    /\ agenda' = Tail(agenda)
    /\ UNCHANGED <<memory, running, promoting, tabs, store>>

(* addNewCommit and addCommit(commit, 'temp' or 'local').  Its parents are *)
(* commits the client has (lastSavedDoc, or those whose docs getCommitDoc  *)
(* has returned) and the new doc is in the cache: addHead does not throw.  *)
AddNewCommit(c) ==
    LET r == Head(agenda).ref
        temp == Head(agenda).op = "temp"
        follows == Follows(lastSavedDoc[c], r)
    IN  /\ NextCall(c, "temp") \/ NextCall(c, "local")
        /\ r \notin commits[c]
        /\ Parents(r) \subseteq commits[c]
        /\ agenda' = Tail(agenda)
        /\ commits' = [commits EXCEPT ![c] = @ \cup {r}]
        /\ allHeadRefs' = [allHeadRefs EXCEPT ![c] = AddHead(@, r)]
        /\ lastSavedDoc' = [lastSavedDoc EXCEPT ![c] = IF follows THEN r ELSE @]
        /\ lastNonTempDoc' =
              [lastNonTempDoc EXCEPT ![c] = IF follows /\ ~temp THEN r ELSE @]
        /\ latestDoc' = [latestDoc EXCEPT ![c] = IF follows THEN NoRef ELSE @]
        /\ tempCommits' = [tempCommits EXCEPT ![c] = IF temp THEN @ \cup {r} ELSE @]
        /\ promoting' = IF temp THEN <<>> ELSE PromoteParents(r)
        /\ UNCHANGED <<nonTempHeadRefs, unsyncedCommits, localSave, running, tabs, store>>

-----------------------------------------------------------------------------
(* promoteTempCommit, one call at a time.                                  *)

NextPromotion(c, op) ==
    /\ running = c
    /\ promoting # <<>>
    /\ Head(promoting).op = op

(* A temp commit's parents are promoted before it.                         *)
PromoteTempCommit(c) ==
    LET r == Head(promoting).ref
    IN  /\ NextPromotion(c, "promote")
        /\ r \in tempCommits[c]
        /\ promoting' = PromoteParents(r) \o Tail(promoting)
        /\ UNCHANGED <<memory, running, agenda, tabs, store>>

(* At a commit that is not temp the recursion ends.                        *)
PromotePermanentCommit(c) ==
    LET r == Head(promoting).ref
    IN  /\ NextPromotion(c, "promote")
        /\ r \notin tempCommits[c]
        /\ promoting' = Tail(promoting)
        /\ lastNonTempDoc' =
              [lastNonTempDoc EXCEPT ![c] =
                  IF r # NoRef /\ lastSavedDoc[c] = r THEN lastSavedDoc[c] ELSE @]
        /\ UNCHANGED <<commits, tempCommits, allHeadRefs, nonTempHeadRefs, lastSavedDoc,
                       latestDoc, unsyncedCommits, localSave, running, agenda, tabs, store>>

(* The commit itself: after its parents it is no longer temp, it is a      *)
(* permanent head, and it is sent with the next sync.  A new local commit  *)
(* ends addCommit in the same way.                                         *)
KeepCommit(c) ==
    LET r == Head(promoting).ref
    IN  /\ NextPromotion(c, "keep")
        /\ promoting' = Tail(promoting)
        /\ nonTempHeadRefs' = [nonTempHeadRefs EXCEPT ![c] = AddHead(@, r)]
        /\ tempCommits' = [tempCommits EXCEPT ![c] = @ \ {r}]
        /\ unsyncedCommits' = [unsyncedCommits EXCEPT ![c] = Append(@, r)]
        /\ lastNonTempDoc' =
              [lastNonTempDoc EXCEPT ![c] = IF lastSavedDoc[c] = r THEN r ELSE @]
        /\ UNCHANGED <<commits, allHeadRefs, lastSavedDoc, latestDoc, localSave,
                       running, agenda, tabs, store>>

-----------------------------------------------------------------------------
(* mergeHeads: mergeAllBranches is an option of the client; it makes its   *)
(* commits through mergeHelpers, addNewCommit call by call.                *)
MergePlan(c) ==
    IF Cardinality(allHeadRefs[c]) <= 1 THEN <<>>
    ELSE PlanMerges(allHeadRefs[c], commits[c])

MergeHeads(c) ==
    /\ NextCall(c, "mergeHeads")
    /\ \E plan \in {MergePlan(c)} \cap Seq(NewCommits) : agenda' = plan \o Tail(agenda)
    /\ UNCHANGED <<memory, running, promoting, tabs, store>>

(* docSubs.emitChange reads the doc: the getter migrates lastSavedDoc,     *)
(* which adds a temp commit when the doc is of an old version.             *)
ReadDoc(c) ==
    LET saved == lastSavedDoc[c]
        stale == saved # NoRef /\ latestDoc[c] = NoRef
        migrated == MigratedRef(saved)
    IN  /\ NextCall(c, "readDoc")
        /\ stale => migrated \in CommitRefs
        /\ agenda' = IF stale /\ migrated \notin commits[c]
                     THEN <<NewCommit(migrated, TRUE)>> \o agenda
                     ELSE Tail(agenda)
        /\ latestDoc' = [latestDoc EXCEPT ![c] = IF stale THEN migrated ELSE @]
        /\ UNCHANGED <<commits, tempCommits, allHeadRefs, nonTempHeadRefs, lastSavedDoc,
                       lastNonTempDoc, unsyncedCommits, localSave, running, promoting,
                       tabs, store>>

(* A bug: sync waits for the update under way, and does not let it return. *)
SyncWhenSaved(c) ==
    /\ NextCall(c, "sync")
    /\ unsyncedCommits[c] = <<>> \/ localSave[c] # "saving"
    /\ running' = NoClient
    /\ agenda' = <<>>
    /\ IF unsyncedCommits[c] = <<>>
       THEN UNCHANGED <<unsyncedCommits, localSave, storeQueue>>
       ELSE /\ storeQueue' = [storeQueue EXCEPT ![c] = Append(@, unsyncedCommits[c])]
            /\ unsyncedCommits' = [unsyncedCommits EXCEPT ![c] = <<>>]
            /\ localSave' = [localSave EXCEPT ![c] = "saving"]
    /\ UNCHANGED <<commits, tempCommits, allHeadRefs, nonTempHeadRefs, lastSavedDoc,
                   lastNonTempDoc, latestDoc, promoting, tabs, repo, inbox>>

(* sync: the last call of a handler.                                       *)
Sync(c) ==
    /\ NextCall(c, "sync")
    /\ running' = NoClient
    /\ agenda' = <<>>
    /\ IF unsyncedCommits[c] = <<>>
       THEN UNCHANGED <<unsyncedCommits, localSave, storeQueue>>
       ELSE /\ storeQueue' = [storeQueue EXCEPT ![c] = Append(@, unsyncedCommits[c])]
            /\ unsyncedCommits' = [unsyncedCommits EXCEPT ![c] = <<>>]
            /\ localSave' = [localSave EXCEPT ![c] = "saving"]
    /\ UNCHANGED <<commits, tempCommits, allHeadRefs, nonTempHeadRefs, lastSavedDoc,
                   lastNonTempDoc, latestDoc, promoting, tabs, repo, inbox>>

-----------------------------------------------------------------------------
(* A bug: the first update to return resets the status.                    *)
AnyUpdate(c) == TRUE

(* No other update is pending (numPendingUpdates === 1).                   *)
LastUpdate(c) == Len(storeQueue[c]) = 1

(* The local store persists the next update, broadcasts it, and the await  *)
(* in sync returns.  A store that is shutting down may still do so.        *)
SaveUpdate(c) ==
    LET batch == Head(storeQueue[c])
        unknown == Among(batch, {n \in DOMAIN batch : batch[n] \notin ToSet(repo)})
    IN  /\ running = NoClient
        /\ c \in open
        /\ storeQueue[c] # <<>>
        /\ storeQueue' = [storeQueue EXCEPT ![c] = Tail(@)]
        /\ \E added \in {unknown} \cap Seq(CommitRefs) : repo' = repo \o added
        /\ inbox' = [o \in Client |-> IF o \in open \ {c} THEN Append(inbox[o], batch)
                                      ELSE inbox[o]]
        /\ localSave' = [localSave EXCEPT ![c] = IF LastUpdate(c) THEN "ready" ELSE @]
        /\ UNCHANGED <<commits, tempCommits, allHeadRefs, nonTempHeadRefs, lastSavedDoc,
                       lastNonTempDoc, latestDoc, unsyncedCommits, handler, tabs>>

-----------------------------------------------------------------------------
Handler(c) ==
    \/ UpdateCommitFromRemote(c)
    \/ AddExternalCommit(c)
    \/ AddExternalCommitThrows(c)
    \/ SkipNewCommit(c)
    \/ AddNewCommit(c)
    \/ PromoteTempCommit(c)
    \/ PromotePermanentCommit(c)
    \/ KeepCommit(c)
    \/ MergeHeads(c)
    \/ ReadDoc(c)
    \/ Sync(c)

Next ==
    \E c \in Client :
        \/ Open(c)
        \/ Crash(c)
        \/ \E d \in DeltaOf(c) : UpdateDoc(c, d)
        \/ OnCommits(c)
        \/ Handler(c)
        \/ SaveUpdate(c)

(* What the tabs and the store do on their own.                            *)
System == \E c \in Client : OnCommits(c) \/ Handler(c) \/ SaveUpdate(c)

(* While there is a handler to run on, an event to deliver or an update to *)
(* persist, one of these happens; users need not do anything.              *)
Fairness == WF_vars(System)

Spec == Init /\ [][Next]_vars /\ Fairness

-----------------------------------------------------------------------------
TypeOK ==
    /\ commits \in [Client -> SUBSET CommitRefs]
    /\ tempCommits \in [Client -> SUBSET CommitRefs]
    /\ allHeadRefs \in [Client -> SUBSET CommitRefs]
    /\ nonTempHeadRefs \in [Client -> SUBSET CommitRefs]
    /\ lastSavedDoc \in [Client -> CommitRefs \cup {NoRef}]
    /\ lastNonTempDoc \in [Client -> CommitRefs \cup {NoRef}]
    /\ latestDoc \in [Client -> CommitRefs \cup {NoRef}]
    /\ unsyncedCommits \in [Client -> Seq(CommitRefs)]
    /\ localSave \in [Client -> {"ready", "saving"}]
    /\ running \in Client \cup {NoClient}
    /\ agenda \in Seq(Task)
    /\ promoting \in Seq(Promotion)
    /\ open \subseteq Client
    /\ failed \subseteq Client
    /\ storeQueue \in [Client -> Seq(Seq(CommitRefs))]
    /\ repo \in Seq(CommitRefs)
    /\ inbox \in [Client -> Seq(Seq(CommitRefs))]
    /\ edits \in 0 .. MaxEdits
    /\ crashes \in 0 .. MaxCrashes

-----------------------------------------------------------------------------
(* Between two handlers.                                                   *)
Idle == running = NoClient

Childless(refs) == refs \ UNION {Parents(r) : r \in refs}

(* README.md:63, "a node is a head node if it has no child nodes": the two *)
(* sets of heads that addHead maintains commit by commit, through          *)
(* rollbacks and promotions, are exactly the childless commits.            *)
HeadsExact ==
    Idle => \A c \in Client \ failed :
        /\ allHeadRefs[c] = Childless(commits[c])
        /\ nonTempHeadRefs[c] = Childless(NonTemp(c))

(* No branch is lost: every commit a client holds is a head or the parent  *)
(* of another commit it holds, so whoever starts from the heads reaches    *)
(* every commit; and without the temp commits the same is true of the      *)
(* heads a rollback goes back to (lines 440-446).  A handler that throws   *)
(* leaves a commit that no head reaches, but no head that is not there.    *)
NoBranchLost ==
    \A c \in Client :
        /\ allHeadRefs[c] \subseteq commits[c]
        /\ nonTempHeadRefs[c] \subseteq NonTemp(c)
        /\ c \notin failed =>
              \A r \in commits[c] \ allHeadRefs[c] : \E x \in commits[c] : r \in Parents(x)
        /\ c \notin failed /\ Idle =>
              \A r \in NonTemp(c) \ nonTempHeadRefs[c] : \E x \in NonTemp(c) : r \in Parents(x)

(* Every document can be computed (getCommitDoc walks down the bases), and *)
(* still can when the temp commits are rolled back: a permanent commit     *)
(* never rests on a temp one, however deep the stack of temp commits was   *)
(* that an edit or another tab's edit promoted (lines 474-490).            *)
DocResolvable ==
    \A c \in Client \ failed :
        /\ \A r \in commits[c] : BaseOf(r) \in commits[c] \cup {NoRef}
        /\ Idle => \A r \in NonTemp(c) : BaseOf(r) \in NonTemp(c) \cup {NoRef}

(* The repository always holds the parents of a commit before the commit,  *)
(* so that a tab that loads it, which replays it in that order, can        *)
(* resolve every base (addHead, lines 393-408).                            *)
RepoParentsFirst ==
    \A n \in DOMAIN repo : Parents(repo[n]) \subseteq {repo[m] : m \in 1 .. n - 1}

(* No handler ever throws "no way to resolve" (line 405): whatever tabs    *)
(* open, crash, edit and merge, in whatever order events arrive.           *)
NoFailure == failed = {}

(* README.md:72, "repeat until there is one head node": when a handler     *)
(* ends, the client has merged everything it knows into one head.          *)
OneHead == Idle => \A c \in Client \ failed : Cardinality(allHeadRefs[c]) <= 1

(* The comment on lastSavedDoc (lines 54-55), "the doc for the latest      *)
(* commit (potentially temp)": the doc on screen is one of the heads.      *)
LatestDocIsHead ==
    Idle => \A c \in Client \ failed :
        commits[c] # {} => lastSavedDoc[c] \in allHeadRefs[c]

AncestorsIn(refs) ==
    LET up[r \in refs] == {r} \cup UNION {up[p] : p \in Parents(r)}
    IN  up

(* The doc on screen contains every commit that the client has: nothing    *)
(* that the user typed, and nothing that arrived, is missing from it.      *)
ShowsEverything ==
    Idle => \A c \in Client \ failed :
        NonTemp(c) # {} => NonTemp(c) \subseteq AncestorsIn(commits[c])[lastSavedDoc[c]]

(* The comment on LocalSaveStatus (types.ts), "no changes in local         *)
(* memory": while a client's status is ready, each commit that would       *)
(* survive a rollback is in the repository.                                *)
SavedWhenReady ==
    Idle => \A c \in open \ failed :
        localSave[c] = "ready" => NonTemp(c) \subseteq ToSet(repo)

(* As long as its tab is open, a client never forgets a commit that is not *)
(* temp: rolling back and promoting only ever move temp commits.           *)
NeverForgets ==
    [][\A c \in Client : c \in open' => NonTemp(c) \subseteq commits'[c] \ tempCommits'[c]]_vars

(* Nothing is left to do: every handler has ended, every update is saved   *)
(* and every event has arrived.                                            *)
Quiescent ==
    /\ Idle
    /\ \A c \in open \ failed : storeQueue[c] = <<>> /\ inbox[c] = <<>>

(* Tabs that have heard of everything agree: they hold the same permanent  *)
(* commits, those of the repository, and they show the same merge of them, *)
(* although each merged on its own and in the order its events came.       *)
Converged ==
    Quiescent => \A c \in open \ failed :
        /\ NonTemp(c) = ToSet(repo)
        /\ \A o \in open \ failed :
              allHeadRefs[c] = allHeadRefs[o] /\ lastSavedDoc[c] = lastSavedDoc[o]

(* The exchange of commits and re-sent promotions comes to an end.         *)
Settles == <>[]Quiescent
=============================================================================
