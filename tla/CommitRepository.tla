-------------------------- MODULE CommitRepository --------------------------
(***************************************************************************)
(* IndexedDbCommitRepository.ts: what the database of a document holds and *)
(* what its operations make of it.  Pure operators: each is a transaction  *)
(* (addCommits and acknowledgeRemoteCommits are two, one for the commits   *)
(* and one for the cursor), and the module of the stores applies them.     *)
(*                                                                         *)
(* A database is a record of the commits, each with its syncId (1, 2, ...  *)
(* in the order in which they were added) and whether it is known to be on *)
(* the remote (remoteSyncId, which the code uses as that bit); the keys of *)
(* the heads store; and lastSyncCursor, 0 for undefined.                   *)
(*                                                                         *)
(* A commit that comes in is [ref, syncId]: syncId is 0, or the one of the *)
(* sender's database if the commit was read from there, because the object *)
(* that is read is sent as it is, and its fields take precedence when the  *)
(* receiver stores it.                                                     *)
(***************************************************************************)
EXTENDS SequencesExt, FiniteSetsExt, Commits

EmptyDb == [commits |-> <<>>, heads |-> {}, lastSyncCursor |-> 0]

Stored(db) == DOMAIN db.commits

(* A commit that does not come from a database.                            *)
Fresh(r) == [ref |-> r, syncId |-> 0]

Refs(batch) == {batch[n].ref : n \in DOMAIN batch}

(* The value of the last entry of the syncId index.                        *)
LastSyncId(db) == Max({0} \cup {db.commits[r].syncId : r \in Stored(db)})

(* A bug: an own commit is taken for one that the remote has.              *)
StoreSynced(commit, next, remote) == [syncId |-> next, synced |-> TRUE]

(* commitsDb.add: the commit's own fields override.  What is read to be    *)
(* sent has not been synced.                                               *)
StoreNew(commit, next, remote) ==
    IF commit.syncId = 0 THEN [syncId |-> next, synced |-> remote]
    ELSE [syncId |-> commit.syncId, synced |-> FALSE]

(* updateCommitWithMetadataOrRemote.                                       *)
UpdateCommit(commit, remote) == [commit EXCEPT !.synced = @ \/ remote]

(* A bug: the branches of the batch replace those that there are.          *)
HeadsOfBatch(db, batch) == Refs(batch) \ UNION {ParentsOf(r) : r \in Refs(batch)}

(* The heads store: the parents of the batch go, and its refs that are not *)
(* among them come.                                                        *)
HeadsWith(db, batch) ==
    (db.heads \cup Refs(batch)) \ UNION {ParentsOf(r) : r \in Refs(batch)}

(* The transaction of addCommits.  Each commit of the batch takes a number *)
(* even if it is stored already.  `remote': it came with a remoteSyncId.   *)
AddCommits(db, batch, remote) ==
    LET new == {n \in DOMAIN batch : batch[n].ref \notin Stored(db)}
        At(r) == CHOOSE n \in new : batch[n].ref = r
    IN  [db EXCEPT
            !.commits = [r \in Stored(db) \cup Refs(batch) |->
                IF r \in Stored(db)
                THEN UpdateCommit(db.commits[r], remote /\ r \in Refs(batch))
                ELSE StoreNew(batch[At(r)], LastSyncId(db) + At(r), remote)],
            !.heads = HeadsWith(db, batch)]

(* The transaction of acknowledgeRemoteCommits.                            *)
AcknowledgeRemoteCommits(db, acks) ==
    [db EXCEPT !.commits =
        [r \in Stored(db) |-> UpdateCommit(db.commits[r], r \in acks)]]

(* A bug: the cursor is that of the next commit.                           *)
UpsertNextCursor(db, cursor) == [db EXCEPT !.lastSyncCursor = cursor + 1]

(* upsertRemoteSyncInfo.                                                   *)
UpsertRemoteSyncInfo(db, cursor) == [db EXCEPT !.lastSyncCursor = cursor]

(* resetDocRemoteSyncData.                                                 *)
ResetDocRemoteSyncData(db) ==
    [db EXCEPT !.commits = [r \in Stored(db) |-> [db.commits[r] EXCEPT !.synced = FALSE]],
               !.lastSyncCursor = 0]

Unsent(db, r) == ~db.commits[r].synced

(* getCommitsForRemote: the commits that are not synced, by syncId; equal  *)
(* ones come in the order of their refs, any order here.  (The pages of    *)
(* 100 are sent one after the other.)                                      *)
CommitsForRemote(db) ==
    LET unsent == Sorted({r \in Stored(db) : Unsent(db, r)},
                      LAMBDA p, r : db.commits[p].syncId <= db.commits[r].syncId)
    IN  [n \in DOMAIN unsent |-> [ref |-> unsent[n], syncId |-> db.commits[unsent[n]].syncId]]

(* getLocalCommits reads the commits by syncId.  Does the parent of a      *)
(* commit surely come before it, and may it?                               *)
SurelyBefore(db, p, r) == p \in Stored(db) /\ db.commits[p].syncId < db.commits[r].syncId
MayBeBefore(db, p, r) == p \in Stored(db) /\ db.commits[p].syncId <= db.commits[r].syncId
=============================================================================
