------------------------------ MODULE DocStore ------------------------------
(***************************************************************************)
(* SqliteDocStore.ts with LiveDoc.addCommits of the basic server: the      *)
(* commits of a document, what a store object remembers of them, the order *)
(* in which commits are accepted and the order in which they are served.   *)
(* Pure operators: the modules of the server apply them to their state.    *)
(*                                                                         *)
(* The table is a sequence of rows in the order of insertion (rowid).  It  *)
(* is on disk; the memory of a store object (seenRefs, headRef) is made    *)
(* when the object is, and again when the document is opened again.        *)
(***************************************************************************)
EXTENDS SequencesExt, Commits

RefsOf(rows) == {rows[n].ref : n \in DOMAIN rows}

(* A bug: undefined is taken for a ref that has been seen.                 *)
NewMemoryOfUndefined(rows) == [seenRefs |-> RefsOf(rows) \cup {NoRef}, headRef |-> NoRef]

(* The constructor.  headRef is not restored.                              *)
NewMemory(rows) == [seenRefs |-> RefsOf(rows), headRef |-> NoRef]

(* The loop of validateCommitOrder over one commit: one that comes after   *)
(* a commit that names it as a parent is invalid.                          *)
CheckOne(found, r) ==
    IF r \in found.referenced
    THEN [found EXCEPT !.invalidRefs = @ \cup {r}]
    ELSE [found EXCEPT
             !.newCommits = Append(@, r),
             !.referenced = @ \cup (ParentsOf(r) \ ToSet(found.newCommits))]

ValidateCommitOrder(batch) ==
    LET found[n \in 0 .. Len(batch)] ==
            IF n = 0 THEN [newCommits |-> <<>>, invalidRefs |-> {}, referenced |-> {}]
            ELSE CheckOne(found[n - 1], batch[n])
        checked == found[Len(batch)]
    IN  [newCommits |-> checked.newCommits, invalidRefs |-> checked.invalidRefs]

(* computeIsMain: a commit on top of the last main one is main, and so is  *)
(* a root when there is no main commit yet.                                *)
IsMain(headRef, r) ==
    IF ParentsOf(r) = {} THEN headRef = NoRef ELSE headRef \in ParentsOf(r)

(* The loop of add over one commit: refused if a parent is unknown, only   *)
(* acknowledged if it has been seen, refused if the table has it all the   *)
(* same (another store object put it there, after headRef has been moved). *)
AddOne(st, r, id) ==
    LET main == IsMain(st.headRef, r)
        headRef == IF main THEN r ELSE st.headRef
        row == [ref |-> r, remoteSyncId |-> id, remoteSyncIndex |-> st.nextIndex,
                main |-> main]
    IN  IF ~(ParentsOf(r) \subseteq st.seenRefs) THEN [st EXCEPT !.refErrors = @ \cup {r}]
        ELSE IF r \in st.seenRefs THEN [st EXCEPT !.acks = @ \cup {r}]
        ELSE IF r \in RefsOf(st.rows)
        THEN [st EXCEPT !.headRef = headRef, !.refErrors = @ \cup {r}]
        ELSE [rows |-> Append(st.rows, row), seenRefs |-> st.seenRefs \cup {r},
              headRef |-> headRef, acks |-> st.acks \cup {r},
              refErrors |-> st.refErrors, nextIndex |-> st.nextIndex + 1]

(* LiveDoc.addCommits: the rows and the memory afterwards, the refs that   *)
(* are acknowledged and refused, and the commits to broadcast.             *)
LiveDocAddCommits(rows, memory, batch, id) ==
    LET valid == ValidateCommitOrder(batch)
        commits == valid.newCommits
        added[n \in 0 .. Len(commits)] ==
            IF n = 0
            THEN [rows |-> rows, seenRefs |-> memory.seenRefs, headRef |-> memory.headRef,
                  acks |-> {}, refErrors |-> {}, nextIndex |-> 0]
            ELSE AddOne(added[n - 1], commits[n], id)
        st == added[Len(commits)]
    IN  [rows |-> st.rows,
         memory |-> [seenRefs |-> st.seenRefs, headRef |-> st.headRef],
         acks |-> st.acks,
         refErrors |-> st.refErrors \cup valid.invalidRefs,
         broadcast |-> Among(batch, {n \in DOMAIN batch : batch[n] \in st.acks})]

(* Bugs of the query: by index first; and one syncId too far.              *)
ServedByIndex(rows, m, n) ==
    \/ rows[m].remoteSyncIndex < rows[n].remoteSyncIndex
    \/ rows[m].remoteSyncIndex = rows[n].remoteSyncIndex /\ m < n
AfterNext(row, cursor) == row.remoteSyncId > cursor + 1

(* ORDER BY remoteSyncId, remoteSyncIndex; ties by rowid.                  *)
ServedBefore(rows, m, n) ==
    \/ rows[m].remoteSyncId < rows[n].remoteSyncId
    \/ /\ rows[m].remoteSyncId = rows[n].remoteSyncId
       /\ \/ rows[m].remoteSyncIndex < rows[n].remoteSyncIndex
          \/ rows[m].remoteSyncIndex = rows[n].remoteSyncIndex /\ m < n

(* WHERE remoteSyncId > lastSyncId.                                        *)
After(row, cursor) == row.remoteSyncId > cursor

(* getCommitsEvent: the refs of the commits after the cursor, 0 if there   *)
(* is none; the syncId of the event is that of the last one.               *)
GetCommitsEvent(rows, cursor) ==
    LET selected == {n \in DOMAIN rows : After(rows[n], cursor)}
        sorted == Sorted(selected, LAMBDA m, n : ServedBefore(rows, m, n))
    IN  [n \in DOMAIN sorted |-> rows[sorted[n]].ref]
=============================================================================
