------------------------------ MODULE LlmSnapshot ------------------------------
(***************************************************************************)
(* The lazily computed weekly verdict: generate_llm_snapshot with its      *)
(* three callers, its table of per-key locks, the one SQLite connection    *)
(* every coroutine of the process shares, and the staging fold that writes *)
(* the same repo_activity table.                                           *)
(*                                                                         *)
(* A step is what runs between two awaits.  A call is one coroutine; the   *)
(* identity of a call doubles as the id of the snapshot it drafts.         *)
(*                                                                         *)
(* `conn' is what the shared connection sees, the uncommitted statements   *)
(* of every coroutine included; `disk' is what a restart would find.  Any  *)
(* coroutine's commit makes everybody's statements durable.                *)
(***************************************************************************)
EXTENDS Naturals, FiniteSets

CONSTANTS
    Projects, Repos,
    Weeks,            \* ISO weeks, as numbers
    Calls,            \* coroutines entering generate_llm_snapshot, one shot each
    LockIds,          \* identities of asyncio.Lock objects
    NoLock, NoCall,
    LockCap,          \* the table is emptied when it holds more than this (256)
    Mapped,           \* repositories of the boundary in force in each project-week
    StagedBatches,    \* sets of staged (project-week, repository) a fold may find
    Paused            \* project-weeks whose scoring is suppressed by policy

Keys == Projects \X Weeks

ASSUME WeeksAssumption == Weeks \subseteq Nat
ASSUME LockCapAssumption == LockCap \in Nat
ASSUME NoLockAssumption == NoLock \notin LockIds
ASSUME NoCallAssumption == NoCall \notin Calls
ASSUME KeysAssumption == Keys # {}
ASSUME MappedAssumption == Mapped \in [Keys -> SUBSET Repos]
ASSUME PausedAssumption == Paused \subseteq Keys
ASSUME StagedAssumption == StagedBatches \subseteq SUBSET (Keys \X Repos)

VARIABLES now, table, pc, req, lock, draft, conn, disk, fold

vars == <<now, table, pc, req, lock, draft, conn, disk, fold>>

-------------------------------------------------------------------------------
(* Documents *)

\* One repo_activity document; `by' is its writer, NoCall for the staging fold.
Row == [key: Keys, repo: Repos, by: Calls \cup {NoCall}]

\* One warning of snapshot `snap', whose evidence cites a repo_activity row.
Warning == [snap: Calls, repo: Repos, source: Row]

\* A weekly snapshot; its warning_ids are the warnings (by, r), r in cites.
\* `asOf' is the week it was written in.
Snapshot == [key: Keys, by: Calls, cites: SUBSET Repos, asOf: Weeks]

Store == [activity: SUBSET Row, warnings: SUBSET Warning, snapshots: SUBSET Snapshot]
EmptyStore == [activity |-> {}, warnings |-> {}, snapshots |-> {}]

\* What a call has still to write, in this order: rows, warnings, snapshot.
Draft == [cites: SUBSET Repos, rows: SUBSET Row, warnings: SUBSET Warning]
EmptyDraft == [cites |-> {}, rows |-> {}, warnings |-> {}]

\* post: POST /projects/{id}/snapshots/at; cron: the weekly job;
\* deep: generate_cumulative_checkpoint judging one week of its deep tail.
Request == [key: Keys, kind: {"post", "cron", "deep"}, persist: BOOLEAN]

\* What an idle call's request reads as; no action looks at it.
NoRequest == [key |-> CHOOSE k \in Keys : TRUE, kind |-> "post", persist |-> TRUE]

Inspectable(store) ==
    \A s \in store.snapshots : \A r \in s.cites : \E w \in store.warnings :
        /\ w.snap = s.by /\ w.repo = r
        /\ w.source \in store.activity /\ w.source.key = s.key

SnapshotOf(store, k) == {s \in store.snapshots : s.key = k}

-------------------------------------------------------------------------------
(* Control *)

Holding == {"locked", "load", "judge", "read", "write", "commit"}
Active  == Holding \cup {"waiting"}
Final   == {"computed", "preview", "cached", "failed", "error", "timeout", "crashed"}

\* Lock objects somebody can still reach: the table's and the callers'.
InUse == {table[k] : k \in Keys} \cup {lock[c] : c \in Calls}

Entries == {k \in Keys : table[k] # NoLock}

Init ==
    /\ now \in Weeks
    /\ table = [k \in Keys |-> NoLock]
    /\ pc = [c \in Calls |-> "idle"]
    /\ req = [c \in Calls |-> NoRequest]
    /\ lock = [c \in Calls |-> NoLock]
    /\ draft = [c \in Calls |-> EmptyDraft]
    /\ conn = EmptyStore
    /\ disk = EmptyStore
    /\ fold = [pc |-> "idle", seen |-> {}, todo |-> {}]

\* The lock the table hands out for k: its entry, or a new object.
LockFor_AlwaysNew(kept, k) == LockIds \ InUse  \* mutant: assigns, no setdefault
LockFor(kept, k) == IF kept[k] # NoLock THEN {kept[k]} ELSE LockIds \ InUse

\* _llm_snapshot_lock: forget every lock once the table is over its cap, held
\* ones included, then hand out the key's lock.
GetLock(c, k) ==
    LET kept == IF Cardinality(Entries) > LockCap
                THEN [j \in Keys |-> NoLock] ELSE table
    IN \E l \in LockFor(kept, k) :
          /\ table' = [kept EXCEPT ![k] = l]
          /\ lock' = [lock EXCEPT ![c] = l]

\* A caller enters generate_llm_snapshot and queues for the key's lock.
Enter(c, k, kind, persist) ==
    /\ req' = [req EXCEPT ![c] = [key |-> k, kind |-> kind, persist |-> persist]]
    /\ pc' = [pc EXCEPT ![c] = "waiting"]
    /\ GetLock(c, k)
    /\ UNCHANGED <<now, draft, conn, disk, fold>>

\* The coroutine returns or raises; `async with lock' releases the lock.
Leave(c, outcome) ==
    /\ pc' = [pc EXCEPT ![c] = outcome]
    /\ lock' = [lock EXCEPT ![c] = NoLock]
    /\ draft' = [draft EXCEPT ![c] = EmptyDraft]

WeekIsOver_OrRunning(k) == k[2] <= now  \* mutant: > for >= in the refusal
WeekIsOver(k) == k[2] < now

\* POST for a week that is over and that the first look does not find cached.
Post(c, k) ==
    /\ pc[c] = "idle"
    /\ WeekIsOver(k)
    /\ SnapshotOf(conn, k) = {}
    /\ Enter(c, k, "post", TRUE)

\* POST answered from the cache, without the lock.
PostCached(c, k) ==
    /\ pc[c] = "idle"
    /\ WeekIsOver(k)
    /\ SnapshotOf(conn, k) # {}
    /\ req' = [req EXCEPT ![c] = [key |-> k, kind |-> "post", persist |-> TRUE]]
    /\ pc' = [pc EXCEPT ![c] = "cached"]
    /\ UNCHANGED <<now, table, lock, draft, conn, disk, fold>>

\* The weekly job, for the week it was given or the one in progress.  Its
\* semaphore is local to one run of the job, so it only delays some calls.
Cron(c, k) ==
    /\ pc[c] = "idle"
    /\ Enter(c, k, "cron", TRUE)

\* A cumulative checkpoint wants one week judged; the week in progress is
\* judged without being written.
Deep(c, k) ==
    /\ pc[c] = "idle"
    /\ k[2] <= now
    /\ Enter(c, k, "deep", k[2] # now)

\* Nobody is inside `async with' on the lock c queues for.
Free_NoQueue(c) == \A d \in Calls \ {c} : lock[d] # lock[c]  \* mutant: queued callers count
Free(c) == \A d \in Calls : lock[d] = lock[c] => pc[d] \notin Holding

Acquire(c) ==
    /\ pc[c] = "waiting"
    /\ Free(c)
    /\ pc' = [pc EXCEPT ![c] = "locked"]
    /\ UNCHANGED <<now, table, req, lock, draft, conn, disk, fold>>

\* The second look, under the lock.
ReadCache(c) ==
    /\ pc[c] = "locked"
    /\ IF SnapshotOf(conn, req[c].key) # {}
       THEN Leave(c, "cached")
       ELSE /\ pc' = [pc EXCEPT ![c] = "load"]
            /\ UNCHANGED <<lock, draft>>
    /\ UNCHANGED <<now, table, req, conn, disk, fold>>

Writes_Always(c) == TRUE  \* mutant: `if persist' dropped
Writes(c) == req[c].persist

\* Project and boundary.  A suppressed week is settled without evidence; a
\* project with no repository is given a verdict without asking the judge.
Load(c) ==
    LET k == req[c].key IN
    /\ pc[c] = "load"
    /\ IF k \in Paused
       THEN IF Writes(c)
            THEN pc' = [pc EXCEPT ![c] = "write"] /\ UNCHANGED <<lock, draft>>
            ELSE Leave(c, "preview")
       ELSE /\ pc' = [pc EXCEPT ![c] = IF Mapped[k] = {} THEN "read" ELSE "judge"]
            /\ UNCHANGED <<lock, draft>>
    /\ UNCHANGED <<now, table, req, conn, disk, fold>>

\* Diff evidence is fetched in a thread and the judge is asked: it raises
\* some concerns, or fails, or fetching the evidence raises.
Judge(c) ==
    /\ pc[c] = "judge"
    /\ \/ \E cites \in SUBSET Mapped[req[c].key] :
             /\ draft' = [draft EXCEPT ![c].cites = cites]
             /\ pc' = [pc EXCEPT ![c] = "read"]
             /\ UNCHANGED lock
       \/ Leave(c, "failed")
       \/ Leave(c, "error")
    /\ UNCHANGED <<now, table, req, conn, disk, fold>>

\* The warning of a concern about repository r, evidenced by an activity row.
Paper_UnderKey(c, r, row) ==  \* mutant: filed under the week, not the snapshot
    [snap |-> req[c].key, repo |-> r, source |-> row]
Paper(c, r, row) == [snap |-> c, repo |-> r, source |-> row]

\* Every judged repository is tied to the week's activity row: the one on
\* file when there is one, otherwise a row this call will write.
ReadActivity(c) ==
    LET k == req[c].key
        onFile(r) == {row \in conn.activity : row.key = k /\ row.repo = r}
        own(r) == [key |-> k, repo |-> r, by |-> c]
        fresh == {own(r) : r \in {r \in Mapped[k] : onFile(r) = {}}}
    IN
    /\ pc[c] = "read"
    /\ IF Writes(c)
       THEN /\ \E src \in [draft[c].cites -> conn.activity \cup fresh] :
                  /\ \A r \in draft[c].cites :
                        src[r] \in IF onFile(r) = {} THEN {own(r)} ELSE onFile(r)
                  /\ draft' = [draft EXCEPT
                        ![c].rows = fresh,
                        ![c].warnings = {Paper(c, r, src[r]) : r \in draft[c].cites}]
            /\ pc' = [pc EXCEPT ![c] = "write"]
            /\ UNCHANGED lock
       ELSE Leave(c, "preview")
    /\ UNCHANGED <<now, table, req, conn, disk, fold>>

WriteActivity(c) ==
    /\ pc[c] = "write"
    /\ \E row \in draft[c].rows :
          /\ conn' = [conn EXCEPT !.activity = @ \cup {row}]
          /\ draft' = [draft EXCEPT ![c].rows = @ \ {row}]
    /\ pc' = [pc EXCEPT ![c] = "commit"]
    /\ UNCHANGED <<now, table, req, lock, disk, fold>>

WriteWarning(c) ==
    /\ pc[c] = "write"
    /\ draft[c].rows = {}
    /\ \E w \in draft[c].warnings :
          /\ conn' = [conn EXCEPT !.warnings = @ \cup {w}]
          /\ draft' = [draft EXCEPT ![c].warnings = @ \ {w}]
    /\ pc' = [pc EXCEPT ![c] = "commit"]
    /\ UNCHANGED <<now, table, req, lock, disk, fold>>

\* A plain INSERT: the unique index makes it raise (no store results) when
\* the key is taken.
Inserted_Replacing(store, s) ==  \* mutant: INSERT OR REPLACE, as for other tables
    {[store EXCEPT !.snapshots = (@ \ SnapshotOf(store, s.key)) \cup {s}]}
Inserted_NoIndex(store, s) ==  \* mutant: no unique index
    {[store EXCEPT !.snapshots = @ \cup {s}]}
Inserted(store, s) ==
    IF SnapshotOf(store, s.key) # {} THEN {}
    ELSE {[store EXCEPT !.snapshots = @ \cup {s}]}

\* The snapshot is the last document to be written.
OnlySnapshotLeft_OrWarnings(c) == draft[c].rows = {}  \* mutant: snapshot before warnings
OnlySnapshotLeft(c) == draft[c].rows = {} /\ draft[c].warnings = {}

WriteSnapshot(c) ==
    LET s == [key |-> req[c].key, by |-> c, cites |-> draft[c].cites, asOf |-> now] IN
    /\ pc[c] = "write"
    /\ OnlySnapshotLeft(c)
    /\ \/ /\ Inserted(conn, s) = {}
          /\ Leave(c, "error")
          /\ UNCHANGED conn
       \/ /\ conn' \in Inserted(conn, s)
          /\ pc' = [pc EXCEPT ![c] = "commit"]
          /\ UNCHANGED <<lock, draft>>
    /\ UNCHANGED <<now, table, req, disk, fold>>

\* What a commit makes durable: everything the connection has executed.
Committed_Lost == disk  \* mutant: execute without commit
Committed == conn

\* The commit of the connection, not of the call's own statement.
Commit(c) ==
    /\ pc[c] = "commit"
    /\ disk' = Committed
    /\ IF \E s \in conn.snapshots : s.by = c
       THEN Leave(c, "computed")
       ELSE /\ pc' = [pc EXCEPT ![c] = "write"]
            /\ UNCHANGED <<lock, draft>>
    /\ UNCHANGED <<now, table, req, conn, fold>>

\* asyncio.wait_for cancels the call at whatever await it has reached; a
\* statement already handed to the connection stays, uncommitted, and a
\* commit already handed to it is carried out all the same.
Timeout(c) ==
    /\ pc[c] \in Active
    /\ Leave(c, "timeout")
    /\ \/ UNCHANGED disk
       \/ pc[c] = "commit" /\ disk' = Committed
    /\ UNCHANGED <<now, table, req, conn, fold>>

-------------------------------------------------------------------------------
(* The staging fold: the table is read once, then each staged key is added *)
(* when that read did not have it, and otherwise skipped or replaced.      *)

FoldStart ==
    /\ fold.pc = "idle"
    /\ \E staged \in StagedBatches :
          fold' = [pc |-> "folding", seen |-> conn.activity, todo |-> staged]
    /\ UNCHANGED <<now, table, pc, req, lock, draft, conn, disk>>

\* A row already there is replaced in place: UPDATE keeps its id.
Refolded_NewRow(x) ==  \* mutant: delete and add instead
    [conn EXCEPT !.activity = {row \in @ : row.key # x[1] \/ row.repo # x[2]}
                              \cup {[key |-> x[1], repo |-> x[2], by |-> NoCall]}]
Refolded(x) == conn

FoldRow ==
    /\ fold.pc = "folding"
    /\ \E x \in fold.todo :
          LET known == \E row \in fold.seen : row.key = x[1] /\ row.repo = x[2]
              rest == [fold EXCEPT !.todo = @ \ {x}]
          IN \/ /\ ~known
                /\ conn' = [conn EXCEPT !.activity =
                               @ \cup {[key |-> x[1], repo |-> x[2], by |-> NoCall]}]
                /\ fold' = [rest EXCEPT !.pc = "commit"]
             \/ /\ known
                /\ fold' = [rest EXCEPT !.pc = "commit"]
                /\ conn' = Refolded(x)
             \/ /\ known
                /\ fold' = rest
                /\ UNCHANGED conn
    /\ UNCHANGED <<now, table, pc, req, lock, draft, disk>>

FoldCommit ==
    /\ fold.pc = "commit"
    /\ disk' = Committed
    /\ fold' = [fold EXCEPT !.pc = "folding"]
    /\ UNCHANGED <<now, table, pc, req, lock, draft, conn>>

FoldDone ==
    /\ fold.pc = "folding" /\ fold.todo = {}
    /\ fold' = [pc |-> "idle", seen |-> {}, todo |-> {}]
    /\ UNCHANGED <<now, table, pc, req, lock, draft, conn, disk>>

-------------------------------------------------------------------------------
(* The world *)

Tick ==
    /\ now + 1 \in Weeks
    /\ now' = now + 1
    /\ UNCHANGED <<table, pc, req, lock, draft, conn, disk, fold>>

\* The process dies: coroutines, locks and uncommitted statements go.
Crash ==
    /\ pc' = [c \in Calls |-> IF pc[c] \in Active THEN "crashed" ELSE pc[c]]
    /\ table' = [k \in Keys |-> NoLock]
    /\ lock' = [c \in Calls |-> NoLock]
    /\ draft' = [c \in Calls |-> EmptyDraft]
    /\ fold' = [pc |-> "idle", seen |-> {}, todo |-> {}]
    /\ conn' = disk
    /\ UNCHANGED <<now, req, disk>>

-------------------------------------------------------------------------------

Ask(c, k) == Post(c, k) \/ PostCached(c, k) \/ Cron(c, k) \/ Deep(c, k)

Write(c) == WriteActivity(c) \/ WriteWarning(c) \/ WriteSnapshot(c)

Step(c) == ReadCache(c) \/ Load(c) \/ Judge(c) \/ ReadActivity(c) \/ Write(c) \/ Commit(c)

Next ==
    \/ \E c \in Calls, k \in Keys : Ask(c, k)
    \/ \E c \in Calls : Acquire(c) \/ Step(c) \/ Timeout(c)
    \/ FoldStart \/ FoldRow \/ FoldCommit \/ FoldDone
    \/ Tick \/ Crash

Spec == Init /\ [][Next]_vars

\* The event loop runs every ready coroutine, asyncio.Lock is first come first
\* served, and the HTTP clients behind Judge have timeouts of their own.
\* Nothing obliges a request to arrive, a timeout or a crash to strike, or the
\* clock to reach the next week.
FairSpec ==
    /\ Spec
    /\ \A c \in Calls : WF_vars(Step(c)) /\ SF_vars(Acquire(c))

-------------------------------------------------------------------------------
(* Properties *)

TypeOK ==
    /\ now \in Weeks
    /\ table \in [Keys -> LockIds \cup {NoLock}]
    /\ pc \in [Calls -> {"idle"} \cup Active \cup Final]
    /\ req \in [Calls -> Request]
    /\ lock \in [Calls -> LockIds \cup {NoLock}]
    /\ draft \in [Calls -> Draft]
    /\ conn \in Store
    /\ disk \in Store
    /\ fold \in [pc: {"idle", "folding", "commit"}, seen: SUBSET Row,
                 todo: SUBSET (Keys \X Repos)]

\* Two callers of one project-week never compute it at the same time, from the
\* second look at the cache to the last commit: what the per-key lock is for.
\* It holds as long as the lock table is never emptied.
OneCallerComputes ==
    \A c, d \in Calls :
        /\ c # d
        /\ pc[c] \in Holding /\ pc[d] \in Holding
        => req[c].key # req[d].key

\* A project-week has at most one verdict, whoever raced to write it, even
\* when two callers hold different locks for it.
OneVerdictPerWeek ==
    \A s, t \in conn.snapshots : s.key = t.key => s = t

\* A verdict a restart would find never cites evidence the restart would have
\* lost: its warnings, and the activity row each of them points at, reached
\* the disk no later than the verdict ("warnings must include inspectable raw
\* evidence references").
VerdictsAreInspectable == Inspectable(disk)

\* A judgement that failed, a preview and an answer from the cache leave no
\* document of their own behind, so a later retry starts from a clean week.
NothingWrittenUnlessComputing ==
    \A c \in Calls : pc[c] \in {"failed", "cached"} \/ ~req[c].persist =>
        /\ \A row \in conn.activity : row.by # c
        /\ \A w \in conn.warnings : w.snap # c
        /\ \A s \in conn.snapshots : s.by # c

\* Only the weekly job freezes the verdict of a week that is not over:
\* POST refuses such a week and a checkpoint judges it without writing.
OnlyCronFreezesARunningWeek ==
    \A s \in conn.snapshots : s.asOf <= s.key[2] => req[s.by].kind = "cron"

\* A caller told "computed" can rely on the verdict through any restart.
ComputedIsDurable ==
    \A c \in Calls : pc[c] = "computed" =>
        \E s \in disk.snapshots : s.by = c /\ s.key = req[c].key

\* A durable verdict is never replaced or dropped, by retries, races or
\* crashes ("snapshots are immutable once written").
VerdictsAreImmutable == [][disk.snapshots \subseteq disk'.snapshots]_vars

\* The durable part of the store is an append-only ledger of verdicts.
Ledger == INSTANCE SnapshotLedger WITH ledger <- disk.snapshots, archive <- disk.warnings
ImplementsLedger == Ledger!Spec

\* Every call that gets past its first look is eventually answered.
EveryCallIsAnswered == \A c \in Calls : pc[c] \in Active ~> pc[c] \in Final
===============================================================================
