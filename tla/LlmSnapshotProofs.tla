--------------------------- MODULE LlmSnapshotProofs ---------------------------
(***************************************************************************)
(* Theorems about LlmSnapshot for any set of projects, weeks, repositories *)
(* and callers.  Typing first, then the lock, then the store.              *)
(***************************************************************************)
EXTENDS LlmSnapshot, FiniteSetTheorems, TLAPS

USE DEF Holding, Active, Final, Writes, Committed, Refolded, Paper

\* The stores and drafts a step may leave behind are the kinds TypeOK allows.
LEMMA LeaveTypes ==
    ASSUME TypeOK, NEW c \in Calls, NEW o \in Final, Leave(c, o)
    PROVE  /\ pc' \in [Calls -> {"idle"} \cup Active \cup Final]
           /\ lock' \in [Calls -> LockIds \cup {NoLock}]
           /\ draft' \in [Calls -> Draft]
BY DEF TypeOK, Leave, EmptyDraft, Draft

LEMMA EnterTypes ==
    ASSUME TypeOK, NEW c \in Calls, NEW k \in Keys,
           NEW kind \in {"post", "cron", "deep"}, NEW p \in BOOLEAN,
           Enter(c, k, kind, p)
    PROVE  TypeOK'
<1>1. table' \in [Keys -> LockIds \cup {NoLock}] /\ lock' \in [Calls -> LockIds \cup {NoLock}]
  <2> DEFINE kept == IF Cardinality(Entries) > LockCap
                     THEN [j \in Keys |-> NoLock] ELSE table
  <2>1. PICK l \in IF kept[k] # NoLock THEN {kept[k]} ELSE LockIds \ InUse :
            table' = [kept EXCEPT ![k] = l] /\ lock' = [lock EXCEPT ![c] = l]
    BY Zenon DEF Enter, GetLock, LockFor
  <2>2. kept \in [Keys -> LockIds \cup {NoLock}]
    BY DEF TypeOK
  <2>3. l \in LockIds \cup {NoLock}
    BY <2>2
  <2>4. QED BY <2>1, <2>2, <2>3 DEF TypeOK
<1>2. QED BY <1>1 DEF TypeOK, Enter, Request

\* The rows and warnings a call plans to write are well formed.
LEMMA ReadActivityTypes ==
    ASSUME TypeOK, NEW c \in Calls, ReadActivity(c)
    PROVE  TypeOK'
<1> DEFINE k == req[c].key
           onFile(r) == {row \in conn.activity : row.key = k /\ row.repo = r}
           own(r) == [key |-> k, repo |-> r, by |-> c]
           fresh == {own(r) : r \in {r \in Mapped[k] : onFile(r) = {}}}
<1>1. k \in Keys /\ draft[c] \in Draft /\ draft[c].cites \subseteq Repos
  BY DEF TypeOK, Request, Draft
<1>2. \A r \in Repos : own(r) \in Row
  BY <1>1 DEF Row
<1>3. fresh \subseteq Row /\ conn.activity \subseteq Row
  BY <1>1, <1>2, MappedAssumption DEF TypeOK, Store
<1>4. CASE req[c].persist
  <2>1. PICK src \in [draft[c].cites -> conn.activity \cup fresh] :
          draft' = [draft EXCEPT
                      ![c].rows = fresh,
                      ![c].warnings = {Paper(c, r, src[r]) : r \in draft[c].cites}]
    BY <1>4 DEF ReadActivity
  <2> DEFINE papers == {Paper(c, r, src[r]) : r \in draft[c].cites}
  <2>2. papers \subseteq Warning
    BY <1>1, <1>3 DEF Warning
  <2>3. draft' = [draft EXCEPT ![c].rows = fresh, ![c].warnings = papers]
    BY <2>1
  <2> HIDE DEF fresh, papers
  <2>4. draft' \in [Calls -> Draft]
    BY <1>1, <1>3, <2>2, <2>3 DEF TypeOK, Draft
  <2>5. QED BY <1>4, <2>4 DEF ReadActivity, TypeOK
<1>5. CASE ~req[c].persist
  BY <1>5, LeaveTypes DEF ReadActivity, TypeOK
<1>6. QED BY <1>4, <1>5

-------------------------------------------------------------------------------
\* Every variable keeps its type, whatever calls, folds and crashes do.
THEOREM TypeCorrect == Spec => []TypeOK
<1>1. Init => TypeOK
  BY KeysAssumption DEF Init, TypeOK, NoRequest, Request, EmptyDraft, Draft, EmptyStore, Store
<1>2. TypeOK /\ [Next]_vars => TypeOK'
  <2> SUFFICES ASSUME TypeOK, [Next]_vars PROVE TypeOK'
    OBVIOUS
  <2>1. ASSUME NEW c \in Calls, NEW k \in Keys, Ask(c, k) PROVE TypeOK'
    <3>1. CASE Post(c, k) BY <3>1, EnterTypes DEF Post
    <3>2. CASE PostCached(c, k) BY <3>2 DEF PostCached, TypeOK, Request
    <3>3. CASE Cron(c, k) BY <3>3, EnterTypes DEF Cron
    <3>4. CASE Deep(c, k) BY <3>4, EnterTypes DEF Deep
    <3>5. QED BY <2>1, <3>1, <3>2, <3>3, <3>4 DEF Ask
  <2>2. ASSUME NEW c \in Calls, Acquire(c) PROVE TypeOK'
    BY <2>2 DEF Acquire, TypeOK
  <2>3. ASSUME NEW c \in Calls, ReadCache(c) PROVE TypeOK'
    BY <2>3, LeaveTypes DEF ReadCache, TypeOK
  <2>4. ASSUME NEW c \in Calls, Load(c) PROVE TypeOK'
    BY <2>4, LeaveTypes DEF Load, TypeOK
  <2>5. ASSUME NEW c \in Calls, Judge(c) PROVE TypeOK'
    <3>1. CASE Leave(c, "failed") \/ Leave(c, "error")
      BY <2>5, <3>1, LeaveTypes DEF Judge, TypeOK
    <3>2. ASSUME NEW cites \in SUBSET Mapped[req[c].key],
                 draft' = [draft EXCEPT ![c].cites = cites],
                 pc' = [pc EXCEPT ![c] = "read"], UNCHANGED lock
          PROVE  TypeOK'
      <4>1. req[c].key \in Keys
        BY DEF TypeOK, Request
      <4>2. cites \in SUBSET Repos
        BY <4>1, MappedAssumption
      <4>3. QED BY <2>5, <3>2, <4>2 DEF Judge, TypeOK, Draft
    <3>3. QED BY <2>5, <3>1, <3>2 DEF Judge
  <2>6. ASSUME NEW c \in Calls, ReadActivity(c) PROVE TypeOK'
    BY <2>6, ReadActivityTypes
  <2>7. ASSUME NEW c \in Calls, WriteActivity(c) PROVE TypeOK'
    <3>1. PICK row \in draft[c].rows :
            /\ conn' = [conn EXCEPT !.activity = @ \cup {row}]
            /\ draft' = [draft EXCEPT ![c].rows = @ \ {row}]
      BY <2>7 DEF WriteActivity
    <3>2. draft[c] \in Draft /\ row \in Row
      BY DEF TypeOK, Draft
    <3>3. conn' \in Store
      BY <3>1, <3>2 DEF TypeOK, Store
    <3>4. draft' \in [Calls -> Draft]
      BY <3>1, <3>2 DEF TypeOK, Draft
    <3>5. QED BY <2>7, <3>3, <3>4 DEF WriteActivity, TypeOK
  <2>8. ASSUME NEW c \in Calls, WriteWarning(c) PROVE TypeOK'
    <3>1. PICK w \in draft[c].warnings :
            /\ conn' = [conn EXCEPT !.warnings = @ \cup {w}]
            /\ draft' = [draft EXCEPT ![c].warnings = @ \ {w}]
      BY <2>8 DEF WriteWarning
    <3>2. draft[c] \in Draft /\ w \in Warning
      BY DEF TypeOK, Draft
    <3>3. conn' \in Store
      BY <3>1, <3>2 DEF TypeOK, Store
    <3>4. draft' \in [Calls -> Draft]
      BY <3>1, <3>2 DEF TypeOK, Draft
    <3>5. QED BY <2>8, <3>3, <3>4 DEF WriteWarning, TypeOK
  <2>9. ASSUME NEW c \in Calls, WriteSnapshot(c) PROVE TypeOK'
    <3> DEFINE s == [key |-> req[c].key, by |-> c, cites |-> draft[c].cites, asOf |-> now]
    <3>1. CASE Leave(c, "error") /\ UNCHANGED conn
      BY <2>9, <3>1, LeaveTypes DEF WriteSnapshot, TypeOK
    <3>2. CASE /\ conn' = [conn EXCEPT !.snapshots = @ \cup {s}]
               /\ pc' = [pc EXCEPT ![c] = "commit"]
               /\ UNCHANGED <<lock, draft>>
      <4>1. s \in Snapshot
        BY DEF TypeOK, Snapshot, Request, Draft
      <4>2. conn' \in Store
        BY <3>2, <4>1 DEF TypeOK, Store
      <4>3. QED BY <2>9, <3>2, <4>2 DEF WriteSnapshot, TypeOK
    <3>3. QED BY <2>9, <3>1, <3>2 DEF WriteSnapshot, Inserted
  <2>10. ASSUME NEW c \in Calls, Commit(c) PROVE TypeOK'
    BY <2>10, LeaveTypes DEF Commit, TypeOK
  <2>11. ASSUME NEW c \in Calls, Timeout(c) PROVE TypeOK'
    BY <2>11, LeaveTypes DEF Timeout, TypeOK
  <2>12. CASE FoldStart
    BY <2>12, StagedAssumption DEF FoldStart, TypeOK, Store
  <2>13. CASE FoldRow
    <3>1. PICK x \in fold.todo :
            /\ \/ conn' = [conn EXCEPT !.activity =
                              @ \cup {[key |-> x[1], repo |-> x[2], by |-> NoCall]}]
               \/ UNCHANGED conn
            /\ \/ fold' = [fold EXCEPT !.todo = @ \ {x}]
               \/ fold' = [[fold EXCEPT !.todo = @ \ {x}] EXCEPT !.pc = "commit"]
      BY <2>13 DEF FoldRow
    <3>2. [key |-> x[1], repo |-> x[2], by |-> NoCall] \in Row
      BY DEF TypeOK, Row
    <3>3. conn' \in Store
      BY <3>1, <3>2 DEF TypeOK, Store
    <3>4. fold' \in [pc: {"idle", "folding", "commit"}, seen: SUBSET Row,
                    todo: SUBSET (Keys \X Repos)]
      <4>1. fold.todo \ {x} \in SUBSET (Keys \X Repos)
        BY DEF TypeOK
      <4>2. CASE fold' = [fold EXCEPT !.todo = @ \ {x}]
        BY <4>1, <4>2 DEF TypeOK
      <4>3. CASE fold' = [[fold EXCEPT !.todo = @ \ {x}] EXCEPT !.pc = "commit"]
        BY <4>1, <4>3 DEF TypeOK
      <4>4. QED BY <3>1, <4>2, <4>3
    <3>5. QED BY <2>13, <3>3, <3>4 DEF FoldRow, TypeOK
  <2>14. CASE FoldCommit
    BY <2>14 DEF FoldCommit, TypeOK
  <2>15. CASE FoldDone
    BY <2>15 DEF FoldDone, TypeOK
  <2>16. CASE Tick
    BY <2>16 DEF Tick, TypeOK
  <2>17. CASE Crash
    BY <2>17 DEF Crash, TypeOK, EmptyDraft, Draft
  <2>18. CASE UNCHANGED vars
    BY <2>18 DEF vars, TypeOK
  <2>19. QED
    BY <2>1, <2>2, <2>3, <2>4, <2>5, <2>6, <2>7, <2>8, <2>9, <2>10, <2>11,
       <2>12, <2>13, <2>14, <2>15, <2>16, <2>17, <2>18 DEF Next, Step, Write
<1>3. QED BY <1>1, <1>2, PTL DEF Spec

-------------------------------------------------------------------------------
(* The lock.  The table never forgets a lock as long as it is allowed to   *)
(* hold one for every project-week, and then the key's entry is the lock   *)
(* every active caller of that key has.                                    *)

TableFits == IsFiniteSet(Keys) /\ Cardinality(Keys) <= LockCap

LockInv ==
    /\ \A c \in Calls : pc[c] \in Active =>
          lock[c] # NoLock /\ lock[c] = table[req[c].key]
    /\ \A c, d \in Calls :
          c # d /\ pc[c] \in Holding /\ pc[d] \in Holding => lock[c] # lock[d]

\* Below its cap the table is never emptied.
LEMMA NeverEmptied == TableFits => ~(Cardinality(Entries) > LockCap)
<1> SUFFICES ASSUME TableFits PROVE ~(Cardinality(Entries) > LockCap)
  OBVIOUS
<1>1. Entries \subseteq Keys
  BY DEF Entries
<1>2. /\ IsFiniteSet(Entries) /\ Cardinality(Entries) <= Cardinality(Keys)
  BY <1>1, FS_Subset DEF TableFits
<1>3. Cardinality(Entries) \in Nat /\ Cardinality(Keys) \in Nat
  BY <1>2, FS_CardinalityType DEF TableFits
<1>4. QED BY <1>2, <1>3, LockCapAssumption DEF TableFits

\* A new caller gets the lock its key's callers already have.
LEMMA EnterKeepsLocks ==
    ASSUME TypeOK, LockInv, TableFits, NEW c \in Calls, NEW k \in Keys,
           NEW kind \in {"post", "cron", "deep"}, NEW p \in BOOLEAN,
           pc[c] = "idle", Enter(c, k, kind, p)
    PROVE  LockInv'
<1>1. PICK l \in IF table[k] # NoLock THEN {table[k]} ELSE LockIds \ InUse :
          table' = [table EXCEPT ![k] = l] /\ lock' = [lock EXCEPT ![c] = l]
  BY NeverEmptied, Zenon DEF Enter, GetLock, LockFor
<1>2. l # NoLock /\ (table[k] # NoLock => l = table[k])
  BY <1>1, NoLockAssumption
<1>3. /\ pc' = [pc EXCEPT ![c] = "waiting"]
      /\ req' = [req EXCEPT ![c] = [key |-> k, kind |-> kind, persist |-> p]]
  BY DEF Enter
<1>4. \A d \in Calls : pc'[d] \in Active => lock'[d] # NoLock /\ lock'[d] = table'[req'[d].key]
  <2> SUFFICES ASSUME NEW d \in Calls, pc'[d] \in Active
               PROVE  lock'[d] # NoLock /\ lock'[d] = table'[req'[d].key]
    OBVIOUS
  <2>1. CASE d = c
    BY <2>1, <1>1, <1>2, <1>3 DEF TypeOK
  <2>2. CASE d # c
    <3>1. lock[d] # NoLock /\ lock[d] = table[req[d].key] /\ req[d].key \in Keys
      BY <2>2, <1>3 DEF LockInv, TypeOK, Request
    <3>2. lock'[d] = lock[d] /\ req'[d] = req[d] /\ table'[req[d].key] = table[req[d].key]
      BY <2>2, <3>1, <1>1, <1>2, <1>3 DEF TypeOK
    <3>3. QED BY <3>1, <3>2
  <2>3. QED BY <2>1, <2>2
<1>5. \A d, e \in Calls :
          d # e /\ pc'[d] \in Holding /\ pc'[e] \in Holding => lock'[d] # lock'[e]
  BY <1>1, <1>3 DEF LockInv, TypeOK
<1>6. QED BY <1>4, <1>5 DEF LockInv

\* A caller that leaves, or works on under its lock, changes nobody's lock.
LEMMA HoldingKeepsLocks ==
    ASSUME TypeOK, LockInv, NEW c \in Calls, pc[c] \in Active,
           UNCHANGED <<table, req>>,
           \/ pc[c] \in Holding /\ (\E q \in Holding : pc' = [pc EXCEPT ![c] = q])
              /\ UNCHANGED lock
           \/ \E o \in Final : Leave(c, o)
    PROVE  LockInv'
BY DEF TypeOK, LockInv, Leave

\* The steps of a call under its lock are of the kind just described.
LEMMA StepIsHolding ==
    ASSUME NEW c \in Calls, Step(c) \/ Timeout(c)
    PROVE  /\ pc[c] \in Active
           /\ UNCHANGED <<table, req>>
           /\ \/ pc[c] \in Holding /\ (\E q \in Holding : pc' = [pc EXCEPT ![c] = q])
                 /\ UNCHANGED lock
              \/ \E o \in Final : Leave(c, o)
<1>1. CASE ReadCache(c) BY <1>1 DEF ReadCache
<1>2. CASE Load(c) BY <1>2 DEF Load
<1>3. CASE Judge(c) BY <1>3 DEF Judge
<1>4. CASE ReadActivity(c) BY <1>4 DEF ReadActivity
<1>5. CASE Write(c) BY <1>5 DEF Write, WriteActivity, WriteWarning, WriteSnapshot
<1>6. CASE Commit(c) BY <1>6 DEF Commit
<1>7. CASE Timeout(c) BY <1>7 DEF Timeout
<1>8. QED BY <1>1, <1>2, <1>3, <1>4, <1>5, <1>6, <1>7 DEF Step

\* The per-key lock keeps any two callers of one project-week apart from the
\* second look at the cache to the last commit, provided the lock table may
\* hold a lock for every project-week (generate_llm_snapshot, _llm_snapshot_lock).
THEOREM LockExcludes ==
    ASSUME TableFits
    PROVE  Spec => []OneCallerComputes
<1>1. Init => LockInv
  BY DEF Init, LockInv
<1>2. TypeOK /\ LockInv /\ [Next]_vars => LockInv'
  <2> SUFFICES ASSUME TypeOK, LockInv, [Next]_vars PROVE LockInv'
    OBVIOUS
  <2>1. ASSUME NEW c \in Calls, NEW k \in Keys, Ask(c, k) PROVE LockInv'
    <3>1. CASE Post(c, k) BY <3>1, EnterKeepsLocks DEF Post
    <3>2. CASE PostCached(c, k) BY <3>2 DEF PostCached, LockInv, TypeOK
    <3>3. CASE Cron(c, k) BY <3>3, EnterKeepsLocks DEF Cron
    <3>4. CASE Deep(c, k) BY <3>4, EnterKeepsLocks DEF Deep
    <3>5. QED BY <2>1, <3>1, <3>2, <3>3, <3>4 DEF Ask
  <2>2. ASSUME NEW c \in Calls, Acquire(c) PROVE LockInv'
    BY <2>2 DEF Acquire, Free, LockInv, TypeOK
  <2>3. ASSUME NEW c \in Calls, Step(c) \/ Timeout(c) PROVE LockInv'
    BY <2>3, StepIsHolding, HoldingKeepsLocks
  <2>4. CASE FoldStart \/ FoldRow \/ FoldCommit \/ FoldDone \/ Tick \/ UNCHANGED vars
    BY <2>4 DEF FoldStart, FoldRow, FoldCommit, FoldDone, Tick, vars, LockInv
  <2>5. CASE Crash
    BY <2>5 DEF Crash, LockInv, TypeOK
  <2> QED BY <2>1, <2>2, <2>3, <2>4, <2>5 DEF Next
<1>3. LockInv => OneCallerComputes
  BY DEF LockInv, OneCallerComputes
<1>4. QED BY <1>1, <1>2, <1>3, TypeCorrect, PTL DEF Spec

-------------------------------------------------------------------------------
(* The store.  Nothing here needs the lock: a verdict is written after its *)
(* warnings and its rows, and a commit carries everything executed before. *)

DiskInConn ==
    /\ disk.activity \subseteq conn.activity
    /\ disk.warnings \subseteq conn.warnings
    /\ disk.snapshots \subseteq conn.snapshots

OneVerdict(store) == \A s, t \in store.snapshots : s.key = t.key => s = t

\* Warning w backs citation r of call c: its row is on file or about to be.
Backs(w, c, r) ==
    /\ w.snap = c /\ w.repo = r /\ w.source.key = req[c].key
    /\ w.source \in conn.activity \cup draft[c].rows

\* A call that has not judged yet cites nothing; one that is writing has a
\* warning planned or written for every citation.
DraftOK(c) ==
    /\ pc[c] \in {"idle", "waiting", "locked", "load", "judge"} => draft[c].cites = {}
    /\ pc[c] \in {"write", "commit"} => \A r \in draft[c].cites :
          \E w \in draft[c].warnings \cup conn.warnings : Backs(w, c, r)

DraftInv == \A c \in Calls : DraftOK(c)

StoreInv ==
    /\ DiskInConn
    /\ OneVerdict(conn)
    /\ Inspectable(conn)
    /\ Inspectable(disk)
    /\ DraftInv

\* A step either leaves the disk alone or commits what the connection sees.
LEMMA DiskSteps ==
    ASSUME [Next]_vars
    PROVE  disk' = disk \/ (disk' = conn /\ conn' = conn)
<1>1. ASSUME NEW c \in Calls, NEW k \in Keys, Ask(c, k) PROVE disk' = disk
  BY <1>1 DEF Ask, Post, PostCached, Cron, Deep, Enter
<1>2. ASSUME NEW c \in Calls, Acquire(c) \/ Step(c) \/ Timeout(c)
      PROVE  disk' = disk \/ (disk' = conn /\ conn' = conn)
  BY <1>2 DEF Acquire, Step, ReadCache, Load, Judge, ReadActivity, Write, WriteActivity,
              WriteWarning, WriteSnapshot, Commit, Timeout
<1>3. CASE FoldStart \/ FoldRow \/ FoldCommit \/ FoldDone
  BY <1>3 DEF FoldStart, FoldRow, FoldCommit, FoldDone
<1>4. CASE Tick \/ Crash \/ UNCHANGED vars
  BY <1>4 DEF Tick, Crash, vars
<1>5. QED BY <1>1, <1>2, <1>3, <1>4 DEF Next

Grows ==
    /\ conn.activity \subseteq conn'.activity
    /\ conn.warnings \subseteq conn'.warnings

\* The drafts of the other calls stay backed while the store only grows.
LEMMA OtherDrafts ==
    ASSUME DraftInv, NEW c, Grows,
           \A d \in Calls \ {c} : pc'[d] = pc[d] /\ draft'[d] = draft[d] /\ req'[d] = req[d],
           c \in Calls => DraftOK(c)'
    PROVE  DraftInv'
<1> SUFFICES ASSUME NEW d \in Calls, d # c PROVE DraftOK(d)'
  BY DEF DraftInv, DraftOK
<1>1. pc'[d] = pc[d] /\ draft'[d] = draft[d] /\ req'[d] = req[d] /\ DraftOK(d)
  BY DEF DraftInv, DraftOK
<1>2. ASSUME pc[d] \in {"write", "commit"}, NEW r \in draft[d].cites
      PROVE  \E w \in draft[d].warnings \cup conn'.warnings : Backs(w, d, r)'
  BY <1>1, <1>2 DEF DraftOK, Backs, Grows
<1>3. QED BY <1>1, <1>2 DEF DraftOK

\* The rest of StoreInv when no verdict is added.
LEMMA NoNewVerdict ==
    ASSUME StoreInv, Grows, conn'.snapshots = conn.snapshots,
           disk' = disk \/ (disk' = conn /\ conn' = conn), DraftInv'
    PROVE  StoreInv'
<1>1. CASE disk' = disk
  BY <1>1 DEF StoreInv, DiskInConn, OneVerdict, Inspectable, Grows
<1>2. CASE disk' = conn /\ conn' = conn
  BY <1>2 DEF StoreInv, DiskInConn, OneVerdict, Inspectable, Grows
<1>3. QED BY <1>1, <1>2

\* Steps that touch neither table of the store keep DraftInv call by call.
LEMMA QuietSteps ==
    ASSUME TypeOK, DraftInv, NEW c \in Calls,
           \/ \E k \in Keys : Ask(c, k)
           \/ Acquire(c) \/ ReadCache(c) \/ Load(c) \/ Judge(c) \/ Commit(c) \/ Timeout(c)
    PROVE  DraftInv' /\ conn' = conn
<1>1. conn' = conn
  BY DEF Ask, Post, PostCached, Cron, Deep, Enter, Acquire, ReadCache, Load, Judge,
         Commit, Timeout
<1>2. \A d \in Calls \ {c} : pc'[d] = pc[d] /\ draft'[d] = draft[d] /\ req'[d] = req[d]
  BY DEF Ask, Post, PostCached, Cron, Deep, Enter, Acquire, ReadCache, Load, Judge,
         Commit, Timeout, Leave, TypeOK
<1>3. DraftOK(c)'
  <2>0. DraftOK(c) /\ draft[c] \in Draft
    BY DEF DraftInv, DraftOK, TypeOK
  <2>1. ASSUME NEW o \in Final, Leave(c, o) PROVE DraftOK(c)'
    BY <2>1 DEF Leave, DraftOK, EmptyDraft, TypeOK
  <2>2. ASSUME NEW k \in Keys, Ask(c, k) PROVE DraftOK(c)'
    BY <2>0, <2>2 DEF Ask, Post, PostCached, Cron, Deep, Enter, DraftOK, TypeOK
  <2>3. CASE Acquire(c) BY <2>0, <2>3 DEF Acquire, DraftOK, TypeOK
  <2>4. CASE ReadCache(c) BY <2>0, <2>1, <2>4 DEF ReadCache, DraftOK, TypeOK
  <2>5. CASE Load(c) BY <2>0, <2>1, <2>5 DEF Load, DraftOK, TypeOK
  <2>6. CASE Judge(c) BY <2>0, <2>1, <2>6 DEF Judge, DraftOK, TypeOK
  <2>7. CASE Commit(c) BY <1>1, <2>0, <2>1, <2>7 DEF Commit, DraftOK, TypeOK, Backs
  <2>8. CASE Timeout(c) BY <2>1, <2>8 DEF Timeout
  <2>9. QED BY <2>2, <2>3, <2>4, <2>5, <2>6, <2>7, <2>8
<1>4. QED BY <1>1, <1>2, <1>3, OtherDrafts DEF Grows

\* A call about to write has a paper planned or filed for every citation.
LEMMA ReadActivityBacks ==
    ASSUME TypeOK, DraftInv, NEW c \in Calls, ReadActivity(c)
    PROVE  DraftInv'
<1> DEFINE k == req[c].key
           onFile(r) == {row \in conn.activity : row.key = k /\ row.repo = r}
           own(r) == [key |-> k, repo |-> r, by |-> c]
           fresh == {own(r) : r \in {r \in Mapped[k] : onFile(r) = {}}}
<1>1. CASE ~req[c].persist
  <2>1. Leave(c, "preview")
    BY <1>1 DEF ReadActivity
  <2>2. DraftOK(c)'
    BY <2>1 DEF Leave, DraftOK, EmptyDraft, TypeOK
  <2>3. QED BY <2>1, <2>2, OtherDrafts DEF ReadActivity, Leave, TypeOK, Grows
<1>2. CASE req[c].persist
  <2>1. PICK src \in [draft[c].cites -> conn.activity \cup fresh] :
          /\ \A r \in draft[c].cites :
                src[r] \in IF onFile(r) = {} THEN {own(r)} ELSE onFile(r)
          /\ draft' = [draft EXCEPT
                ![c].rows = fresh,
                ![c].warnings = {Paper(c, r, src[r]) : r \in draft[c].cites}]
    BY <1>2 DEF ReadActivity
  <2> DEFINE paper(r) == Paper(c, r, src[r])
  <2>2. /\ draft'[c].rows = fresh /\ draft'[c].cites = draft[c].cites
        /\ draft'[c].warnings = {paper(r) : r \in draft[c].cites}
    BY <2>1 DEF TypeOK, Draft
  <2>3. pc' = [pc EXCEPT ![c] = "write"] /\ conn' = conn /\ req' = req
    BY <1>2 DEF ReadActivity
  <2>4. ASSUME NEW r \in draft[c].cites
        PROVE  paper(r) \in draft'[c].warnings /\ Backs(paper(r), c, r)'
    <3>1. src[r] \in conn.activity \cup fresh
      BY <2>1
    <3>2. src[r] \in {own(r)} \/ src[r] \in onFile(r)
      BY <2>1
    <3>3. src[r].key = k
      BY <3>2
    <3>4. paper(r) \in draft'[c].warnings
      BY <2>2
    <3>5. /\ paper(r).snap = c /\ paper(r).repo = r /\ paper(r).source.key = req'[c].key
          /\ paper(r).source \in conn'.activity \cup draft'[c].rows
      BY <2>2, <2>3, <3>1, <3>3
    <3>6. QED BY <3>4, <3>5 DEF Backs
  <2>5. DraftOK(c)'
    BY <2>2, <2>3, <2>4 DEF DraftOK, TypeOK
  <2>6. \A d \in Calls \ {c} : pc'[d] = pc[d] /\ draft'[d] = draft[d] /\ req'[d] = req[d]
    BY <2>1, <2>3 DEF TypeOK
  <2>7. QED BY <2>3, <2>5, <2>6, OtherDrafts DEF Grows
<1>3. QED BY <1>1, <1>2

\* Writing a row or a warning keeps the writer's citations backed.
LEMMA WriteBacks ==
    ASSUME TypeOK, DraftInv, NEW c \in Calls, WriteActivity(c) \/ WriteWarning(c)
    PROVE  DraftInv' /\ Grows /\ conn'.snapshots = conn.snapshots
<1>0. DraftOK(c) /\ pc[c] = "write" /\ draft[c] \in Draft /\ conn \in Store
  BY DEF DraftInv, DraftOK, TypeOK, WriteActivity, WriteWarning
<1>1. PICK rows \in SUBSET draft[c].rows, papers \in SUBSET draft[c].warnings :
        /\ conn' = [conn EXCEPT !.activity = @ \cup rows, !.warnings = @ \cup papers]
        /\ draft' = [draft EXCEPT ![c].rows = @ \ rows, ![c].warnings = @ \ papers]
  <2>1. CASE WriteActivity(c)
    <3>1. PICK row \in draft[c].rows :
            /\ conn' = [conn EXCEPT !.activity = @ \cup {row}]
            /\ draft' = [draft EXCEPT ![c].rows = @ \ {row}]
      BY <2>1 DEF WriteActivity
    <3>2. conn' = [conn EXCEPT !.activity = @ \cup {row}, !.warnings = @ \cup {}]
      BY <1>0, <3>1 DEF Store
    <3>3. draft' = [draft EXCEPT ![c].rows = @ \ {row}, ![c].warnings = @ \ {}]
      BY <1>0, <3>1 DEF TypeOK, Draft
    <3>4. QED BY <3>2, <3>3
  <2>2. CASE WriteWarning(c)
    <3>1. PICK w \in draft[c].warnings :
            /\ conn' = [conn EXCEPT !.warnings = @ \cup {w}]
            /\ draft' = [draft EXCEPT ![c].warnings = @ \ {w}]
      BY <2>2 DEF WriteWarning
    <3>2. conn' = [conn EXCEPT !.activity = @ \cup {}, !.warnings = @ \cup {w}]
      BY <1>0, <3>1 DEF Store
    <3>3. draft' = [draft EXCEPT ![c].rows = @ \ {}, ![c].warnings = @ \ {w}]
      BY <1>0, <3>1 DEF TypeOK, Draft
    <3>4. QED BY <3>2, <3>3
  <2>3. QED BY <2>1, <2>2
<1>2. /\ conn'.activity = conn.activity \cup rows
      /\ conn'.warnings = conn.warnings \cup papers
      /\ conn'.snapshots = conn.snapshots
  BY <1>0, <1>1 DEF Store
<1>3. /\ draft'[c].cites = draft[c].cites
      /\ draft'[c].rows = draft[c].rows \ rows
      /\ draft'[c].warnings = draft[c].warnings \ papers
  BY <1>0, <1>1 DEF TypeOK, Draft
<1>4. req' = req /\ pc' = [pc EXCEPT ![c] = "commit"]
  BY DEF WriteActivity, WriteWarning
<1>5. DraftOK(c)'
  BY <1>0, <1>2, <1>3, <1>4 DEF DraftOK, Backs, TypeOK
<1>6. \A d \in Calls \ {c} : pc'[d] = pc[d] /\ draft'[d] = draft[d] /\ req'[d] = req[d]
  BY <1>1, <1>4 DEF TypeOK
<1>7. QED BY <1>2, <1>5, <1>6, OtherDrafts DEF Grows

\* A verdict is written with its warnings and their rows already in the store,
\* and only if its project-week has none.
LEMMA VerdictBacked ==
    ASSUME TypeOK, StoreInv, NEW c \in Calls, WriteSnapshot(c)
    PROVE  StoreInv'
<1>0. DraftOK(c) /\ pc[c] = "write" /\ draft[c].rows = {} /\ draft[c].warnings = {}
  BY DEF StoreInv, DraftInv, DraftOK, WriteSnapshot, OnlySnapshotLeft
<1>1. disk' = disk /\ req' = req
  BY DEF WriteSnapshot
<1>2. CASE Leave(c, "error") /\ UNCHANGED conn
  <2>1. DraftOK(c)'
    BY <1>2 DEF Leave, DraftOK, EmptyDraft, TypeOK
  <2>2. DraftInv'
    BY <1>1, <1>2, <2>1, OtherDrafts DEF Leave, TypeOK, Grows, StoreInv
  <2>3. QED BY <1>1, <1>2, <2>2, NoNewVerdict DEF Grows
<1>3. CASE ~(Leave(c, "error") /\ UNCHANGED conn)
  <2> DEFINE s == [key |-> req[c].key, by |-> c, cites |-> draft[c].cites, asOf |-> now]
  <2>1. /\ SnapshotOf(conn, req[c].key) = {}
        /\ conn' = [conn EXCEPT !.snapshots = @ \cup {s}]
        /\ pc' = [pc EXCEPT ![c] = "commit"] /\ draft' = draft
    BY <1>3 DEF WriteSnapshot, Inserted
  <2>2. /\ conn'.snapshots = conn.snapshots \cup {s}
        /\ conn'.activity = conn.activity /\ conn'.warnings = conn.warnings
    BY <2>1 DEF TypeOK, Store
  <2>3. OneVerdict(conn')
    BY <2>1, <2>2 DEF StoreInv, OneVerdict, SnapshotOf
  <2>4. Inspectable(conn')
    <3>1. \A r \in s.cites : \E w \in conn.warnings :
            /\ w.snap = s.by /\ w.repo = r
            /\ w.source \in conn.activity /\ w.source.key = s.key
      BY <1>0 DEF DraftOK, Backs
    <3> HIDE DEF s
    <3>2. QED BY <2>2, <3>1 DEF StoreInv, Inspectable
  <2>5. DraftInv'
    <3>1. DraftOK(c)'
      BY <1>0, <1>1, <2>1, <2>2 DEF DraftOK, Backs, TypeOK
    <3>2. QED BY <1>1, <2>1, <2>2, <3>1, OtherDrafts DEF TypeOK, Grows, StoreInv
  <2>6. DiskInConn' /\ Inspectable(disk)'
    BY <1>1, <2>2 DEF StoreInv, DiskInConn, Inspectable
  <2>7. QED BY <2>3, <2>4, <2>5, <2>6 DEF StoreInv, OneVerdict, Inspectable
<1>4. QED BY <1>2, <1>3

\* The staging fold only ever adds rows, whatever it raced with.
LEMMA FoldKeepsStore ==
    ASSUME TypeOK, StoreInv, FoldStart \/ FoldRow \/ FoldCommit \/ FoldDone
    PROVE  StoreInv'
<1>1. pc' = pc /\ draft' = draft /\ req' = req
  BY DEF FoldStart, FoldRow, FoldCommit, FoldDone
<1>2. Grows /\ conn'.snapshots = conn.snapshots
  <2>1. PICK rows : conn' = conn \/ conn' = [conn EXCEPT !.activity = @ \cup rows]
    BY DEF FoldStart, FoldRow, FoldCommit, FoldDone
  <2>2. QED BY <2>1 DEF Grows, TypeOK, Store
<1>3. disk' = disk \/ (disk' = conn /\ conn' = conn)
  BY DEF FoldStart, FoldRow, FoldCommit, FoldDone
<1>4. DraftInv'
  <2>1. \A d \in Calls \ {NoCall} :
            pc'[d] = pc[d] /\ draft'[d] = draft[d] /\ req'[d] = req[d]
    BY <1>1
  <2>2. QED BY <1>2, <2>1, NoCallAssumption, OtherDrafts DEF StoreInv
<1>5. QED BY <1>2, <1>3, <1>4, NoNewVerdict

\* StoreInv holds of every state the process can reach, crashes included.
LEMMA StoreInvariant == Spec => []StoreInv
<1>1. Init => StoreInv
  BY DEF Init, StoreInv, DiskInConn, OneVerdict, Inspectable, DraftInv, DraftOK, EmptyStore, EmptyDraft
<1>2. TypeOK /\ StoreInv /\ [Next]_vars => StoreInv'
  <2> SUFFICES ASSUME TypeOK, StoreInv, [Next]_vars PROVE StoreInv'
    OBVIOUS
  <2>1. ASSUME NEW c \in Calls,
               \/ \E k \in Keys : Ask(c, k)
               \/ Acquire(c) \/ ReadCache(c) \/ Load(c) \/ Judge(c) \/ Commit(c) \/ Timeout(c)
        PROVE  StoreInv'
    BY <2>1, QuietSteps, DiskSteps, NoNewVerdict DEF StoreInv, Grows
  <2>2. ASSUME NEW c \in Calls, ReadActivity(c) PROVE StoreInv'
    <3>1. conn' = conn /\ disk' = disk
      BY <2>2 DEF ReadActivity
    <3>2. QED BY <2>2, <3>1, ReadActivityBacks, NoNewVerdict DEF StoreInv, Grows
  <2>3. ASSUME NEW c \in Calls, WriteActivity(c) \/ WriteWarning(c) PROVE StoreInv'
    <3>1. disk' = disk
      BY <2>3 DEF WriteActivity, WriteWarning
    <3>2. QED BY <2>3, <3>1, WriteBacks, NoNewVerdict DEF StoreInv
  <2>4. ASSUME NEW c \in Calls, WriteSnapshot(c) PROVE StoreInv'
    BY <2>4, VerdictBacked
  <2>5. CASE FoldStart \/ FoldRow \/ FoldCommit \/ FoldDone
    BY <2>5, FoldKeepsStore
  <2>6. CASE Tick \/ UNCHANGED vars
    BY <2>6 DEF Tick, vars, StoreInv, DiskInConn, OneVerdict, Inspectable, DraftInv, DraftOK, Backs
  <2>7. CASE Crash
    <3>1. \A c \in Calls : pc'[c] \notin {"write", "commit"} /\ draft'[c].cites = {}
      BY <2>7 DEF Crash, TypeOK, EmptyDraft
    <3>2. DraftInv'
      BY <3>1 DEF DraftInv, DraftOK
    <3>3. QED BY <2>7, <3>2 DEF Crash, StoreInv, DiskInConn, OneVerdict, Inspectable
  <2>8. QED
    BY <2>1, <2>2, <2>3, <2>4, <2>5, <2>6, <2>7 DEF Next, Step, Write
<1>3. QED BY <1>1, <1>2, TypeCorrect, PTL DEF Spec

\* Whatever a restart finds can be inspected: every warning a durable verdict
\* lists is on disk with the activity row it points at (the write order of
\* generate_llm_snapshot, and SqliteStore._insert_row's commits).
THEOREM DurableVerdictsAreInspectable == Spec => []VerdictsAreInspectable
<1>1. StoreInv => VerdictsAreInspectable
  BY DEF StoreInv, VerdictsAreInspectable
<1>2. QED BY <1>1, StoreInvariant, PTL

\* One verdict per project-week, with no help from the lock (the unique index
\* and the plain INSERT of SqliteStore._insert_row).
THEOREM VerdictsAreUnique == Spec => []OneVerdictPerWeek
<1>1. StoreInv => OneVerdictPerWeek
  BY DEF StoreInv, OneVerdict, OneVerdictPerWeek
<1>2. QED BY <1>1, StoreInvariant, PTL

\* No step drops a durable verdict, a crash included.
THEOREM DurableVerdictsStay == Spec => VerdictsAreImmutable
<1>1. StoreInv /\ [Next]_vars => [disk.snapshots \subseteq disk'.snapshots]_vars
  BY DiskSteps DEF StoreInv, DiskInConn
<1>2. QED BY <1>1, StoreInvariant, PTL DEF Spec, VerdictsAreImmutable

\* The durable part of the store implements the append-only ledger of
\* SnapshotLedger.
THEOREM RefinesLedger == Spec => ImplementsLedger
<1>1. Init => Ledger!Init
  BY DEF Init, Ledger!Init, EmptyStore
<1>2. StoreInv /\ [Next]_vars => [Ledger!Append]_<<disk.snapshots, disk.warnings>>
  <2> SUFFICES ASSUME StoreInv, disk' = conn, conn' = conn
               PROVE  Ledger!Append
    BY DiskSteps
  <2>1. disk.snapshots \subseteq disk'.snapshots /\ disk.warnings \subseteq disk'.warnings
    BY DEF StoreInv, DiskInConn
  <2>2. \A v, u \in disk'.snapshots : v.key = u.key => v = u
    BY DEF StoreInv, OneVerdict
  <2>3. \A v \in disk'.snapshots : Ledger!Supported(v, disk'.warnings)
    BY DEF StoreInv, Inspectable, Ledger!Supported
  <2>4. QED BY <2>1, <2>2, <2>3 DEF Ledger!Append
<1>3. QED BY <1>1, <1>2, StoreInvariant, PTL DEF Spec, ImplementsLedger, Ledger!Spec

-------------------------------------------------------------------------------
(* Who wrote what.  A call's documents are in the store only if it set out *)
(* to persist and got as far as writing, and they never change hands.      *)

Wrote(c) ==
    \/ \E row \in conn.activity : row.by = c
    \/ \E w \in conn.warnings : w.snap = c
    \/ \E s \in conn.snapshots : s.by = c

Writing == {"write", "commit"}
Writers == Writing \cup {"computed", "error", "timeout", "crashed"}

\* A call's draft is its own, and what it asked for when it came in still holds.
TrailOK(c) ==
    /\ Wrote(c) => pc[c] \in Writers /\ req[c].persist
    /\ pc[c] \in Writing => req[c].persist
    /\ \A row \in draft[c].rows : row.by = c
    /\ \A w \in draft[c].warnings : w.snap = c
    /\ pc[c] \in Active /\ req[c].persist /\ req[c].kind # "cron" => req[c].key[2] < now
    /\ pc[c] = "computed" => \E s \in disk.snapshots : s.by = c /\ s.key = req[c].key

\* A verdict is of the week its call was asked for.
SignedOK(s) == s.key = req[s.by].key /\ (s.asOf <= s.key[2] => req[s.by].kind = "cron")

TrailInv == (\A c \in Calls : TrailOK(c)) /\ (\A s \in conn.snapshots : SignedOK(s))

\* What holds between two states when no call but c moved.
OnlyMoves(c) ==
    /\ \A d \in Calls \ {c} : pc'[d] = pc[d] /\ draft'[d] = draft[d] /\ req'[d] = req[d]
    /\ \A row \in conn'.activity : row \in conn.activity \/ row.by = c
    /\ \A w \in conn'.warnings : w \in conn.warnings \/ w.snap = c
    /\ \A s \in conn'.snapshots : s \in conn.snapshots \/ s.by = c
    /\ disk.snapshots \subseteq disk'.snapshots
    /\ now' = now

\* The other calls' trails do not depend on c's.
LEMMA OtherTrails ==
    ASSUME TrailInv, NEW c, OnlyMoves(c), NEW d \in Calls, d # c
    PROVE  TrailOK(d)'
<1>1. TrailOK(d) /\ pc'[d] = pc[d] /\ draft'[d] = draft[d] /\ req'[d] = req[d]
  BY DEF TrailInv, OnlyMoves
<1>2. Wrote(d)' => Wrote(d)
  BY DEF Wrote, OnlyMoves
<1>3. pc[d] = "computed" => \E s \in disk'.snapshots : s.by = d /\ s.key = req[d].key
  BY <1>1 DEF TrailOK, OnlyMoves
<1>4. QED BY <1>1, <1>2, <1>3 DEF TrailOK, OnlyMoves

\* A call that leaves has nothing more to write; computed has its own condition.
LEMMA LeaveTrail ==
    ASSUME TypeOK, TrailInv, NEW c \in Calls, pc[c] \in Active, NEW o \in Final, Leave(c, o),
           conn' = conn, req' = req,
           o \in Writers \/ ~Wrote(c),
           o = "computed" => \E s \in disk'.snapshots : s.by = c /\ s.key = req[c].key
    PROVE  TrailOK(c)'
<1>1. pc'[c] = o /\ draft'[c] = EmptyDraft
  BY DEF Leave, TypeOK
<1>2. TrailOK(c) /\ (Wrote(c)' <=> Wrote(c))
  BY DEF TrailInv, Wrote
<1>3. QED BY <1>1, <1>2 DEF TrailOK, EmptyDraft, Writing

\* Coming in: a request of the past, unless it is the weekly job's.
LEMMA AskTrail ==
    ASSUME TypeOK, TrailInv, NEW c \in Calls, NEW k \in Keys, Ask(c, k)
    PROVE  TrailInv'
<1>1. /\ pc[c] = "idle" /\ pc'[c] \in {"waiting", "cached"} /\ req'[c].key = k
      /\ req'[c].kind # "cron" /\ req'[c].persist => k[2] < now
      /\ draft' = draft /\ conn' = conn /\ disk' = disk /\ now' = now
      /\ \A d \in Calls \ {c} : pc'[d] = pc[d] /\ req'[d] = req[d]
  <2>1. k[2] \in Nat /\ now \in Nat
    BY WeeksAssumption DEF Keys, TypeOK
  <2>2. CASE Post(c, k)
    BY <2>2 DEF Post, Enter, WeekIsOver, TypeOK
  <2>3. CASE PostCached(c, k)
    BY <2>3 DEF PostCached, WeekIsOver, TypeOK
  <2>4. CASE Cron(c, k)
    BY <2>4 DEF Cron, Enter, TypeOK
  <2>5. CASE Deep(c, k)
    <3> DEFINE ended == k[2] # now
    <3>1. Enter(c, k, "deep", ended) /\ pc[c] = "idle" /\ k[2] <= now
      BY <2>5 DEF Deep
    <3>2. ended => k[2] < now
      BY <2>1, <3>1
    <3> HIDE DEF ended
    <3>3. QED BY <3>1, <3>2 DEF Enter, TypeOK
  <2>6. QED BY <2>2, <2>3, <2>4, <2>5 DEF Ask
<1>2. OnlyMoves(c)
  BY <1>1 DEF OnlyMoves
<1>3. TrailOK(c) /\ ~Wrote(c)
  BY <1>1 DEF TrailInv, TrailOK, Writers, Writing
<1>4. TrailOK(c)'
  <2>1. ~Wrote(c)'
    BY <1>1, <1>3 DEF Wrote
  <2>2. QED BY <1>1, <1>3, <2>1 DEF TrailOK, Writing
<1>5. \A s \in conn'.snapshots : SignedOK(s)'
  <2> SUFFICES ASSUME NEW s \in conn.snapshots PROVE SignedOK(s)'
    BY <1>1
  <2>1. s.by \in Calls \ {c}
    BY <1>3 DEF TypeOK, Store, Snapshot, Wrote
  <2>2. QED BY <1>1, <2>1 DEF TrailInv, SignedOK
<1>6. QED BY <1>2, <1>4, <1>5, OtherTrails DEF TrailInv

\* Steps that leave the store's verdicts and everybody's requests alone.
LEMMA NoNewSignature ==
    ASSUME TrailInv, NEW c \in Calls, OnlyMoves(c), req' = req,
           conn'.snapshots \subseteq conn.snapshots, TrailOK(c)'
    PROVE  TrailInv'
BY OtherTrails DEF TrailInv, SignedOK

\* Steps that write nothing.
LEMMA QuietTrail ==
    ASSUME TypeOK, StoreInv, TrailInv, NEW c \in Calls,
           Acquire(c) \/ ReadCache(c) \/ Load(c) \/ Judge(c) \/ ReadActivity(c) \/ Commit(c) \/ Timeout(c)
    PROVE  TrailInv'
<1>1. conn' = conn /\ req' = req /\ now' = now /\ pc[c] \in Active
  BY DEF Acquire, ReadCache, Load, Judge, ReadActivity, Commit, Timeout
<1>2. \A d \in Calls \ {c} : pc'[d] = pc[d] /\ draft'[d] = draft[d]
  BY DEF Acquire, ReadCache, Load, Judge, ReadActivity, Commit, Timeout, Leave, TypeOK
<1>3. disk' = disk \/ disk' = conn
  BY DEF Acquire, ReadCache, Load, Judge, ReadActivity, Commit, Timeout
<1>4. disk.snapshots \subseteq disk'.snapshots
  BY <1>3 DEF StoreInv, DiskInConn
<1>5. OnlyMoves(c)
  BY <1>1, <1>2, <1>4 DEF OnlyMoves
<1>6. TrailOK(c) /\ (Wrote(c)' <=> Wrote(c))
  BY <1>1 DEF TrailInv, Wrote
<1>7. TrailOK(c)'
  <2>1. ASSUME pc'[c] \in Active, draft'[c].rows = draft[c].rows, draft'[c].warnings = draft[c].warnings,
               pc'[c] \in Writing => req[c].persist, Wrote(c) => pc'[c] \in Writers
        PROVE  TrailOK(c)'
    BY <1>1, <1>6, <2>1 DEF TrailOK
  <2>2. CASE Acquire(c)
    BY <1>6, <2>1, <2>2 DEF Acquire, TypeOK, TrailOK, Writing, Writers
  <2>3. CASE ReadCache(c)
    BY <1>1, <1>6, <2>1, <2>3, LeaveTrail DEF ReadCache, TypeOK, TrailOK, Writing, Writers
  <2>4. CASE Load(c)
    BY <1>1, <1>6, <2>1, <2>4, LeaveTrail DEF Load, TypeOK, TrailOK, Writing, Writers
  <2>5. CASE Judge(c)
    <3>1. CASE Leave(c, "failed") \/ Leave(c, "error")
      BY <1>1, <1>6, <2>5, <3>1, LeaveTrail DEF Judge, TrailOK, Writing, Writers
    <3>2. CASE /\ pc' = [pc EXCEPT ![c] = "read"]
               /\ \E cites : draft' = [draft EXCEPT ![c].cites = cites]
      BY <1>6, <2>1, <2>5, <3>2 DEF Judge, TypeOK, Draft, TrailOK, Writing, Writers
    <3>3. QED BY <2>5, <3>1, <3>2 DEF Judge
  <2>6. CASE ReadActivity(c)
    <3> DEFINE k == req[c].key
               onFile(r) == {row \in conn.activity : row.key = k /\ row.repo = r}
               own(r) == [key |-> k, repo |-> r, by |-> c]
               fresh == {own(r) : r \in {r \in Mapped[k] : onFile(r) = {}}}
    <3>1. CASE ~req[c].persist
      BY <1>1, <1>6, <2>6, <3>1, LeaveTrail DEF ReadActivity, TrailOK, Writing, Writers
    <3>2. CASE req[c].persist
      <4>1. PICK papers : /\ draft' = [draft EXCEPT ![c].rows = fresh, ![c].warnings = papers]
                          /\ \A w \in papers : w.snap = c
        <5>1. PICK src : draft' = [draft EXCEPT ![c].rows = fresh,
                                       ![c].warnings = {Paper(c, r, src[r]) : r \in draft[c].cites}]
          BY <2>6, <3>2 DEF ReadActivity
        <5> DEFINE papers == {Paper(c, r, src[r]) : r \in draft[c].cites}
        <5>2. \A w \in papers : w.snap = c
          OBVIOUS
        <5>3. QED BY <5>1, <5>2
      <4>2. \A row \in fresh : row.by = c
        OBVIOUS
      <4> HIDE DEF fresh
      <4>3. draft'[c].rows = fresh /\ draft'[c].warnings = papers /\ pc'[c] = "write"
        <5>1. draft[c] \in Draft /\ pc' = [pc EXCEPT ![c] = "write"]
          BY <2>6, <3>2 DEF ReadActivity, TypeOK
        <5>2. QED BY <4>1, <5>1 DEF TypeOK, Draft
      <4>4. QED BY <1>1, <1>6, <2>6, <3>2, <4>1, <4>2, <4>3 DEF TrailOK, Writing, Writers, ReadActivity
    <3>3. QED BY <3>1, <3>2
  <2>7. CASE Commit(c)
    <3>1. CASE \E s \in conn.snapshots : s.by = c
      <4>1. PICK s \in conn.snapshots : s.by = c
        BY <3>1
      <4>2. s \in disk'.snapshots /\ s.key = req[c].key
        BY <2>7, <4>1 DEF Commit, TrailInv, SignedOK
      <4>3. QED BY <1>1, <2>7, <3>1, <4>1, <4>2, LeaveTrail DEF Commit, Writers
    <3>2. CASE ~\E s \in conn.snapshots : s.by = c
      BY <1>6, <2>1, <2>7, <3>2 DEF Commit, TypeOK, TrailOK, Writing, Writers
    <3>3. QED BY <3>1, <3>2
  <2>8. CASE Timeout(c)
    BY <1>1, <2>8, LeaveTrail DEF Timeout, Writers
  <2>9. QED BY <2>2, <2>3, <2>4, <2>5, <2>6, <2>7, <2>8
<1>8. QED BY <1>1, <1>5, <1>7, NoNewSignature

\* A call writes what it planned, under its own name.
LEMMA WriteTrail ==
    ASSUME TypeOK, TrailInv, NEW c \in Calls, WriteActivity(c) \/ WriteWarning(c)
    PROVE  TrailInv'
<1>1. /\ req' = req /\ now' = now /\ disk' = disk /\ pc[c] = "write" /\ pc' = [pc EXCEPT ![c] = "commit"]
  BY DEF WriteActivity, WriteWarning
<1> DEFINE Moves(rows, papers) ==
        /\ conn'.activity = conn.activity \cup rows /\ conn'.warnings = conn.warnings \cup papers
        /\ conn'.snapshots = conn.snapshots
        /\ draft'[c].rows = draft[c].rows \ rows /\ draft'[c].warnings = draft[c].warnings \ papers
        /\ \A d \in Calls \ {c} : draft'[d] = draft[d]
<1>2. PICK rows \in SUBSET draft[c].rows, papers \in SUBSET draft[c].warnings : Moves(rows, papers)
  <2>0. draft[c] \in Draft /\ conn \in Store
    BY DEF TypeOK
  <2>1. CASE WriteActivity(c)
    <3>1. PICK row \in draft[c].rows :
            /\ conn' = [conn EXCEPT !.activity = @ \cup {row}]
            /\ draft' = [draft EXCEPT ![c].rows = @ \ {row}]
      BY <2>1 DEF WriteActivity
    <3>2. /\ conn'.activity = conn.activity \cup {row} /\ conn'.warnings = conn.warnings \cup {}
          /\ conn'.snapshots = conn.snapshots
      BY <2>0, <3>1 DEF Store
    <3>3. /\ draft'[c].rows = draft[c].rows \ {row} /\ draft'[c].warnings = draft[c].warnings \ {}
          /\ \A d \in Calls \ {c} : draft'[d] = draft[d]
      BY <2>0, <3>1 DEF Draft, TypeOK
    <3>4. Moves({row}, {})
      BY <3>2, <3>3
    <3>5. {row} \in SUBSET draft[c].rows /\ {} \in SUBSET draft[c].warnings
      OBVIOUS
    <3> HIDE DEF Moves
    <3>6. QED BY <3>4, <3>5
  <2>2. CASE WriteWarning(c)
    <3>1. PICK w \in draft[c].warnings :
            /\ conn' = [conn EXCEPT !.warnings = @ \cup {w}]
            /\ draft' = [draft EXCEPT ![c].warnings = @ \ {w}]
      BY <2>2 DEF WriteWarning
    <3>2. /\ conn'.activity = conn.activity \cup {} /\ conn'.warnings = conn.warnings \cup {w}
          /\ conn'.snapshots = conn.snapshots
      BY <2>0, <3>1 DEF Store
    <3>3. /\ draft'[c].rows = draft[c].rows \ {} /\ draft'[c].warnings = draft[c].warnings \ {w}
          /\ \A d \in Calls \ {c} : draft'[d] = draft[d]
      BY <2>0, <3>1 DEF Draft, TypeOK
    <3>4. Moves({}, {w})
      BY <3>2, <3>3
    <3>5. {} \in SUBSET draft[c].rows /\ {w} \in SUBSET draft[c].warnings
      OBVIOUS
    <3> HIDE DEF Moves
    <3>6. QED BY <3>4, <3>5
  <2>3. QED BY <2>1, <2>2
<1>3. TrailOK(c)
  BY DEF TrailInv
<1>4. OnlyMoves(c)
  BY <1>1, <1>2, <1>3 DEF OnlyMoves, TrailOK, TypeOK
<1>5. TrailOK(c)'
  BY <1>1, <1>2, <1>3 DEF TrailOK, Writing, Writers, TypeOK
<1>6. QED BY <1>1, <1>2, <1>4, <1>5, NoNewSignature

\* The verdict is of the week asked for; a running one only if cron asked.
LEMMA SnapshotTrail ==
    ASSUME TypeOK, TrailInv, NEW c \in Calls, WriteSnapshot(c)
    PROVE  TrailInv'
<1>1. req' = req /\ now' = now /\ disk' = disk /\ pc[c] = "write" /\ TrailOK(c)
  BY DEF WriteSnapshot, TrailInv
<1>2. CASE Leave(c, "error") /\ UNCHANGED conn
  <2>1. OnlyMoves(c)
    BY <1>1, <1>2 DEF OnlyMoves, Leave, TypeOK
  <2>2. TrailOK(c)'
    BY <1>1, <1>2, LeaveTrail DEF Writers
  <2>3. QED BY <1>1, <1>2, <2>1, <2>2, NoNewSignature
<1>3. CASE ~(Leave(c, "error") /\ UNCHANGED conn)
  <2> DEFINE s == [key |-> req[c].key, by |-> c, cites |-> draft[c].cites, asOf |-> now]
  <2>1. /\ conn' = [conn EXCEPT !.snapshots = @ \cup {s}]
        /\ pc' = [pc EXCEPT ![c] = "commit"] /\ draft' = draft
    BY <1>3 DEF WriteSnapshot, Inserted
  <2>2. /\ conn'.snapshots = conn.snapshots \cup {s}
        /\ conn'.activity = conn.activity /\ conn'.warnings = conn.warnings
    BY <2>1 DEF TypeOK, Store
  <2>3. OnlyMoves(c)
    BY <1>1, <2>1, <2>2 DEF OnlyMoves, TypeOK
  <2>4. TrailOK(c)'
    BY <1>1, <2>1, <2>2 DEF TrailOK, Writing, Writers, TypeOK
  <2>5. s.key = req'[s.by].key /\ (s.asOf <= s.key[2] => req'[s.by].kind = "cron")
    <3>1. req[c].persist /\ (req[c].kind # "cron" => req[c].key[2] < now)
      BY <1>1 DEF TrailOK, Writing
    <3>2. now \in Nat /\ req[c].key[2] \in Nat
      BY WeeksAssumption DEF TypeOK, Request, Keys
    <3>3. QED BY <1>1, <3>1, <3>2
  <2> HIDE DEF s
  <2>6. \A t \in conn'.snapshots : SignedOK(t)'
    BY <1>1, <2>2, <2>5 DEF TrailInv, SignedOK
  <2>7. QED BY <2>3, <2>4, <2>6, OtherTrails DEF TrailInv
<1>4. QED BY <1>2, <1>3

\* The fold signs with nobody's name.
LEMMA FoldTrail ==
    ASSUME TypeOK, StoreInv, TrailInv, FoldStart \/ FoldRow \/ FoldCommit \/ FoldDone
    PROVE  TrailInv'
<1>1. pc' = pc /\ draft' = draft /\ req' = req /\ now' = now
  BY DEF FoldStart, FoldRow, FoldCommit, FoldDone
<1>2. \/ conn' = conn
      \/ \E x : conn' = [conn EXCEPT !.activity = @ \cup {[key |-> x[1], repo |-> x[2], by |-> NoCall]}]
  BY DEF FoldStart, FoldRow, FoldCommit, FoldDone
<1>3. /\ \A row \in conn'.activity : row \in conn.activity \/ row.by = NoCall
      /\ conn'.warnings = conn.warnings /\ conn'.snapshots = conn.snapshots
  BY <1>2 DEF TypeOK, Store
<1>4. disk.snapshots \subseteq disk'.snapshots
  BY DEF FoldStart, FoldRow, FoldCommit, FoldDone, StoreInv, DiskInConn
<1>5. OnlyMoves(NoCall)
  BY <1>1, <1>3, <1>4 DEF OnlyMoves
<1>6. QED BY <1>1, <1>3, <1>5, OtherTrails, NoCallAssumption DEF TrailInv, SignedOK

\* A crash leaves at most what was durable; a new week makes old ones older.
LEMMA WorldTrail ==
    ASSUME TypeOK, StoreInv, TrailInv, Tick \/ Crash \/ UNCHANGED vars
    PROVE  TrailInv'
<1>1. CASE Tick
  <2>1. now' = now + 1 /\ now \in Nat /\ UNCHANGED <<pc, req, draft, conn, disk>>
    BY <1>1, WeeksAssumption DEF Tick, TypeOK
  <2>2. \A c \in Calls : req[c].key[2] \in Nat
    BY WeeksAssumption DEF TypeOK, Request, Keys
  <2>3. \A c \in Calls : TrailOK(c)'
    BY <2>1, <2>2 DEF TrailInv, TrailOK, Wrote
  <2>4. QED BY <2>1, <2>3 DEF TrailInv, SignedOK
<1>2. CASE Crash
  <2>1. \A c \in Calls : /\ pc'[c] = IF pc[c] \in Active THEN "crashed" ELSE pc[c]
                         /\ draft'[c] = EmptyDraft
    BY <1>2 DEF Crash
  <2>2. req' = req /\ now' = now /\ disk' = disk /\ conn' = disk
    BY <1>2 DEF Crash
  <2>3. \A c \in Calls : Wrote(c)' => Wrote(c)
    BY <2>2 DEF Wrote, StoreInv, DiskInConn
  <2>4. \A c \in Calls : TrailOK(c)'
    BY <2>1, <2>2, <2>3 DEF TrailInv, TrailOK, EmptyDraft, Writing, Writers
  <2>5. QED BY <2>2, <2>4 DEF TrailInv, SignedOK, StoreInv, DiskInConn
<1>3. CASE UNCHANGED vars
  BY <1>3 DEF vars, TrailInv, TrailOK, Wrote, SignedOK
<1>4. QED BY <1>1, <1>2, <1>3

LEMMA TrailInvariant == Spec => []TrailInv
<1>1. Init => TrailInv
  BY DEF Init, TrailInv, TrailOK, Wrote, SignedOK, EmptyStore, EmptyDraft, Writing
<1>2. TypeOK /\ StoreInv /\ TrailInv /\ [Next]_vars => TrailInv'
  BY AskTrail, QuietTrail, WriteTrail, SnapshotTrail, FoldTrail, WorldTrail DEF Next, Step, Write
<1>3. QED BY <1>1, <1>2, TypeCorrect, StoreInvariant, PTL DEF Spec

\* A judgement that failed, a preview or an answer from the cache leaves nothing
\* behind, whatever else was running (the early returns of generate_llm_snapshot).
THEOREM FailuresLeaveNothing == Spec => []NothingWrittenUnlessComputing
<1>1. TrailInv => NothingWrittenUnlessComputing
  BY DEF TrailInv, TrailOK, Wrote, NothingWrittenUnlessComputing, Writers, Writing
<1>2. QED BY <1>1, TrailInvariant, PTL

\* Only the weekly job freezes a running week: the other callers' refusals at
\* the door hold until the verdict is written, however long that takes.
THEOREM RunningWeeksAreCrons == Spec => []OnlyCronFreezesARunningWeek
<1>1. TrailInv => OnlyCronFreezesARunningWeek
  BY DEF TrailInv, SignedOK, OnlyCronFreezesARunningWeek
<1>2. QED BY <1>1, TrailInvariant, PTL

\* "Computed" is said only of a verdict that every restart will find.
THEOREM ComputedSurvives == Spec => []ComputedIsDurable
<1>1. TrailInv => ComputedIsDurable
  BY DEF TrailInv, TrailOK, ComputedIsDurable
<1>2. QED BY <1>1, TrailInvariant, PTL
===============================================================================
