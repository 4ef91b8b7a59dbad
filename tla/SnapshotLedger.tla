---------------------------- MODULE SnapshotLedger ----------------------------
(***************************************************************************)
(* What the weekly verdict store promises its readers, without locks,      *)
(* transactions or requests: an append-only ledger with one verdict per    *)
(* project-week, and an archive that already holds whatever a verdict      *)
(* cites when the verdict appears.  LlmSnapshot is shown to implement it.  *)
(***************************************************************************)
VARIABLES ledger,   \* the verdicts a restart would still find
          archive   \* the evidence a restart would still find

\* A verdict names its project-week (key), its identity (by) and the
\* repositories whose concerns it cites; a paper backs one citation.
Supported(v, papers) ==
    \A r \in v.cites : \E w \in papers : w.snap = v.by /\ w.repo = r

Init == ledger = {} /\ archive = {}

\* Any number of verdicts may become durable in one commit, and evidence may
\* be filed that no verdict ever cites; nothing is taken back.
Append ==
    LET batch == ledger' \ ledger IN
    /\ ledger \subseteq ledger'
    /\ archive \subseteq archive'
    /\ \A v \in batch, u \in ledger' : v.key = u.key => v = u
    /\ \A v \in batch : Supported(v, archive')

Spec == Init /\ [][Append]_<<ledger, archive>>
===============================================================================
