------------------ MODULE DurableLiveObservationsGuarantees -----------------
(***************************************************************************)
(* What DurableLiveObservations guarantees its callers, on top of the        *)
(* invariant of its tables: about grants, about what the clean-up leaves     *)
(* alone, and, for requests that do not overlap, the promise of              *)
(* ObservationLedger.                                                       *)
(***************************************************************************)
EXTENDS DurableLiveObservationsProofs

(***************************************************************************)
(* What the durable service guarantees about grants in spite of the race    *)
(* that lets two requests in flight spend one: a grant is consumed with an   *)
(* observation or not at all, an observation fits its grant, and a grant     *)
(* whose observation was committed before a request started is refused.     *)
(*                                                                         *)
(* None of this is inductive.  GrantInv adds how the uncommitted grant rows  *)
(* differ from the committed ones, and what a request's early reads still    *)
(* say of the rows at the time it writes.  It rests on TableInv for who      *)
(* holds the write lock and for the row a request is about to commit.       *)
(***************************************************************************)
\* The same row but for its consumption.
SameTerms(g, h) ==
  /\ g.id = h.id /\ g.user = h.user /\ g.source = h.source
  /\ g.fingerprint = h.fingerprint /\ g.issued = h.issued /\ g.expires = h.expires

\* Grant g covers an observation of this search at this time.
Covers(g, user, source, fingerprint, at) ==
  /\ user = g.user /\ source = g.source /\ fingerprint = g.fingerprint
  /\ g.issued <= at /\ at < g.expires

\* The grant a request has inserted and not yet committed.
IssuedBy(s) == IF pc[s] = "commit_grant" THEN mem[s].granted ELSE {}

\* Where a request has consumed its grant and not yet committed.
SpendingAt == {"observe", "record", "commit_observation"}
Spending(id) == \E s \in Handlers : pc[s] \in SpendingAt /\ req[s].grant = id

Spent(id) == \E e \in ledger : e.row.grant = id

\* An uncommitted row is a committed one, consumed or not, or a new one.
GrantRowsOK ==
  /\ \A g, h \in db.grants : g.id = h.id => g = h
  /\ \A g, h \in work.grants : g.id = h.id => g = h
  /\ \A g \in db.grants : g.id \in tokens
  /\ \A g \in work.grants :
       \/ \E h \in db.grants : SameTerms(g, h)
       \/ g.id \notin tokens /\ \E s \in Handlers : g.id \in IssuedBy(s)
  /\ \A g \in db.grants \cup work.grants : g.issued <= clock

\* Consumption, in the committed and in the uncommitted rows.
ConsumptionOK ==
  /\ \A e \in ledger : e.row.grant \in tokens
  /\ \A g \in db.grants : g.consumed <=> Spent(g.id)
  /\ \A g \in work.grants : g.consumed <=> Spent(g.id) \/ Spending(g.id)
  /\ \A e \in ledger, g \in db.grants : e.row.grant = g.id =>
       Covers(g, e.row.user, e.row.source, e.row.fingerprint, e.row.created)

\* A new grant has an id nobody was handed; it is issued in the past.
IssueOK(s) ==
  /\ pc[s] \in IssueAt => mem[s].at <= clock
  /\ pc[s] = "commit_grant" => mem[s].granted \cap tokens = {}

\* What a create request read, for as long as it relies on it.
SpendOK(s) ==
  /\ pc[s] \in CreateAt =>
       /\ req[s].grant \in tokens
       /\ mem[s].before \subseteq LedgerIds
       /\ \A g \in db.grants : g.id = req[s].grant => g.issued <= mem[s].at
  /\ pc[s] \in CreateAt \ {"select_grant"} =>
       \A g \in db.grants : g.id = req[s].grant =>
         Covers(g, req[s].user, req[s].source, req[s].fingerprint, mem[s].at)
  /\ pc[s] \in WritingAt \ {"check_grant"} =>
       \A e \in ledger : e.row.id \in mem[s].before => e.row.grant # req[s].grant

GrantInv ==
  /\ GrantRowsOK
  /\ ConsumptionOK
  /\ \A s \in Handlers : IssueOK(s) /\ SpendOK(s)

-----------------------------------------------------------------------------
(* Steps that leave every grant row alone.                                  *)

\* A session outside the lock, before and after, neither issues nor spends.
LEMMA Bystander ==
  ASSUME TypeOK, NEW s \in Sessions, Still(s),
         s \in Handlers => pc[s] \notin HandlerLocks /\ pc'[s] \notin HandlerLocks
  PROVE  /\ \A t \in Handlers : IssuedBy(t)' = IssuedBy(t)
         /\ \A id : Spending(id)' <=> Spending(id)
<1>1. \A t \in Handlers :
        \/ pc'[t] = pc[t] /\ req'[t] = req[t] /\ mem'[t] = mem[t]
        \/ pc[t] \notin HandlerLocks /\ pc'[t] \notin HandlerLocks
  BY DEF Still, Sessions
<1>2. QED BY <1>1 DEF IssuedBy, Spending, SpendingAt, HandlerLocks

\* What a session that does not move relies on stays true while the clock may
\* advance, new grants appear and rows are taken away.
LEMMA BystanderKeeps ==
  ASSUME NEW t \in Handlers, IssueOK(t), SpendOK(t),
         pc'[t] = pc[t], req'[t] = req[t], mem'[t] = mem[t],
         TypeOK, TypeOK', clock <= clock',
         tokens \subseteq tokens', pc[t] = "commit_grant" => tokens' = tokens,
         ledger \subseteq ledger',
         \A e \in ledger' : e \in ledger \/ e.row.id \notin LedgerIds,
         \A g \in db'.grants : g.id \in tokens =>
           \E h \in db.grants : SameTerms(g, h)
  PROVE  IssueOK(t)' /\ SpendOK(t)'
<1>1. IssueOK(t)'
  <2>1. pc[t] \in IssueAt => mem[t].at \in Nat
    BY DEF TypeOK, SessionOK, IssueLocals, Sessions
  <2>2. clock \in Nat /\ clock' \in Nat
    BY DEF TypeOK
  <2>3. QED BY <2>1, <2>2 DEF IssueOK
<1>2. SpendOK(t)'
  <2>1. pc[t] \in CreateAt => mem[t].before \subseteq LedgerIds'
    BY DEF SpendOK, LedgerIds
  <2>2. pc[t] \in CreateAt =>
          \A g \in db'.grants : g.id = req[t].grant =>
            \E h \in db.grants : SameTerms(g, h)
    BY DEF SpendOK
  <2>3. pc[t] \in CreateAt =>
          \A g \in db'.grants : g.id = req[t].grant => g.issued <= mem[t].at
    BY <2>2 DEF SpendOK, SameTerms
  <2>4. pc[t] \in CreateAt \ {"select_grant"} =>
          \A g \in db'.grants : g.id = req[t].grant =>
            Covers(g, req[t].user, req[t].source, req[t].fingerprint, mem[t].at)
    BY <2>2 DEF SpendOK, SameTerms, Covers
  <2>5. pc[t] \in WritingAt \ {"check_grant"} =>
          \A e \in ledger' : e.row.id \in mem[t].before => e.row.grant # req[t].grant
    BY DEF SpendOK, CreateAt
  <2>6. QED BY <2>1, <2>3, <2>4, <2>5 DEF SpendOK
<1>3. QED BY <1>1, <1>2

\* A step that only reads, outside the lock, keeps the invariant if its own
\* request's reads do.
LEMMA QuietGrants ==
  ASSUME TypeOK, TypeOK', GrantInv, NEW s \in Sessions, Still(s), ReadOnly,
         UNCHANGED <<clock, tokens, ledger>>,
         s \in Handlers => /\ pc[s] \notin HandlerLocks /\ pc'[s] \notin HandlerLocks
                          /\ IssueOK(s)' /\ SpendOK(s)'
  PROVE  GrantInv'
<1>1. /\ \A t \in Handlers : IssuedBy(t)' = IssuedBy(t)
      /\ \A id : Spending(id)' <=> Spending(id)
      /\ \A id : Spent(id)' <=> Spent(id)
  BY Bystander DEF Spent
<1>2. GrantRowsOK'
  BY <1>1 DEF GrantInv, GrantRowsOK, ReadOnly
<1>3. ConsumptionOK'
  BY <1>1 DEF GrantInv, ConsumptionOK, ReadOnly
<1>4. ASSUME NEW t \in Handlers, t # s
      PROVE  IssueOK(t)' /\ SpendOK(t)'
  <2>1. pc'[t] = pc[t] /\ req'[t] = req[t] /\ mem'[t] = mem[t]
    BY <1>4 DEF Still, Sessions
  <2>2. clock <= clock'
    BY DEF TypeOK
  <2>3. \A g \in db'.grants : SameTerms(g, g) /\ g \in db.grants
    BY DEF SameTerms, ReadOnly
  <2>4. QED BY <2>1, <2>2, <2>3, BystanderKeeps DEF GrantInv
<1>5. QED BY <1>2, <1>3, <1>4 DEF GrantInv

\* A session that closes takes its uncommitted grant rows with it.
LEMMA CloseGrants ==
  ASSUME TypeOK, TypeOK', TableInv, GrantInv, NEW s \in Sessions, Close(s)
  PROVE  GrantInv'
<1>1. pc'[s] = "idle" /\ Still(s)
  BY CloseEffect
<1>2. /\ db' = db /\ ledger' = ledger /\ tokens' = tokens /\ clock' = clock
      /\ writer = s => work' = db
      /\ writer # s => work' = work
  BY DEF Close, Discard, History
<1>3. \A id : Spent(id)' <=> Spent(id)
  BY <1>2 DEF Spent
<1>4. CASE writer = s
  <2>1. \A t \in Handlers : pc'[t] \notin HandlerLocks
    BY <1>1, <1>4 DEF TableInv, LockOK, HandlerLocks, Still, Sessions
  <2>2. \A id : ~ Spending(id)'
    BY <2>1 DEF Spending, SpendingAt, HandlerLocks
  <2>3. GrantRowsOK'
    BY <1>2, <1>4 DEF GrantInv, GrantRowsOK, SameTerms
  <2>4. ConsumptionOK'
    BY <1>2, <1>3, <1>4, <2>2 DEF GrantInv, ConsumptionOK
  <2>5. QED
    <3>1. ASSUME NEW t \in Handlers
          PROVE  IssueOK(t)' /\ SpendOK(t)'
      <4>1. CASE t = s
        BY <1>1, <4>1
        DEF IssueOK, SpendOK, IssueAt, CreateAt, WritingAt
      <4>2. CASE t # s
        <5>1. pc'[t] = pc[t] /\ req'[t] = req[t] /\ mem'[t] = mem[t] /\ clock <= clock'
          BY <1>1, <1>2, <4>2 DEF Still, Sessions, TypeOK
        <5>2. QED BY <1>2, <5>1, BystanderKeeps DEF GrantInv, SameTerms
      <4>3. QED BY <4>1, <4>2
    <3>2. QED BY <2>3, <2>4, <3>1 DEF GrantInv
<1>5. CASE writer # s
  <2>1. ReadOnly \/ (db' = db /\ work' = work)
    BY <1>2, <1>5
  <2>2. s \in Handlers => pc[s] \notin HandlerLocks /\ pc'[s] \notin HandlerLocks
    BY <1>1, <1>5 DEF TableInv, LockOK, HandlerLocks
  <2>3. writer' = writer
    BY <1>5 DEF Close, Discard
  <2>4. IssueOK(s)' /\ SpendOK(s)'
    BY <1>1 DEF IssueOK, SpendOK, IssueAt, CreateAt, WritingAt
  <2>5. QED BY <1>1, <1>2, <1>5, <2>2, <2>3, <2>4, QuietGrants DEF ReadOnly
<1>6. QED BY <1>4, <1>5

-----------------------------------------------------------------------------
(* The steps that read.                                                     *)

\* A grant that is judged good was found, is not consumed and is alive.
LEMMA GrantFits ==
  ASSUME NEW grants \in SUBSET Grant, NEW source, NEW fingerprint, NEW now \in Nat,
         AnyGrantVerdict(grants, source, fingerprint, now) = Allowed
  PROVE  \E g \in grants : /\ g.source = source /\ g.fingerprint = fingerprint
                           /\ ~g.consumed /\ now < g.expires
<1> DEFINE g == CHOOSE g \in grants : TRUE
<1>1. grants # {}
  BY DEF AnyGrantVerdict, Allowed
<1>2. g \in grants
  BY <1>1
<1>3. GrantVerdict(g, source, fingerprint, now) = Allowed
  BY <1>1 DEF AnyGrantVerdict
<1>4. /\ g.source = source /\ g.fingerprint = fingerprint
      /\ ~g.consumed /\ ~(now >= g.expires)
  BY <1>3 DEF GrantVerdict, Allowed, IsExpired
<1>5. g.expires \in Nat
  BY <1>2 DEF Grant
<1>6. QED BY <1>2, <1>4, <1>5

\* The reading steps of a handler keep the invariant: what the SELECT of the
\* grant and the check before its consumption establish holds of the
\* committed rows from then on.
LEMMA HandlerReadsGrants ==
  ASSUME TypeOK, TypeOK', TableInv, GrantInv, NEW s \in Handlers,
         \/ Arrival(s) \/ SelectGrant(s) \/ Authorize(s) \/ CheckGrant(s)
         \/ GetOffers(s)
  PROVE  GrantInv'
<1>0. /\ s \in Sessions /\ s \notin Cleaners /\ SessionOK(s, pc[s], req[s], mem[s])
      /\ clock \in Nat /\ db \in Tables
  BY SessionAssumption DEF Sessions, TypeOK
<1> DEFINE Safe == /\ Still(s) /\ ReadOnly /\ UNCHANGED <<clock, tokens, ledger>>
                   /\ pc[s] \notin HandlerLocks /\ pc'[s] \notin HandlerLocks
                   /\ IssueOK(s)' /\ SpendOK(s)'
           Quiet == {"idle", "answered", "select_offers"}
<1>1. \A place \in Quiet : place \notin IssueAt \cup CreateAt \cup HandlerLocks
  BY DEF IssueAt, CreateAt, WritingAt, HandlerLocks
<1>2. pc'[s] \in Quiet => IssueOK(s)' /\ SpendOK(s)'
  BY DEF IssueOK, SpendOK, IssueAt, CreateAt, WritingAt
<1>3. pc[s] \notin HandlerLocks => View(s) = db
  BY DEF TableInv, LockOK, View
<1>4. ASSUME NEW r \in IssueRequest, IssueStart(s, r)
      PROVE  Safe
  <2>1. /\ Still(s) /\ pc[s] = "idle" /\ ReadOnly /\ UNCHANGED <<clock, tokens, ledger>>
        /\ \/ pc'[s] = "answered"
           \/ pc'[s] = "insert_grant" /\ mem'[s] = [at |-> clock, granted |-> {}]
    BY <1>0, <1>4, GotoEffect DEF IssueStart, History
  <2>2. CASE pc'[s] = "answered"
    BY <1>1, <1>2, <2>1, <2>2
  <2>3. CASE pc'[s] = "insert_grant" /\ mem'[s] = [at |-> clock, granted |-> {}]
    BY <1>0, <2>1, <2>3
    DEF IssueOK, SpendOK, CreateAt, WritingAt, HandlerLocks
  <2>4. QED BY <2>1, <2>2, <2>3
<1>5. ASSUME NEW r \in CreateRequest, CreateStart(s, r)
      PROVE  Safe
  <2>1. /\ Still(s) /\ pc[s] = "idle" /\ req'[s] = r /\ ReadOnly
        /\ UNCHANGED <<clock, tokens, ledger>> /\ r.grant \in tokens
        /\ \/ pc'[s] = "answered"
           \/ pc'[s] = "select_grant" /\ mem'[s].at = clock
              /\ mem'[s].before = LedgerIds
    BY <1>0, <1>5, GotoEffect DEF CreateStart, History, LedgerIds
  <2>2. CASE pc'[s] = "answered"
    BY <1>1, <1>2, <2>1, <2>2
  <2>3. CASE /\ pc'[s] = "select_grant" /\ mem'[s].at = clock
             /\ mem'[s].before = LedgerIds
    <3>1. IssueOK(s)'
      BY <2>3 DEF IssueOK, IssueAt
    <3>2. \A g \in db'.grants : g.issued <= mem'[s].at
      BY <2>1, <2>3 DEF GrantInv, GrantRowsOK, ReadOnly
    <3>3. SpendOK(s)'
      BY <2>1, <2>3, <3>2 DEF SpendOK, LedgerIds, WritingAt
    <3>4. QED BY <2>1, <2>3, <3>1, <3>3 DEF HandlerLocks
  <2>4. QED BY <2>1, <2>2, <2>3
<1>6. ASSUME SelectGrant(s)
      PROVE  Safe
  <2> DEFINE found == {g \in View(s).grants : g.user = req[s].user /\ g.id = req[s].grant}
  <2>1. pc[s] = "select_grant" /\ req[s] \in CreateRequest /\ mem[s] \in CreateLocals
    BY <1>0, <1>6 DEF SelectGrant, SessionOK, CreateAt
  <2>2. /\ Still(s) /\ req'[s] = req[s] /\ ReadOnly
        /\ UNCHANGED <<clock, tokens, ledger>>
        /\ \/ pc'[s] = "answered"
           \/ /\ pc'[s] = "authorize"
              /\ mem'[s] = [mem[s] EXCEPT !.grants = found]
              /\ AnyGrantVerdict(found, req[s].source, req[s].fingerprint, mem[s].at)
                   = Allowed
    BY <1>0, <1>6, GotoEffect DEF SelectGrant, History
  <2>3. CASE pc'[s] = "answered"
    BY <1>1, <1>2, <2>1, <2>2, <2>3 DEF HandlerLocks
  <2>4. CASE /\ pc'[s] = "authorize"
             /\ mem'[s] = [mem[s] EXCEPT !.grants = found]
             /\ AnyGrantVerdict(found, req[s].source, req[s].fingerprint, mem[s].at)
                  = Allowed
    <3>1. View(s) = db /\ found \in SUBSET Grant /\ mem[s].at \in Nat
      BY <1>0, <1>3, <2>1 DEF HandlerLocks, Tables, CreateLocals
    <3>2. mem'[s].at = mem[s].at /\ mem'[s].before = mem[s].before
      BY <2>1, <2>4 DEF CreateLocals
    <3>3. PICK g \in found : /\ g.source = req[s].source
                             /\ g.fingerprint = req[s].fingerprint
                             /\ mem[s].at < g.expires
      BY <2>4, <3>1, GrantFits
    <3>4. \A h \in db.grants : h.id = req[s].grant => h = g
      BY <3>1, <3>3 DEF GrantInv, GrantRowsOK
    <3>5. g.issued <= mem[s].at
      BY <2>1, <3>1, <3>3 DEF GrantInv, SpendOK, CreateAt
    <3>6. Covers(g, req[s].user, req[s].source, req[s].fingerprint, mem[s].at)
      BY <3>3, <3>5 DEF Covers
    <3>7. SpendOK(s)'
      BY <2>1, <2>2, <2>4, <3>2, <3>4, <3>5, <3>6
      DEF GrantInv, SpendOK, CreateAt, WritingAt, ReadOnly, LedgerIds
    <3>8. QED BY <2>1, <2>2, <2>4, <3>7 DEF IssueOK, IssueAt, HandlerLocks
  <2>5. QED BY <2>2, <2>3, <2>4
<1>7. ASSUME Authorize(s)
      PROVE  Safe
  <2>1. pc[s] = "authorize" /\ mem[s] \in CreateLocals
    BY <1>0, <1>7 DEF Authorize, SessionOK, CreateAt
  <2>2. /\ Still(s) /\ req'[s] = req[s] /\ ReadOnly
        /\ UNCHANGED <<clock, tokens, ledger>>
        /\ \/ pc'[s] = "answered"
           \/ pc'[s] = "check_grant" /\ mem'[s] = [mem[s] EXCEPT !.gate = clock]
    BY <1>0, <1>7, GotoEffect DEF Authorize, History
  <2>3. CASE pc'[s] = "answered"
    BY <1>1, <1>2, <2>1, <2>2, <2>3 DEF HandlerLocks
  <2>4. CASE pc'[s] = "check_grant" /\ mem'[s] = [mem[s] EXCEPT !.gate = clock]
    <3>1. mem'[s].at = mem[s].at /\ mem'[s].before = mem[s].before
      BY <2>1, <2>4 DEF CreateLocals
    <3>2. SpendOK(s)'
      BY <2>1, <2>2, <2>4, <3>1
      DEF GrantInv, SpendOK, CreateAt, WritingAt, ReadOnly, LedgerIds
    <3>3. QED BY <2>1, <2>2, <2>4, <3>2 DEF IssueOK, IssueAt, HandlerLocks
  <2>5. QED BY <2>2, <2>3, <2>4
<1>8. ASSUME CheckGrant(s)
      PROVE  Safe
  <2>1. pc[s] = "check_grant" /\ View(s) = db
    BY <1>3, <1>8 DEF CheckGrant, HandlerLocks
  <2>2. /\ Still(s) /\ req'[s] = req[s] /\ ReadOnly
        /\ UNCHANGED <<clock, tokens, ledger>>
        /\ \/ pc'[s] = "answered"
           \/ /\ pc'[s] = "consume" /\ mem'[s] = mem[s]
              /\ \E g \in db.grants : g.id = req[s].grant /\ ~g.consumed
    BY <1>0, <1>8, <2>1, GotoEffect DEF CheckGrant, History
  <2>3. CASE pc'[s] = "answered"
    BY <1>1, <1>2, <2>1, <2>2, <2>3 DEF HandlerLocks
  <2>4. CASE /\ pc'[s] = "consume" /\ mem'[s] = mem[s]
             /\ \E g \in db.grants : g.id = req[s].grant /\ ~g.consumed
    <3>1. \A e \in ledger : e.row.grant # req[s].grant
      BY <2>4 DEF GrantInv, ConsumptionOK, Spent
    <3>2. SpendOK(s)'
      BY <2>1, <2>2, <2>4, <3>1
      DEF GrantInv, SpendOK, CreateAt, WritingAt, ReadOnly, LedgerIds
    <3>3. QED BY <2>1, <2>2, <2>4, <3>2 DEF IssueOK, IssueAt, HandlerLocks
  <2>5. QED BY <2>2, <2>3, <2>4
<1>9. ASSUME NEW r \in GetRequest, GetStart(s, r)
      PROVE  Safe
  <2>1. /\ Still(s) /\ pc[s] = "idle" /\ ReadOnly /\ UNCHANGED <<clock, tokens, ledger>>
        /\ pc'[s] \in Quiet
    BY <1>0, <1>9, GotoEffect DEF GetStart, History
  <2>2. QED BY <1>1, <1>2, <2>1
<1>10. ASSUME GetOffers(s)
       PROVE  Safe
  <2>1. /\ Still(s) /\ pc[s] = "select_offers" /\ ReadOnly
        /\ UNCHANGED <<clock, tokens, ledger>> /\ pc'[s] \in Quiet
    BY <1>0, <1>10, GotoEffect DEF GetOffers, History
  <2>2. QED BY <1>1, <1>2, <2>1
<1>11. Safe
  BY <1>4, <1>5, <1>6, <1>7, <1>8, <1>9, <1>10 DEF Arrival
<1>12. QED BY <1>0, <1>11, QuietGrants

\* The reading steps of a clean-up do not touch what requests rely on.
LEMMA CleanerReadsGrants ==
  ASSUME TypeOK, TypeOK', GrantInv, NEW c \in Cleaners,
         \/ \E r \in CleanCommand : CleanStart(c, r)
         \/ ScanOffers(c) \/ ScanReplays(c) \/ ScanGrants(c)
  PROVE  GrantInv'
<1>0. c \in Sessions /\ c \notin Handlers
  BY SessionAssumption DEF Sessions
<1> DEFINE Safe == Still(c) /\ ReadOnly /\ UNCHANGED <<clock, tokens, ledger>>
<1>1. ASSUME NEW r \in CleanCommand, CleanStart(c, r) PROVE Safe
  BY <1>0, <1>1, GotoEffect DEF CleanStart, History
<1>2. ASSUME ScanOffers(c) PROVE Safe
  BY <1>0, <1>2, GotoEffect DEF ScanOffers, History
<1>3. ASSUME ScanReplays(c) PROVE Safe
  BY <1>0, <1>3, GotoEffect DEF ScanReplays, History
<1>4. ASSUME ScanGrants(c) PROVE Safe
  BY <1>0, <1>4, GotoEffect DEF ScanGrants, History
<1>5. QED BY <1>0, <1>1, <1>2, <1>3, <1>4, QuietGrants

-----------------------------------------------------------------------------
(* The steps that write under the lock.                                     *)

\* A session that is about to take the lock finds nothing uncommitted and
\* nobody issuing or spending.
LEMMA LockFree ==
  ASSUME TableInv, NEW s \in Sessions, writer \in {NULL, s},
         s \in Handlers => pc[s] \notin HandlerLocks,
         s \in Cleaners => pc[s] \notin CleanerLocks
  PROVE  /\ writer = NULL /\ work = db /\ View(s) = db
         /\ \A t \in Handlers : pc[t] \notin HandlerLocks
<1>1. writer # s
  BY DEF TableInv, LockOK, Sessions
<1>2. \A t \in Handlers : t # NULL
  BY SessionAssumption
<1>3. QED BY <1>1, <1>2 DEF TableInv, LockOK, View

\* The steps that write no grant row, or delete some, keep the invariant.
LEMMA TrimGrants ==
  ASSUME TypeOK, TypeOK', GrantInv, NEW s \in Sessions, Still(s),
         UNCHANGED <<db, clock, tokens, ledger>>,
         work'.grants \subseteq work.grants,
         s \in Handlers => /\ pc[s] \in {"observe", "record"}
                          /\ pc'[s] \in {"record", "commit_observation"}
                          /\ req'[s] = req[s] /\ mem'[s].at = mem[s].at
                          /\ mem'[s].before = mem[s].before
  PROVE  GrantInv'
<1>1. /\ \A t \in Handlers : IssuedBy(t)' = IssuedBy(t)
      /\ \A id : Spending(id)' <=> Spending(id)
      /\ \A id : Spent(id)' <=> Spent(id)
  BY DEF Spent, IssuedBy, Spending, SpendingAt, Still, Sessions
<1>2. GrantRowsOK'
  BY <1>1 DEF GrantInv, GrantRowsOK
<1>3. ConsumptionOK'
  BY <1>1 DEF GrantInv, ConsumptionOK
<1>4. ASSUME NEW t \in Handlers, t # s
      PROVE  IssueOK(t)' /\ SpendOK(t)'
  <2>1. pc'[t] = pc[t] /\ req'[t] = req[t] /\ mem'[t] = mem[t] /\ clock <= clock'
    BY <1>4 DEF Still, Sessions, TypeOK
  <2>2. QED BY <2>1, BystanderKeeps DEF GrantInv, SameTerms
<1>5. s \in Handlers => IssueOK(s)' /\ SpendOK(s)'
  BY DEF GrantInv, IssueOK, SpendOK, IssueAt, CreateAt, WritingAt, LedgerIds
<1>6. QED BY <1>2, <1>3, <1>4, <1>5 DEF GrantInv

\* Observe, RecordIdempotency, Purge and PurgeGrants are such steps.
LEMMA TrimStepsGrants ==
  ASSUME TypeOK, TypeOK', TableInv, GrantInv, NEW s \in Sessions,
         \/ s \in Handlers /\ (Observe(s) \/ RecordIdempotency(s))
         \/ s \in Cleaners /\ (Purge(s) \/ PurgeGrants(s))
  PROVE  GrantInv'
<1>0. SessionOK(s, pc[s], req[s], mem[s]) /\ View(s) \in Tables
  BY ViewType DEF TypeOK
<1>1. writer \in {NULL, s} => View(s) = work
  BY DEF TableInv, LockOK, View
<1>2. ASSUME s \in Handlers, Observe(s)
      PROVE  GrantInv'
  <2>1. pc[s] = "observe" /\ mem[s] \in CreateLocals
    BY <1>0, <1>2 DEF Observe, SessionOK, CreateAt, WritingAt
  <2>2. PICK o : /\ Goto(s, "record", [mem[s] EXCEPT !.made = {o}])
                 /\ req' = req
    BY <1>2 DEF Observe
  <2>3. /\ Still(s) /\ pc'[s] = "record" /\ req'[s] = req[s]
        /\ mem'[s].at = mem[s].at /\ mem'[s].before = mem[s].before
    BY <2>1, <2>2, GotoEffect DEF CreateLocals
  <2>4. work'.grants = View(s).grants /\ UNCHANGED <<db, clock, tokens, ledger>>
        /\ writer \in {NULL, s}
    BY <1>0, <1>2 DEF Observe, Write, Tables, History
  <2>5. QED BY <1>1, <1>2, <2>1, <2>3, <2>4, TrimGrants
<1>3. ASSUME s \in Handlers, RecordIdempotency(s)
      PROVE  GrantInv'
  <2>1. Still(s) /\ pc'[s] = "commit_observation" /\ req'[s] = req[s] /\ mem'[s] = mem[s]
    BY <1>3, GotoEffect DEF RecordIdempotency
  <2>2. /\ work'.grants = View(s).grants /\ UNCHANGED <<db, clock, tokens, ledger>>
        /\ writer \in {NULL, s} /\ pc[s] = "record"
    BY <1>0, <1>3 DEF RecordIdempotency, Write, Tables, History
  <2>3. QED BY <1>1, <1>3, <2>1, <2>2, TrimGrants
<1>4. ASSUME s \in Cleaners, Purge(s) \/ PurgeGrants(s)
      PROVE  GrantInv'
  <2>1. Still(s) /\ s \notin Handlers
    BY <1>4, GotoEffect, SessionAssumption DEF Purge, PurgeGrants
  <2>2. /\ work'.grants \subseteq View(s).grants
        /\ UNCHANGED <<db, clock, tokens, ledger>> /\ writer \in {NULL, s}
    BY <1>0, <1>4 DEF Purge, PurgeGrants, Write, Tables, History
  <2>3. QED BY <1>1, <2>1, <2>2, TrimGrants
<1>5. QED BY <1>2, <1>3, <1>4

\* A new grant has a new id.
LEMMA IssueInsertGrants ==
  ASSUME TypeOK, TypeOK', TableInv, GrantInv, NEW s \in Handlers, IssueInsert(s)
  PROVE  GrantInv'
<1>0. s \in Sessions /\ s \notin Cleaners /\ SessionOK(s, pc[s], req[s], mem[s])
  BY SessionAssumption DEF Sessions, TypeOK
<1>1. pc[s] = "insert_grant" /\ mem[s] \in IssueLocals
  BY <1>0 DEF IssueInsert, SessionOK, IssueAt
<1>2. /\ writer = NULL /\ work = db /\ View(s) = db /\ db \in Tables
      /\ \A t \in Handlers : pc[t] \notin HandlerLocks
  <2>1. writer \in {NULL, s}
    BY DEF IssueInsert, Write
  <2>2. QED BY <1>0, <1>1, <2>1, LockFree DEF HandlerLocks, TypeOK
<1> DEFINE row(g) == NewGrant(g, req[s].user, req[s].source, req[s].fingerprint,
                              mem[s].at)
<1>3. PICK g \in GrantIds \ tokens :
        /\ Write(s, [View(s) EXCEPT !.grants = @ \cup {row(g)}])
        /\ Goto(s, "commit_grant", [mem[s] EXCEPT !.granted = {g}])
  BY DEF IssueInsert
<1>4. /\ Still(s) /\ pc'[s] = "commit_grant" /\ mem'[s].granted = {g}
      /\ mem'[s].at = mem[s].at
  BY <1>0, <1>1, <1>3, GotoEffect DEF IssueInsert, IssueLocals
<1>5. /\ work'.grants = db.grants \cup {row(g)}
      /\ UNCHANGED <<db, clock, tokens, ledger>>
  BY <1>2, <1>3 DEF IssueInsert, Write, Tables, History
<1>6. row(g).id = g /\ ~row(g).consumed /\ row(g).issued = mem[s].at
  BY DEF NewGrant
<1>7. /\ IssuedBy(s)' = {g}
      /\ \A id : ~Spending(id) /\ ~Spending(id)'
      /\ \A id : Spent(id)' <=> Spent(id)
  BY <1>2, <1>4, <1>5
  DEF IssuedBy, Spending, SpendingAt, Spent, HandlerLocks, Still, Sessions
<1>8. GrantRowsOK'
  <2>1. \A h \in db.grants : h.id \in tokens
    BY DEF GrantInv, GrantRowsOK
  <2>2. mem[s].at <= clock
    BY <1>1 DEF GrantInv, IssueOK, IssueAt
  <2> HIDE DEF row
  <2>3. QED
    BY <1>3, <1>5, <1>6, <1>7, <2>1, <2>2 DEF GrantInv, GrantRowsOK, SameTerms
<1>9. ConsumptionOK'
  <2>1. ~Spent(g)
    BY <1>3 DEF GrantInv, ConsumptionOK, Spent
  <2> HIDE DEF row
  <2>2. QED
    BY <1>2, <1>5, <1>6, <1>7, <2>1 DEF GrantInv, ConsumptionOK
<1>10. ASSUME NEW t \in Handlers
       PROVE  IssueOK(t)' /\ SpendOK(t)'
  <2>1. CASE t = s
    BY <1>1, <1>3, <1>4, <1>5, <2>1
    DEF GrantInv, IssueOK, SpendOK, IssueAt, CreateAt, WritingAt
  <2>2. CASE t # s
    <3>1. pc'[t] = pc[t] /\ req'[t] = req[t] /\ mem'[t] = mem[t] /\ clock <= clock'
      BY <1>4, <1>5, <2>2 DEF Still, Sessions, TypeOK
    <3>2. QED BY <1>5, <3>1, BystanderKeeps DEF GrantInv, SameTerms
  <2>3. QED BY <2>1, <2>2
<1>11. QED BY <1>8, <1>9, <1>10 DEF GrantInv

\* The UPDATE consumes the grant of the request, and no other.
LEMMA ConsumeGrants ==
  ASSUME TypeOK, TypeOK', TableInv, GrantInv, NEW s \in Handlers, Consume(s)
  PROVE  GrantInv'
<1>0. s \in Sessions /\ s \notin Cleaners
  BY SessionAssumption DEF Sessions
<1>1. pc[s] = "consume"
  BY DEF Consume
<1>2. /\ writer = NULL /\ work = db /\ View(s) = db /\ db \in Tables
      /\ \A t \in Handlers : pc[t] \notin HandlerLocks
  <2>1. writer \in {NULL, s}
    BY DEF Consume, Write
  <2>2. QED BY <1>0, <1>1, <2>1, LockFree DEF HandlerLocks, TypeOK
<1>3. Still(s) /\ pc'[s] = "observe" /\ req'[s] = req[s] /\ mem'[s] = mem[s]
  BY <1>0, GotoEffect DEF Consume
<1> DEFINE after(g) == IF g.id = req[s].grant THEN [g EXCEPT !.consumed = TRUE] ELSE g
<1>4. /\ work'.grants = {after(g) : g \in db.grants}
      /\ UNCHANGED <<db, clock, tokens, ledger>>
  BY <1>2 DEF Consume, Write, Tables, History
<1>5. \A g \in db.grants :
        /\ SameTerms(after(g), g)
        /\ after(g).consumed <=> g.consumed \/ g.id = req[s].grant
  BY <1>2 DEF Tables, Grant, SameTerms
<1> HIDE DEF after
<1>6. /\ \A t \in Handlers : IssuedBy(t) = {} /\ IssuedBy(t)' = {}
      /\ \A id : ~Spending(id)
      /\ \A id : Spending(id)' <=> id = req[s].grant
      /\ \A id : Spent(id)' <=> Spent(id)
  BY <1>2, <1>3, <1>4
  DEF IssuedBy, Spending, SpendingAt, Spent, HandlerLocks, Still, Sessions
<1>7. GrantRowsOK'
  BY <1>2, <1>4, <1>5 DEF GrantInv, GrantRowsOK, SameTerms
<1>8. ConsumptionOK'
  BY <1>4, <1>5, <1>6 DEF GrantInv, ConsumptionOK, SameTerms
<1>9. ASSUME NEW t \in Handlers
      PROVE  IssueOK(t)' /\ SpendOK(t)'
  <2>1. CASE t = s
    BY <1>1, <1>3, <1>4, <2>1
    DEF GrantInv, IssueOK, SpendOK, IssueAt, CreateAt, WritingAt, LedgerIds
  <2>2. CASE t # s
    <3>1. pc'[t] = pc[t] /\ req'[t] = req[t] /\ mem'[t] = mem[t] /\ clock <= clock'
      BY <1>3, <1>4, <2>2 DEF Still, Sessions, TypeOK
    <3>2. QED BY <1>4, <3>1, BystanderKeeps DEF GrantInv, SameTerms
  <2>3. QED BY <2>1, <2>2
<1>10. QED BY <1>7, <1>8, <1>9 DEF GrantInv

-----------------------------------------------------------------------------
(* The steps that commit.                                                   *)

\* A commit hands out what its session issued and spends what it consumed.
LEMMA PublishGrants ==
  ASSUME TypeOK, TypeOK', TableInv, GrantInv, NEW s \in Sessions,
         Still(s), Publish(s), writer = s, pc'[s] \in {"idle", "answered"},
         clock' = clock, ledger \subseteq ledger',
         s \in Handlers => tokens' = tokens \cup IssuedBy(s),
         s \in Cleaners => tokens' = tokens,
         \A id : Spent(id)' <=> Spent(id) \/ Spending(id),
         \A e \in ledger' \ ledger :
           /\ e.row.id \notin LedgerIds
           /\ e.row.grant \in tokens
           /\ \A g \in db.grants : e.row.grant = g.id =>
                Covers(g, e.row.user, e.row.source, e.row.fingerprint, e.row.created)
  PROVE  GrantInv'
<1>1. db' = work /\ work' = work
  BY DEF Publish
<1>2. \A t \in Handlers \ {s} : pc[t] \notin HandlerLocks /\ pc'[t] = pc[t]
  BY DEF TableInv, LockOK, Still, Sessions
<1>3. /\ \A t \in Handlers \ {s} : IssuedBy(t) = {}
      /\ \A t \in Handlers : IssuedBy(t)' = {}
      /\ \A id : ~Spending(id)'
  BY <1>2 DEF IssuedBy, Spending, SpendingAt, HandlerLocks
<1>4. tokens \subseteq tokens' /\ \A g \in work.grants : g.id \in tokens'
  <2>1. tokens \subseteq tokens'
    BY SessionAssumption DEF Sessions
  <2>2. ASSUME NEW g \in work.grants
        PROVE  g.id \in tokens'
    <3>1. CASE \E h \in db.grants : SameTerms(g, h)
      BY <2>1, <3>1 DEF GrantInv, GrantRowsOK, SameTerms
    <3>2. CASE \E t \in Handlers : g.id \in IssuedBy(t)
      BY <1>3, <3>2
    <3>3. QED BY <3>1, <3>2 DEF GrantInv, GrantRowsOK
  <2>3. QED BY <2>1, <2>2
<1>5. \A g \in work.grants : g.id \in tokens => \E h \in db.grants : SameTerms(g, h)
  BY DEF GrantInv, GrantRowsOK
<1>6. GrantRowsOK'
  BY <1>1, <1>4 DEF GrantInv, GrantRowsOK, SameTerms
<1>7. \A e \in ledger', g \in work.grants : e.row.grant = g.id =>
        Covers(g, e.row.user, e.row.source, e.row.fingerprint, e.row.created)
  <2>1. \A e \in ledger' : e.row.grant \in tokens
    BY DEF GrantInv, ConsumptionOK
  <2>2. \A e \in ledger', h \in db.grants : e.row.grant = h.id =>
          Covers(h, e.row.user, e.row.source, e.row.fingerprint, e.row.created)
    BY DEF GrantInv, ConsumptionOK
  <2>3. QED BY <1>5, <2>1, <2>2 DEF SameTerms, Covers
<1>8. ConsumptionOK'
  <2>1. \A e \in ledger' : e.row.grant \in tokens'
    BY <1>4 DEF GrantInv, ConsumptionOK
  <2>2. \A g \in work.grants : g.consumed <=> Spent(g.id)'
    BY DEF GrantInv, ConsumptionOK
  <2>3. QED BY <1>1, <1>3, <1>7, <2>1, <2>2 DEF ConsumptionOK
<1>9. ASSUME NEW t \in Handlers
      PROVE  IssueOK(t)' /\ SpendOK(t)'
  <2>1. CASE t = s
    BY <2>1 DEF IssueOK, SpendOK, IssueAt, CreateAt, WritingAt
  <2>2. CASE t # s
    <3>1. pc'[t] = pc[t] /\ req'[t] = req[t] /\ mem'[t] = mem[t] /\ clock <= clock'
      BY <2>2 DEF Still, Sessions, TypeOK
    <3>2. pc[t] # "commit_grant"
      BY <1>2, <2>2 DEF HandlerLocks
    <3>3. QED BY <1>1, <1>4, <1>5, <3>1, <3>2, BystanderKeeps DEF GrantInv
  <2>3. QED BY <2>1, <2>2
<1>10. QED BY <1>6, <1>8, <1>9 DEF GrantInv

\* IssueCommit hands out the grant.
LEMMA IssueCommitGrants ==
  ASSUME TypeOK, TypeOK', TableInv, GrantInv, NEW s \in Handlers, IssueCommit(s)
  PROVE  GrantInv'
<1>1. s \in Sessions /\ s \notin Cleaners
  BY SessionAssumption DEF Sessions
<1>2. pc[s] = "commit_grant" /\ writer = s
  BY DEF IssueCommit, TableInv, LockOK, HandlerLocks
<1>3. /\ Still(s) /\ pc'[s] = "answered" /\ Publish(s)
      /\ clock' = clock /\ ledger' = ledger /\ tokens' = tokens \cup IssuedBy(s)
  BY <1>1, <1>2, GotoEffect DEF IssueCommit, IssuedBy
<1>4. \A id : ~Spending(id) /\ (Spent(id)' <=> Spent(id))
  BY <1>2, <1>3 DEF TableInv, LockOK, HandlerLocks, Spending, SpendingAt, Spent
<1>5. QED BY <1>1, <1>2, <1>3, <1>4, PublishGrants

\* Finish publishes deletions of a clean-up alone, or nothing.
LEMMA FinishGrants ==
  ASSUME TypeOK, TypeOK', TableInv, GrantInv, NEW c \in Cleaners, Finish(c)
  PROVE  GrantInv'
<1>1. c \in Sessions /\ c \notin Handlers
  BY SessionAssumption DEF Sessions
<1>2. CASE writer = c /\ ~req[c].dry
  <2>1. /\ Still(c) /\ pc'[c] = "idle" /\ Publish(c)
        /\ UNCHANGED <<clock, tokens, ledger>>
    BY <1>1, <1>2 DEF Finish, TypeOK, Still, History
  <2>2. \A id : ~Spending(id) /\ (Spent(id)' <=> Spent(id))
    BY <1>1, <1>2, <2>1
    DEF TableInv, LockOK, HandlerLocks, Spending, SpendingAt, Spent
  <2>3. QED BY <1>1, <1>2, <2>1, <2>2, PublishGrants
<1>3. CASE ~(writer = c /\ ~req[c].dry)
  <2>1. Close(c)
    BY <1>3 DEF Finish, Close
  <2>2. QED BY <1>1, <2>1, CloseGrants
<1>4. QED BY <1>2, <1>3

\* CreateCommit spends the grant of its request on the observation it made.
LEMMA CreateCommitGrants ==
  ASSUME TypeOK, TypeOK', TableInv, GrantInv, NEW s \in Handlers, CreateCommit(s)
  PROVE  GrantInv'
<1>1. s \in Sessions /\ s \notin Cleaners
  BY SessionAssumption DEF Sessions
<1>2. pc[s] = "commit_observation" /\ writer = s
  BY DEF CreateCommit, TableInv, LockOK, HandlerLocks
<1>3. PICK id \in ObservationIds \ LedgerIds :
        mem[s].made = {NewObservation(id, req[s].grant, req[s].user, req[s].source,
                         req[s].fingerprint, mem[s].at, mem[s].at)}
  BY <1>2 DEF TableInv, MadeOK
<1> DEFINE o == NewObservation(id, req[s].grant, req[s].user, req[s].source,
                               req[s].fingerprint, mem[s].at, mem[s].at)
           entry == [row |-> o, key |-> req[s].key]
<1>4. /\ entry.row.id = id /\ entry.row.grant = req[s].grant
      /\ entry.row.user = req[s].user /\ entry.row.source = req[s].source
      /\ entry.row.fingerprint = req[s].fingerprint
      /\ entry.row.created = mem[s].at
  BY DEF NewObservation
<1>5. /\ Still(s) /\ pc'[s] = "answered" /\ Publish(s)
      /\ clock' = clock /\ tokens' = tokens /\ ledger' = ledger \cup {entry}
  BY <1>1, <1>3, GotoEffect DEF CreateCommit
<1> HIDE DEF entry
<1>6. IssuedBy(s) = {}
  BY <1>2 DEF IssuedBy
<1>7. \A i : Spending(i) <=> i = req[s].grant
  BY <1>2 DEF TableInv, LockOK, HandlerLocks, Spending, SpendingAt
<1>8. \A i : Spent(i)' <=> Spent(i) \/ Spending(i)
  BY <1>4, <1>5, <1>7 DEF Spent
<1>9. /\ req[s].grant \in tokens
      /\ \A g \in db.grants : g.id = req[s].grant =>
           Covers(g, req[s].user, req[s].source, req[s].fingerprint, mem[s].at)
  BY <1>2 DEF GrantInv, SpendOK, CreateAt, WritingAt
<1>10. \A e \in ledger' \ ledger :
         /\ e.row.id \notin LedgerIds
         /\ e.row.grant \in tokens
         /\ \A g \in db.grants : e.row.grant = g.id =>
              Covers(g, e.row.user, e.row.source, e.row.fingerprint, e.row.created)
  BY <1>3, <1>4, <1>5, <1>9
<1>11. QED BY <1>1, <1>2, <1>5, <1>6, <1>8, <1>10, PublishGrants

-----------------------------------------------------------------------------
\* Every step keeps the invariant.
LEMMA GrantStep ==
  TypeOK /\ TypeOK' /\ TableInv /\ GrantInv /\ [Next]_vars => GrantInv'
<1> SUFFICES ASSUME TypeOK, TypeOK', TableInv, GrantInv, [Next]_vars
             PROVE  GrantInv'
  OBVIOUS
<1>1. ASSUME NEW s \in Handlers, Arrival(s) \/ HandlerStep(s)
      PROVE  GrantInv'
  <2>1. s \in Sessions
    BY DEF Sessions
  <2>2. CASE Respond(s) \/ BusyTimeout(s) \/ RecordConflict(s)
    BY <2>1, <2>2, CloseGrants DEF Respond, BusyTimeout, RecordConflict
  <2>3. QED
    BY <1>1, <2>1, <2>2, HandlerReadsGrants, TrimStepsGrants, IssueInsertGrants,
       ConsumeGrants, IssueCommitGrants, CreateCommitGrants
    DEF HandlerStep
<1>2. ASSUME NEW c \in Cleaners,
             (\E r \in CleanCommand : CleanStart(c, r)) \/ CleanerStep(c)
      PROVE  GrantInv'
  <2>1. c \in Sessions
    BY DEF Sessions
  <2>2. CASE BusyTimeout(c)
    BY <2>1, <2>2, CloseGrants DEF BusyTimeout
  <2>3. QED
    BY <1>2, <2>1, <2>2, CleanerReadsGrants, TrimStepsGrants, FinishGrants
    DEF CleanerStep
<1>3. ASSUME NEW s \in Sessions, Crash(s)
      PROVE  GrantInv'
  BY <1>3, CloseGrants DEF Crash
<1>4. CASE Tick \/ UNCHANGED vars
  <2>1. UNCHANGED <<db, work, writer, pc, req, mem, tokens, ledger>>
    BY <1>4 DEF Tick, vars
  <2>2. clock \in Nat /\ clock' \in Nat /\ clock <= clock'
    BY <1>4 DEF TypeOK, Tick, vars
  <2>3. \A g \in db.grants \cup work.grants : g.issued \in Nat
    BY DEF TypeOK, Tables, Grant
  <2>4. /\ \A t \in Handlers : IssuedBy(t)' = IssuedBy(t)
        /\ \A id : Spending(id)' <=> Spending(id)
        /\ \A id : Spent(id)' <=> Spent(id)
    BY <2>1 DEF IssuedBy, Spending, Spent
  <2>5. GrantRowsOK'
    BY <2>1, <2>2, <2>3, <2>4 DEF GrantInv, GrantRowsOK
  <2>6. ConsumptionOK'
    BY <2>1, <2>4 DEF GrantInv, ConsumptionOK
  <2>7. ASSUME NEW t \in Handlers
        PROVE  IssueOK(t)' /\ SpendOK(t)'
    BY <2>1, <2>2, BystanderKeeps DEF GrantInv, SameTerms
  <2>8. QED BY <2>5, <2>6, <2>7 DEF GrantInv
<1>5. QED BY <1>1, <1>2, <1>3, <1>4 DEF Next

\* No grants, no requests: the invariant holds.
LEMMA GrantInit == Init => GrantInv
<1> SUFFICES ASSUME Init PROVE GrantInv
  OBVIOUS
<1>1. GrantRowsOK /\ ConsumptionOK
  BY DEF Init, NoRows, GrantRowsOK, ConsumptionOK
<1>2. \A s \in Handlers : IssueOK(s) /\ SpendOK(s)
  BY DEF Init, Sessions, IssueOK, SpendOK, IssueAt, CreateAt, WritingAt
<1>3. QED BY <1>1, <1>2 DEF GrantInv

\* The invariant of the grants holds in every state.
THEOREM GrantInvariant == Spec => []GrantInv
<1>1. QED BY TypeCorrect, TableInvariant, GrantInit, GrantStep, PTL DEF Spec

\* No crash between the statements of a request, no conflict and no clean-up
\* burns a grant or leaves one usable that an observation was made with.
THEOREM ConsumptionIsAtomic == Spec => []ConsumptionMatchesObservations
<1>1. GrantInv => ConsumptionMatchesObservations
  BY DEF GrantInv, ConsumptionOK, Spent, ConsumptionMatchesObservations
<1>2. QED BY <1>1, GrantInvariant, PTL

\* Although a grant is judged from a row read several steps before the write,
\* every observation was made by the grant's user, for its search, within its
\* lifetime.
THEOREM ObservationsFitGrants == Spec => []ObservationsMatchTheirGrants
<1>1. GrantInv => ObservationsMatchTheirGrants
  BY DEF GrantInv, ConsumptionOK, Covers, ObservationsMatchTheirGrants
<1>2. QED BY <1>1, GrantInvariant, PTL

\* A grant is refused to every request that starts after an observation was
\* committed with it; only requests already in flight can spend it again.
THEOREM SpentGrantsStaySpent == Spec => []SpentGrantStaysSpent
<1>1. GrantInv => SpentGrantStaysSpent
  BY DEF GrantInv, SpendOK, SpentGrantStaysSpent
<1>2. QED BY <1>1, GrantInvariant, PTL

(***************************************************************************)
(* What the clean-up leaves alone.  For any number of overlapping clean-ups: *)
(* a read never loses the offer of an active observation, and the gap holds  *)
(* although it is computed from rows that are deleted.  For clean-ups that   *)
(* do not overlap: the replay rows of active observations stay, so a retry   *)
(* never makes a second observation.                                        *)
(*                                                                         *)
(* A clean-up deletes by ids it read steps before.  An observation's id is   *)
(* never used again, so what was read of it still holds; a replay row's key  *)
(* is, which is why the second invariant needs the clean-ups not to overlap.*)
(***************************************************************************)
\* The tables hold every active observation and its offer.
ActiveIn(t) ==
  \A e \in ledger : e.row.expires > clock =>
    e.row \in t.observations /\ e.row.id \in t.offers

\* A result is complete when it is made, and lives for ResultTTL.
LifetimesOK ==
  \A e \in ledger : /\ e.row.completed = e.row.created
                    /\ e.row.expires = e.row.created + ResultTTL

\* What a clean-up has chosen to delete is expired and stays so.
ExpiredOK(c) ==
  pc[c] \in {"scan_offers", "scan_replays", "purge"} =>
    \A e \in ledger : e.row.id \in mem[c].expired => e.row.expires <= clock

\* What a read and a create request have established by their own reads.
ReadOK(s) ==
  /\ pc[s] = "select_offers" => \A o \in mem[s].rows : Committed(o)
  /\ pc[s] = "answered" =>
       \A o \in mem[s].rows : o.id \notin mem[s].offers => o.expires <= clock
  /\ pc[s] \in WritingAt =>
       \A e \in ledger :
         /\ e.row.id \in mem[s].before
         /\ e.row.user = req[s].user /\ e.row.source = req[s].source
         /\ e.row.fingerprint = req[s].fingerprint
         => mem[s].gate >= e.row.completed + MinGap

RowInv ==
  /\ LifetimesOK
  /\ ActiveIn(db) /\ ActiveIn(work)
  /\ \A c \in Cleaners : ExpiredOK(c)
  /\ \A s \in Handlers : ReadOK(s)

-----------------------------------------------------------------------------
(* Frames.                                                                  *)

\* A clock that advances only lets more expire.
LEMMA ActiveFrame ==
  ASSUME TypeOK, TypeOK', clock <= clock', NEW t, ledger' = ledger, ActiveIn(t)
  PROVE  \A e \in ledger' : e.row.expires > clock' =>
           e.row \in t.observations /\ e.row.id \in t.offers
<1>1. clock \in Nat /\ clock' \in Nat /\ \A e \in ledger : e.row.expires \in Nat
  BY DEF TypeOK, Entry, Observation
<1>2. QED BY <1>1 DEF ActiveIn

\* What another session chose or read stays true.
LEMMA OthersKeep ==
  ASSUME TypeOK, TypeOK', TableInv, GrantInv, clock <= clock',
         ledger \subseteq ledger',
         \A e \in ledger' : e \in ledger \/ e.row.id \notin LedgerIds,
         NEW t \in Sessions,
         pc'[t] = pc[t], req'[t] = req[t], mem'[t] = mem[t]
  PROVE  /\ t \in Cleaners /\ ExpiredOK(t) => ExpiredOK(t)'
         /\ t \in Handlers /\ ReadOK(t) => ReadOK(t)'
<1>1. clock \in Nat /\ clock' \in Nat /\ \A e \in ledger : e.row.expires \in Nat
  BY DEF TypeOK, Entry, Observation
<1>2. ASSUME t \in Cleaners, ExpiredOK(t)
      PROVE  ExpiredOK(t)'
  <2>1. pc[t] \in {"scan_offers", "scan_replays", "purge"} =>
          mem[t].expired \subseteq LedgerIds
    BY <1>2 DEF TableInv, CleanOK
  <2>2. QED BY <1>1, <1>2, <2>1 DEF ExpiredOK
<1>3. ASSUME t \in Handlers, ReadOK(t)
      PROVE  ReadOK(t)'
  <2>1. pc[t] = "select_offers" => (\A o \in mem[t].rows : Committed(o))'
    BY <1>3 DEF ReadOK, Committed
  <2>2. pc[t] = "answered" => \A o \in mem[t].rows : o.expires \in Nat
    BY DEF TypeOK, SessionOK, Answer, Observation
  <2>3. pc[t] \in WritingAt => mem[t].before \subseteq LedgerIds
    BY <1>3 DEF GrantInv, SpendOK, CreateAt
  <2>4. QED BY <1>1, <1>3, <2>1, <2>2, <2>3 DEF ReadOK
<1>4. QED BY <1>2, <1>3

\* A step of one session that commits no observation.
LEMMA RowFrame ==
  ASSUME TypeOK, TypeOK', TableInv, GrantInv, RowInv,
         NEW s \in Sessions, Still(s), clock' = clock, ledger' = ledger,
         ActiveIn(db)', ActiveIn(work)',
         s \in Handlers => ReadOK(s)',
         s \in Cleaners => ExpiredOK(s)'
  PROVE  RowInv'
<1>1. clock <= clock'
  BY DEF TypeOK
<1>2. \A t \in Sessions \ {s} :
        /\ t \in Cleaners => ExpiredOK(t)'
        /\ t \in Handlers => ReadOK(t)'
  BY <1>1, OthersKeep DEF Still, RowInv
<1>3. LifetimesOK'
  BY DEF RowInv, LifetimesOK
<1>4. QED BY <1>2, <1>3 DEF RowInv, Sessions

\* The same for a step that leaves the tables as they are, or takes one over
\* from the other.
LEMMA RowQuiet ==
  ASSUME TypeOK, TypeOK', TableInv, GrantInv, RowInv,
         NEW s \in Sessions, Still(s), clock' = clock, ledger' = ledger,
         db' \in {db, work}, work' \in {db, work},
         s \in Handlers => ReadOK(s)',
         s \in Cleaners => ExpiredOK(s)'
  PROVE  RowInv'
<1>1. ActiveIn(db)' /\ ActiveIn(work)'
  BY DEF RowInv, ActiveIn
<1>2. QED BY <1>1, RowFrame

\* A session that closes chooses and reads nothing any more.
LEMMA CloseRows ==
  ASSUME TypeOK, TypeOK', TableInv, GrantInv, RowInv, NEW s \in Sessions, Close(s)
  PROVE  RowInv'
<1>1. pc'[s] = "idle" /\ Still(s)
  BY CloseEffect
<1>2. db' = db /\ work' \in {db, work} /\ clock' = clock /\ ledger' = ledger
  BY DEF Close, Discard, History
<1>3. ReadOK(s)' /\ ExpiredOK(s)'
  BY <1>1 DEF ReadOK, ExpiredOK, WritingAt
<1>4. QED BY <1>1, <1>2, <1>3, RowQuiet

-----------------------------------------------------------------------------
(* The steps that read.                                                     *)

\* The gate lets a request pass only when every earlier observation of its
\* search is too old: one that is still stored was looked at, and one that was
\* cleaned up had outlived the gap.
LEMMA GateHolds ==
  ASSUME TypeOK, TableInv, GrantInv, RowInv, NEW s \in Handlers, Authorize(s),
         pc'[s] = "check_grant"
  PROVE  \A e \in ledger :
           /\ e.row.user = req[s].user /\ e.row.source = req[s].source
           /\ e.row.fingerprint = req[s].fingerprint
           => clock >= e.row.completed + MinGap
<1> DEFINE done == {o.completed : o \in {o \in View(s).observations :
                      /\ o.user = req[s].user
                      /\ o.source = req[s].source
                      /\ o.fingerprint = req[s].fingerprint}}
<1>1. pc[s] = "authorize" /\ s \in Sessions
  BY DEF Authorize, Sessions
<1>2. View(s) = db
  BY <1>1 DEF TableInv, LockOK, View, HandlerLocks
<1>3. GateVerdict(SourcePolicy(req[s].source, mem[s].at), req[s].context,
        req[s].fingerprint, mem[s].grants, done, clock, MinGap) = Allowed
  BY <1>1, GotoEffect DEF Authorize
<1>4. ~TooSoon(done, clock, MinGap)
  BY <1>3 DEF GateVerdict, Allowed
<1>5. \A t \in done : ~(clock < t + MinGap)
  BY <1>4 DEF TooSoon
<1>6. ASSUME NEW e \in ledger,
             e.row.user = req[s].user, e.row.source = req[s].source,
             e.row.fingerprint = req[s].fingerprint
      PROVE  clock >= e.row.completed + MinGap
  <2>1. /\ clock \in Nat /\ e.row.created \in Nat /\ e.row.completed \in Nat
        /\ e.row.expires \in Nat /\ MinGap \in Nat /\ ResultTTL \in Nat
        /\ MinGap <= ResultTTL
    BY TimeAssumption, RetentionAssumption DEF TypeOK, Entry, Observation
  <2>2. CASE e.row \in db.observations
    <3>1. e.row.completed \in done
      BY <1>2, <1>6, <2>2
    <3>2. QED BY <1>5, <2>1, <3>1
  <2>3. CASE e.row \notin db.observations
    <3>1. ~(e.row.expires > clock)
      BY <2>3 DEF RowInv, ActiveIn
    <3>2. /\ e.row.completed = e.row.created
          /\ e.row.expires = e.row.created + ResultTTL
      BY DEF RowInv, LifetimesOK
    <3>3. QED BY <2>1, <3>1, <3>2
  <2>4. QED BY <2>2, <2>3
<1>7. QED BY <1>6

\* The reading steps of a handler keep the invariant: an observation that was
\* found without its offer had expired.
LEMMA HandlerReadsRows ==
  ASSUME TypeOK, TypeOK', TableInv, GrantInv, RowInv, NEW s \in Handlers,
         \/ Arrival(s) \/ SelectGrant(s) \/ Authorize(s) \/ CheckGrant(s)
         \/ GetOffers(s)
  PROVE  RowInv'
<1>0. /\ s \in Sessions /\ s \notin Cleaners /\ SessionOK(s, pc[s], req[s], mem[s])
      /\ clock \in Nat
  BY SessionAssumption DEF Sessions, TypeOK
<1> DEFINE Safe == /\ Still(s) /\ ReadOnly /\ clock' = clock /\ ledger' = ledger
                   /\ ReadOK(s)'
           Elsewhere == {"insert_grant", "select_grant", "authorize"}
<1>1. pc'[s] \in Elsewhere => ReadOK(s)'
  BY DEF ReadOK, WritingAt
<1>2. ASSUME pc'[s] = "answered", mem'[s].rows = {}
      PROVE  ReadOK(s)'
  BY <1>2 DEF ReadOK, WritingAt
<1>3. ASSUME NEW r \in IssueRequest, IssueStart(s, r)
      PROVE  Safe
  <2>1. /\ Still(s) /\ ReadOnly /\ clock' = clock /\ ledger' = ledger
        /\ (pc'[s] = "answered" /\ mem'[s].rows = {}) \/ pc'[s] \in Elsewhere
    BY <1>0, <1>3, GotoEffect DEF IssueStart, History, Denied
  <2>2. QED BY <1>1, <1>2, <2>1
<1>4. ASSUME NEW r \in CreateRequest, CreateStart(s, r)
      PROVE  Safe
  <2>1. /\ Still(s) /\ ReadOnly /\ clock' = clock /\ ledger' = ledger
        /\ (pc'[s] = "answered" /\ mem'[s].rows = {}) \/ pc'[s] \in Elsewhere
    BY <1>0, <1>4, GotoEffect DEF CreateStart, History, Denied, Queued
  <2>2. QED BY <1>1, <1>2, <2>1
<1>5. ASSUME SelectGrant(s)
      PROVE  Safe
  <2>1. /\ Still(s) /\ ReadOnly /\ clock' = clock /\ ledger' = ledger
        /\ (pc'[s] = "answered" /\ mem'[s].rows = {}) \/ pc'[s] \in Elsewhere
    BY <1>0, <1>5, GotoEffect DEF SelectGrant, History, Denied
  <2>2. QED BY <1>1, <1>2, <2>1
<1>6. ASSUME Authorize(s)
      PROVE  Safe
  <2>1. pc[s] = "authorize" /\ mem[s] \in CreateLocals
    BY <1>0, <1>6 DEF Authorize, SessionOK, CreateAt
  <2>2. /\ Still(s) /\ req'[s] = req[s] /\ ReadOnly
        /\ clock' = clock /\ ledger' = ledger
        /\ \/ pc'[s] = "answered" /\ mem'[s].rows = {}
           \/ pc'[s] = "check_grant" /\ mem'[s] = [mem[s] EXCEPT !.gate = clock]
    BY <1>0, <1>6, GotoEffect DEF Authorize, History, Denied
  <2>3. CASE pc'[s] = "check_grant" /\ mem'[s] = [mem[s] EXCEPT !.gate = clock]
    <3>1. mem'[s].gate = clock
      BY <2>1, <2>3 DEF CreateLocals
    <3>2. \A e \in ledger :
            /\ e.row.user = req[s].user /\ e.row.source = req[s].source
            /\ e.row.fingerprint = req[s].fingerprint
            => clock >= e.row.completed + MinGap
      BY <1>6, <2>3, GateHolds
    <3>3. QED BY <2>2, <2>3, <3>1, <3>2 DEF ReadOK
  <2>4. QED BY <1>2, <2>2, <2>3
<1>7. ASSUME CheckGrant(s)
      PROVE  Safe
  <2>1. /\ Still(s) /\ req'[s] = req[s] /\ ReadOnly /\ pc[s] = "check_grant"
        /\ clock' = clock /\ ledger' = ledger
        /\ \/ pc'[s] = "answered" /\ mem'[s].rows = {}
           \/ pc'[s] = "consume" /\ mem'[s] = mem[s]
    BY <1>0, <1>7, GotoEffect DEF CheckGrant, History, Denied
  <2>2. CASE pc'[s] = "consume" /\ mem'[s] = mem[s]
    BY <2>1, <2>2 DEF RowInv, ReadOK, WritingAt
  <2>3. QED BY <1>2, <2>1, <2>2
<1>8. ASSUME NEW r \in GetRequest, GetStart(s, r)
      PROVE  Safe
  <2> DEFINE rows == {o \in View(s).observations :
                        o.user = r.user /\ o.id = r.observation}
  <2>1. /\ Still(s) /\ ReadOnly /\ pc[s] = "idle"
        /\ clock' = clock /\ ledger' = ledger
        /\ \/ pc'[s] = "answered" /\ mem'[s].rows = {}
           \/ pc'[s] = "select_offers" /\ mem'[s].rows = rows
    BY <1>0, <1>8, GotoEffect DEF GetStart, History, Denied
  <2>2. CASE pc'[s] = "select_offers" /\ mem'[s].rows = rows
    <3>1. View(s) = db
      BY <2>1 DEF TableInv, LockOK, View, HandlerLocks
    <3>2. \A o \in rows : Committed(o)
      BY <3>1 DEF TableInv, OriginOK
    <3>3. QED BY <2>1, <2>2, <3>2 DEF ReadOK, Committed, WritingAt
  <2>3. QED BY <1>2, <2>1, <2>2
<1>9. ASSUME GetOffers(s)
      PROVE  Safe
  <2>1. /\ pc[s] = "select_offers" /\ mem[s] \in GetLocals
        /\ View(s) = db
    BY <1>0, <1>9
    DEF GetOffers, SessionOK, GetAt, TableInv, LockOK, View, HandlerLocks
  <2>2. /\ Still(s) /\ ReadOnly /\ clock' = clock /\ ledger' = ledger
        /\ pc'[s] = "answered" /\ mem'[s].rows = mem[s].rows
        /\ mem'[s].offers = db.offers \cap Ids(mem[s].rows)
    BY <1>0, <1>9, <2>1, GotoEffect DEF GetOffers, History
  <2>3. ASSUME NEW o \in mem[s].rows, o.id \notin mem'[s].offers
        PROVE  o.expires <= clock
    <3>1. o.id \notin db.offers
      BY <2>2, <2>3 DEF Ids
    <3>2. PICK e \in ledger : e.row = o
      BY <2>1 DEF RowInv, ReadOK, Committed
    <3>3. ~(o.expires > clock)
      BY <3>1, <3>2 DEF RowInv, ActiveIn
    <3>4. o.expires \in Nat
      BY <2>1 DEF GetLocals, Observation
    <3>5. QED BY <1>0, <3>3, <3>4
  <2>4. QED BY <2>2, <2>3 DEF ReadOK, WritingAt
<1>10. Safe
  BY <1>3, <1>4, <1>5, <1>6, <1>7, <1>8, <1>9 DEF Arrival
<1>11. QED BY <1>0, <1>10, RowQuiet DEF ReadOnly

\* A clean-up chooses what has expired.
LEMMA CleanerReadsRows ==
  ASSUME TypeOK, TypeOK', TableInv, GrantInv, RowInv, NEW c \in Cleaners,
         \/ \E r \in CleanCommand : CleanStart(c, r)
         \/ ScanOffers(c) \/ ScanReplays(c) \/ ScanGrants(c)
  PROVE  RowInv'
<1>0. /\ c \in Sessions /\ c \notin Handlers /\ SessionOK(c, pc[c], req[c], mem[c])
  BY SessionAssumption DEF Sessions, TypeOK
<1> DEFINE Safe == /\ Still(c) /\ ReadOnly /\ clock' = clock /\ ledger' = ledger
                   /\ ExpiredOK(c)'
<1>1. ASSUME NEW r \in CleanCommand, CleanStart(c, r)
      PROVE  Safe
  <2>1. View(c) = db
    BY <1>0, <1>1 DEF CleanStart, Start, TableInv, LockOK, View, CleanerLocks
  <2> DEFINE expired == Ids({o \in View(c).observations : o.expires <= clock})
  <2>2. /\ Still(c) /\ ReadOnly /\ clock' = clock /\ ledger' = ledger
        /\ mem'[c].expired = expired
    <3> DEFINE m == [now |-> clock, expired |-> expired, offers |-> {},
                     keys |-> {}, grants |-> {}]
    <3>1. PICK place : Start(c, r) /\ Goto(c, place, m)
      BY <1>1 DEF CleanStart
    <3>2. Still(c) /\ mem'[c] = m
      BY <1>0, <3>1, GotoEffect
    <3>3. QED BY <1>1, <3>2 DEF CleanStart, History
  <2>3. \A o \in db.observations : Committed(o)
    BY DEF TableInv, OriginOK
  <2>4. \A e, f \in ledger : e.row.id = f.row.id => e = f
    BY DEF TableInv, UniqueIds
  <2>5. \A e \in ledger : e.row.id \in mem'[c].expired => e.row.expires <= clock
    BY <2>1, <2>2, <2>3, <2>4 DEF Ids, Committed
  <2>6. QED BY <2>2, <2>5 DEF ExpiredOK
<1>2. ASSUME ScanOffers(c)
      PROVE  Safe
  <2>1. pc[c] = "scan_offers" /\ mem[c] \in CleanLocals
    BY <1>0, <1>2 DEF ScanOffers, SessionOK, CleanAt
  <2>2. /\ Still(c) /\ ReadOnly /\ clock' = clock /\ ledger' = ledger
        /\ mem'[c].expired = mem[c].expired
    BY <1>0, <1>2, <2>1, GotoEffect DEF ScanOffers, History, CleanLocals
  <2>3. QED BY <2>1, <2>2 DEF RowInv, ExpiredOK
<1>3. ASSUME ScanReplays(c)
      PROVE  Safe
  <2>1. pc[c] = "scan_replays" /\ mem[c] \in CleanLocals
    BY <1>0, <1>3 DEF ScanReplays, SessionOK, CleanAt
  <2>2. /\ Still(c) /\ ReadOnly /\ clock' = clock /\ ledger' = ledger
        /\ mem'[c].expired = mem[c].expired
    BY <1>0, <1>3, <2>1, GotoEffect DEF ScanReplays, History, CleanLocals
  <2>3. QED BY <2>1, <2>2 DEF RowInv, ExpiredOK
<1>4. ASSUME ScanGrants(c)
      PROVE  Safe
  <2>1. /\ Still(c) /\ ReadOnly /\ clock' = clock /\ ledger' = ledger
        /\ pc'[c] \in {"finish", "purge_grants"}
    BY <1>0, <1>4, GotoEffect DEF ScanGrants, History
  <2>2. QED BY <2>1 DEF ExpiredOK
<1>5. Safe
  BY <1>1, <1>2, <1>3, <1>4
<1>6. QED BY <1>0, <1>5, RowQuiet DEF ReadOnly

-----------------------------------------------------------------------------
(* The steps that write.                                                    *)

\* A session that writes sees the uncommitted tables.
LEMMA WritersView ==
  ASSUME TypeOK, TableInv, NEW s \in Sessions, writer \in {NULL, s}
  PROVE  View(s) = work /\ work \in Tables
BY DEF TypeOK, TableInv, LockOK, View

\* The writes of a handler add rows, and it relies on the same reads.
LEMMA HandlerWritesRows ==
  ASSUME TypeOK, TypeOK', TableInv, GrantInv, RowInv, NEW s \in Handlers,
         IssueInsert(s) \/ Consume(s) \/ Observe(s) \/ RecordIdempotency(s)
  PROVE  RowInv'
<1>0. /\ s \in Sessions /\ s \notin Cleaners /\ SessionOK(s, pc[s], req[s], mem[s])
  BY SessionAssumption DEF Sessions, TypeOK
<1> DEFINE Safe == /\ Still(s) /\ UNCHANGED <<db, clock, ledger>>
                   /\ work.observations \subseteq work'.observations
                   /\ work.offers \subseteq work'.offers
                   /\ ReadOK(s)'
<1>1. writer \in {NULL, s} => View(s) = work /\ work \in Tables
  BY <1>0, WritersView
<1>2. ASSUME IssueInsert(s)
      PROVE  Safe
  <2>1. Still(s) /\ UNCHANGED <<db, clock, ledger>> /\ pc'[s] = "commit_grant"
    BY <1>0, <1>2, GotoEffect DEF IssueInsert, Write, History
  <2>2. work'.observations = work.observations /\ work'.offers = work.offers
    BY <1>1, <1>2 DEF IssueInsert, Write, Tables
  <2>3. QED BY <2>1, <2>2 DEF ReadOK, WritingAt
<1>3. ASSUME Consume(s)
      PROVE  Safe
  <2>1. /\ Still(s) /\ UNCHANGED <<db, clock, ledger>>
        /\ pc[s] = "consume" /\ pc'[s] = "observe"
        /\ req'[s] = req[s] /\ mem'[s] = mem[s]
    BY <1>0, <1>3, GotoEffect DEF Consume, Write, History
  <2>2. work'.observations = work.observations /\ work'.offers = work.offers
    BY <1>1, <1>3 DEF Consume, Write, Tables
  <2>3. QED BY <2>1, <2>2 DEF RowInv, ReadOK, WritingAt
<1>4. ASSUME Observe(s)
      PROVE  Safe
  <2>1. pc[s] = "observe" /\ mem[s] \in CreateLocals
    BY <1>0, <1>4 DEF Observe, SessionOK, CreateAt, WritingAt
  <2>2. PICK o, id :
          /\ Write(s, [View(s) EXCEPT !.observations = @ \cup {o},
                                      !.offers = @ \cup {id}])
          /\ Goto(s, "record", [mem[s] EXCEPT !.made = {o}])
          /\ UNCHANGED <<clock, req, History>>
    BY <1>4 DEF Observe
  <2>3. /\ Still(s) /\ UNCHANGED <<db, clock, ledger>> /\ pc'[s] = "record"
        /\ req'[s] = req[s] /\ mem'[s].gate = mem[s].gate
        /\ mem'[s].before = mem[s].before
    BY <1>0, <2>1, <2>2, GotoEffect DEF CreateLocals, Write, History
  <2>4. /\ work.observations \subseteq work'.observations
        /\ work.offers \subseteq work'.offers
    BY <1>1, <2>2 DEF Write, Tables
  <2>5. QED BY <2>1, <2>3, <2>4 DEF RowInv, ReadOK, WritingAt
<1>5. ASSUME RecordIdempotency(s)
      PROVE  Safe
  <2>1. /\ Still(s) /\ UNCHANGED <<db, clock, ledger>>
        /\ pc[s] = "record" /\ pc'[s] = "commit_observation"
        /\ req'[s] = req[s] /\ mem'[s] = mem[s]
    BY <1>0, <1>5, GotoEffect DEF RecordIdempotency, Write, History
  <2>2. work'.observations = work.observations /\ work'.offers = work.offers
    BY <1>1, <1>5 DEF RecordIdempotency, Write, Tables
  <2>3. QED BY <2>1, <2>2 DEF RowInv, ReadOK, WritingAt
<1>6. Safe
  BY <1>2, <1>3, <1>4, <1>5
<1>7. ActiveIn(db)' /\ ActiveIn(work)'
  BY <1>6 DEF RowInv, ActiveIn
<1>8. QED BY <1>0, <1>6, <1>7, RowFrame

\* A clean-up deletes the rows it chose, and these have expired.
LEMMA CleanerWritesRows ==
  ASSUME TypeOK, TypeOK', TableInv, GrantInv, RowInv, NEW c \in Cleaners,
         Purge(c) \/ PurgeGrants(c)
  PROVE  RowInv'
<1>0. /\ c \in Sessions /\ c \notin Handlers /\ SessionOK(c, pc[c], req[c], mem[c])
      /\ clock \in Nat /\ \A e \in ledger : e.row.expires \in Nat
  BY SessionAssumption DEF Sessions, TypeOK, Entry, Observation
<1>1. View(c) = work /\ work \in Tables
  BY <1>0, WritersView DEF Purge, PurgeGrants, Write
<1>2. Still(c) /\ UNCHANGED <<db, clock, ledger>> /\ ExpiredOK(c)'
  BY <1>0, GotoEffect DEF Purge, PurgeGrants, Write, History, ExpiredOK
<1>3. CASE Purge(c)
  <2>1. pc[c] = "purge" /\ mem[c] \in CleanLocals
    BY <1>0, <1>3 DEF Purge, SessionOK, CleanAt
  <2>2. /\ work'.observations = {o \in work.observations : o.id \notin mem[c].expired}
        /\ work'.offers = work.offers \ mem[c].offers
    BY <1>1, <1>3 DEF Purge, Write, Tables
  <2>3. \A e \in ledger : e.row.id \in mem[c].expired => ~(e.row.expires > clock)
    BY <1>0, <2>1 DEF RowInv, ExpiredOK
  <2>4. mem[c].offers \subseteq mem[c].expired
    BY <2>1 DEF TableInv, CleanOK
  <2>5. ActiveIn(db)' /\ ActiveIn(work)'
    BY <1>2, <2>2, <2>3, <2>4 DEF RowInv, ActiveIn
  <2>6. QED BY <1>0, <1>2, <2>5, RowFrame
<1>4. CASE PurgeGrants(c)
  <2>1. work'.observations = work.observations /\ work'.offers = work.offers
    BY <1>1, <1>4 DEF PurgeGrants, Write, Tables
  <2>2. ActiveIn(db)' /\ ActiveIn(work)'
    BY <1>2, <2>1 DEF RowInv, ActiveIn
  <2>3. QED BY <1>0, <1>2, <2>2, RowFrame
<1>5. QED BY <1>3, <1>4

-----------------------------------------------------------------------------
(* The steps that commit.                                                   *)

\* IssueCommit publishes no observation.
LEMMA IssueCommitRows ==
  ASSUME TypeOK, TypeOK', TableInv, GrantInv, RowInv, NEW s \in Handlers,
         IssueCommit(s)
  PROVE  RowInv'
<1>1. s \in Sessions /\ s \notin Cleaners
  BY SessionAssumption DEF Sessions
<1>2. /\ Still(s) /\ db' = work /\ work' = work /\ clock' = clock /\ ledger' = ledger
      /\ pc'[s] = "answered" /\ mem'[s].rows = {}
  BY <1>1, GotoEffect DEF IssueCommit, Publish, Denied
<1>3. ReadOK(s)'
  BY <1>2 DEF ReadOK, WritingAt
<1>4. QED BY <1>1, <1>2, <1>3, RowQuiet

\* Finish publishes deletions of rows that had expired, or nothing.
LEMMA FinishRows ==
  ASSUME TypeOK, TypeOK', TableInv, GrantInv, RowInv, NEW c \in Cleaners, Finish(c)
  PROVE  RowInv'
<1>1. c \in Sessions /\ c \notin Handlers
  BY SessionAssumption DEF Sessions
<1>2. /\ Still(c) /\ pc'[c] = "idle" /\ clock' = clock /\ ledger' = ledger
      /\ db' \in {db, work} /\ work' \in {db, work}
  BY <1>1 DEF Finish, TypeOK, Still, Publish, Discard, History
<1>3. ExpiredOK(c)'
  BY <1>2 DEF ExpiredOK
<1>4. QED BY <1>1, <1>2, <1>3, RowQuiet

\* CreateCommit publishes the observation with its offer.
LEMMA CreateCommitRows ==
  ASSUME TypeOK, TypeOK', TableInv, GrantInv, RowInv, NEW s \in Handlers,
         CreateCommit(s)
  PROVE  RowInv'
<1>1. s \in Sessions /\ s \notin Cleaners
  BY SessionAssumption DEF Sessions
<1>2. pc[s] = "commit_observation"
  BY DEF CreateCommit
<1>3. PICK id \in ObservationIds \ LedgerIds :
        mem[s].made = {NewObservation(id, req[s].grant, req[s].user, req[s].source,
                         req[s].fingerprint, mem[s].at, mem[s].at)}
  BY <1>2 DEF TableInv, MadeOK
<1> DEFINE o == NewObservation(id, req[s].grant, req[s].user, req[s].source,
                               req[s].fingerprint, mem[s].at, mem[s].at)
           entry == [row |-> o, key |-> req[s].key]
<1>4. /\ entry.row = o /\ o.id = id /\ o.completed = o.created
      /\ o.expires = o.created + ResultTTL
  BY DEF NewObservation
<1>5. /\ Still(s) /\ pc'[s] = "answered" /\ mem'[s].rows = {}
      /\ clock' = clock /\ ledger' = ledger \cup {entry}
      /\ db' = work /\ work' = work
  BY <1>1, <1>3, GotoEffect DEF CreateCommit, Publish, Queued
<1>6. o \in work.observations /\ id \in work.offers
  <2>1. o \in work.observations
    BY <1>2, <1>3 DEF TableInv, MadeOK, MadeBy
  <2>2. work.offers = Ids(work.observations)
    BY DEF TableInv, Consistent
  <2>3. QED BY <1>4, <2>1, <2>2 DEF Ids
<1> HIDE DEF o, entry
<1>7. LifetimesOK'
  BY <1>4, <1>5 DEF RowInv, LifetimesOK
<1>8. ActiveIn(db)' /\ ActiveIn(work)'
  BY <1>4, <1>5, <1>6 DEF RowInv, ActiveIn
<1>9. ReadOK(s)'
  BY <1>5 DEF ReadOK, WritingAt
<1>10. /\ clock <= clock' /\ ledger \subseteq ledger'
       /\ \A e \in ledger' : e \in ledger \/ e.row.id \notin LedgerIds
  BY <1>3, <1>4, <1>5 DEF TypeOK
<1>11. \A t \in Sessions \ {s} :
         /\ t \in Cleaners => ExpiredOK(t)'
         /\ t \in Handlers => ReadOK(t)'
  BY <1>5, <1>10, OthersKeep DEF Still, RowInv
<1>12. QED BY <1>1, <1>7, <1>8, <1>9, <1>11 DEF RowInv, Sessions

-----------------------------------------------------------------------------
\* Every step keeps the invariant.
LEMMA RowStep ==
  TypeOK /\ TypeOK' /\ TableInv /\ GrantInv /\ RowInv /\ [Next]_vars => RowInv'
<1> SUFFICES ASSUME TypeOK, TypeOK', TableInv, GrantInv, RowInv, [Next]_vars
             PROVE  RowInv'
  OBVIOUS
<1>1. ASSUME NEW s \in Handlers, Arrival(s) \/ HandlerStep(s)
      PROVE  RowInv'
  <2>1. s \in Sessions
    BY DEF Sessions
  <2>2. CASE Respond(s) \/ BusyTimeout(s) \/ RecordConflict(s)
    BY <2>1, <2>2, CloseRows DEF Respond, BusyTimeout, RecordConflict
  <2>3. QED
    BY <1>1, <2>2, HandlerReadsRows, HandlerWritesRows, IssueCommitRows,
       CreateCommitRows
    DEF HandlerStep
<1>2. ASSUME NEW c \in Cleaners,
             (\E r \in CleanCommand : CleanStart(c, r)) \/ CleanerStep(c)
      PROVE  RowInv'
  <2>1. c \in Sessions
    BY DEF Sessions
  <2>2. CASE BusyTimeout(c)
    BY <2>1, <2>2, CloseRows DEF BusyTimeout
  <2>3. QED
    BY <1>2, <2>2, CleanerReadsRows, CleanerWritesRows, FinishRows
    DEF CleanerStep
<1>3. ASSUME NEW s \in Sessions, Crash(s)
      PROVE  RowInv'
  BY <1>3, CloseRows DEF Crash
<1>4. CASE Tick \/ UNCHANGED vars
  <2>1. UNCHANGED <<db, work, writer, pc, req, mem, tokens, ledger>>
    BY <1>4 DEF Tick, vars
  <2>2. clock <= clock'
    BY <1>4 DEF TypeOK, Tick, vars
  <2>3. ActiveIn(db)' /\ ActiveIn(work)'
    BY <2>1, <2>2, ActiveFrame DEF RowInv, ActiveIn
  <2>4. LifetimesOK'
    BY <2>1 DEF RowInv, LifetimesOK
  <2>5. \A t \in Sessions :
          /\ t \in Cleaners => ExpiredOK(t)'
          /\ t \in Handlers => ReadOK(t)'
    BY <2>1, <2>2, OthersKeep DEF RowInv
  <2>6. QED BY <2>3, <2>4, <2>5 DEF RowInv, Sessions
<1>5. QED BY <1>1, <1>2, <1>3, <1>4 DEF Next

\* Nothing is stored, chosen or read at the start.
LEMMA RowInit == Init => RowInv
BY DEF Init, NoRows, Sessions, RowInv, LifetimesOK, ActiveIn, ExpiredOK, ReadOK,
       WritingAt

\* The invariant of the observation rows holds in every state, with any number
\* of overlapping clean-ups.
THEOREM RowInvariant == Spec => []RowInv
<1>1. QED
  BY TypeCorrect, TableInvariant, GrantInvariant, RowInit, RowStep, PTL DEF Spec

\* A read that finds an observation without its offer, because a clean-up
\* committed between its two SELECTs, finds one that has expired.
THEOREM TornReadsHaveExpired == Spec => []TornReadOnlyAfterExpiry
<1>1. RowInv => TornReadOnlyAfterExpiry
  BY DEF RowInv, ReadOK, TornReadOnlyAfterExpiry
<1>2. QED BY <1>1, RowInvariant, PTL

\* The minimum gap holds between any observation and a request that started
\* after it was committed, although the clean-up deletes the rows from which
\* the gap is computed.
THEOREM GapHoldsSinceStart == Spec => []GapSinceStart
<1>1. RowInv => GapSinceStart
  BY DEF RowInv, ReadOK, GapSinceStart
<1>2. QED BY <1>1, RowInvariant, PTL

-----------------------------------------------------------------------------
(* Replay rows.  Their keys are used again, so what a clean-up read of them  *)
(* holds only while no other clean-up can delete them and let a request     *)
(* record the key anew.                                                     *)

\* At most one clean-up runs at a time.
NoOverlap == \A c, d \in Cleaners : c = d

ReplayOf(e) == [user |-> e.row.user, key |-> e.key, observation |-> e.row.id]

\* The replay rows hold every active observation's.
ReplaysIn(t) == \A e \in ledger : e.row.expires > clock => ReplayOf(e) \in t.replays

\* Only a clean-up takes replay rows away.
ReplaysKept == writer \notin Cleaners => db.replays \subseteq work.replays

\* A key a clean-up is about to delete is still that of an expired observation.
KeysOK(c) ==
  pc[c] = "purge" =>
    \A k \in mem[c].keys :
      \E p \in db.replays \cap work.replays :
        k = <<p.user, p.key>> /\ p.observation \in mem[c].expired

ReplayInv ==
  /\ ReplaysIn(db) /\ ReplaysIn(work)
  /\ ReplaysKept
  /\ \A c \in Cleaners : KeysOK(c)

\* A step of one session that commits no observation.
LEMMA ReplayFrame ==
  ASSUME NoOverlap, ReplayInv, NEW s \in Sessions, Still(s),
         clock' = clock, ledger' = ledger,
         ReplaysIn(db)', ReplaysIn(work)', ReplaysKept',
         s \notin Cleaners =>
           db.replays \cap work.replays \subseteq db'.replays \cap work'.replays,
         s \in Cleaners => KeysOK(s)'
  PROVE  ReplayInv'
<1>1. ASSUME NEW c \in Cleaners
      PROVE  KeysOK(c)'
  <2>1. CASE s \in Cleaners
    BY <2>1 DEF NoOverlap
  <2>2. CASE s \notin Cleaners
    <3>1. pc'[c] = pc[c] /\ mem'[c] = mem[c]
      BY <2>2 DEF Still, Sessions
    <3>2. QED BY <2>2, <3>1 DEF ReplayInv, KeysOK
  <2>3. QED BY <2>1, <2>2
<1>2. QED BY <1>1 DEF ReplayInv

\* The same for a step that leaves the tables as they are, or makes both the
\* committed or both the uncommitted ones.
LEMMA ReplayQuiet ==
  ASSUME NoOverlap, ReplayInv, NEW s \in Sessions, Still(s),
         clock' = clock, ledger' = ledger,
         \/ ReadOnly
         \/ db' = work' /\ work' \in {db, work},
         s \in Cleaners => KeysOK(s)'
  PROVE  ReplayInv'
<1>1. ReplaysIn(db)' /\ ReplaysIn(work)'
  BY DEF ReplayInv, ReplaysIn, ReadOnly, ReplayOf
<1>2. ReplaysKept'
  BY DEF ReplayInv, ReplaysKept, ReadOnly
<1>3. db.replays \cap work.replays \subseteq db'.replays \cap work'.replays
  BY DEF ReadOnly
<1>4. QED BY <1>1, <1>2, <1>3, ReplayFrame

\* A session that closes deletes nothing any more.
LEMMA CloseReplays ==
  ASSUME NoOverlap, TypeOK, ReplayInv, NEW s \in Sessions, Close(s)
  PROVE  ReplayInv'
<1>1. pc'[s] = "idle" /\ Still(s)
  BY CloseEffect
<1>2. /\ clock' = clock /\ ledger' = ledger
      /\ ReadOnly \/ (db' = work' /\ work' \in {db, work})
  BY DEF Close, Discard, History, ReadOnly
<1>3. KeysOK(s)'
  BY <1>1 DEF KeysOK
<1>4. QED BY <1>1, <1>2, <1>3, ReplayQuiet

\* The reading steps of a handler.
LEMMA HandlerReadsReplays ==
  ASSUME NoOverlap, TypeOK, ReplayInv, NEW s \in Handlers,
         \/ Arrival(s) \/ SelectGrant(s) \/ Authorize(s) \/ CheckGrant(s)
         \/ GetOffers(s)
  PROVE  ReplayInv'
<1>1. s \in Sessions /\ s \notin Cleaners
  BY SessionAssumption DEF Sessions
<1>2. Still(s)
  BY <1>1, GotoEffect
  DEF Arrival, IssueStart, CreateStart, GetStart, SelectGrant, Authorize,
      CheckGrant, GetOffers
<1>3. ReadOnly /\ clock' = clock /\ ledger' = ledger
  BY DEF Arrival, IssueStart, CreateStart, GetStart, SelectGrant, Authorize,
         CheckGrant, GetOffers, History
<1>4. QED BY <1>1, <1>2, <1>3, ReplayQuiet

\* A clean-up chooses the keys of the rows it finds; no other clean-up can
\* have deleted one of them, so they are in the uncommitted tables as well.
LEMMA CleanerReadsReplays ==
  ASSUME NoOverlap, TypeOK, TableInv, ReplayInv, NEW c \in Cleaners,
         \/ \E r \in CleanCommand : CleanStart(c, r)
         \/ ScanOffers(c) \/ ScanReplays(c) \/ ScanGrants(c)
  PROVE  ReplayInv'
<1>0. /\ c \in Sessions /\ c \notin Handlers /\ SessionOK(c, pc[c], req[c], mem[c])
  BY SessionAssumption DEF Sessions, TypeOK
<1>1. Still(c)
  BY <1>0, GotoEffect DEF CleanStart, ScanOffers, ScanReplays, ScanGrants
<1>2. ReadOnly /\ clock' = clock /\ ledger' = ledger
  BY DEF CleanStart, ScanOffers, ScanReplays, ScanGrants, History
<1>3. CASE ScanReplays(c)
  <2> DEFINE keys == {<<p.user, p.key>> :
                        p \in {p \in View(c).replays : p.observation \in mem[c].expired}}
  <2>1. pc[c] = "scan_replays" /\ mem[c] \in CleanLocals
    BY <1>0, <1>3 DEF ScanReplays, SessionOK, CleanAt
  <2>2. writer \notin Cleaners /\ View(c) = db
    BY <2>1 DEF NoOverlap, TableInv, LockOK, CleanerLocks, View
  <2>3. mem'[c] = [mem[c] EXCEPT !.keys = keys]
    BY <1>0, <1>3, GotoEffect DEF ScanReplays
  <2>4. mem'[c].keys = keys /\ mem'[c].expired = mem[c].expired
    BY <2>1, <2>3 DEF CleanLocals
  <2>5. db'.replays = db.replays /\ work'.replays = work.replays
    BY <1>2 DEF ReadOnly
  <2>6. db.replays \subseteq work.replays
    BY <2>2 DEF ReplayInv, ReplaysKept
  <2>7. KeysOK(c)'
    BY <2>2, <2>4, <2>5, <2>6 DEF KeysOK
  <2>8. QED BY <1>0, <1>1, <1>2, <2>7, ReplayQuiet
<1>4. CASE ~ScanReplays(c)
  <2>1. pc'[c] \in {"scan_grants", "scan_offers", "scan_replays", "purge_grants",
                    "finish"}
    BY <1>0, <1>4, GotoEffect DEF CleanStart, ScanOffers, ScanGrants
  <2>2. KeysOK(c)'
    BY <2>1 DEF KeysOK
  <2>3. QED BY <1>0, <1>1, <1>2, <2>2, ReplayQuiet
<1>5. QED BY <1>3, <1>4

\* The writes of a handler add replay rows.
LEMMA HandlerWritesReplays ==
  ASSUME NoOverlap, TypeOK, TableInv, ReplayInv, NEW s \in Handlers,
         IssueInsert(s) \/ Consume(s) \/ Observe(s) \/ RecordIdempotency(s)
  PROVE  ReplayInv'
<1>0. s \in Sessions /\ s \notin Cleaners
  BY SessionAssumption DEF Sessions
<1> DEFINE Safe == /\ Still(s) /\ UNCHANGED <<db, clock, ledger>>
                   /\ writer' = s /\ writer \in {NULL, s}
                   /\ work.replays \subseteq work'.replays
<1>1. writer \in {NULL, s} => View(s) = work /\ work \in Tables
  BY <1>0, WritersView
<1>2. ASSUME IssueInsert(s)
      PROVE  Safe
  BY <1>0, <1>1, <1>2, GotoEffect DEF IssueInsert, Write, History, Tables
<1>3. ASSUME Consume(s)
      PROVE  Safe
  BY <1>0, <1>1, <1>3, GotoEffect DEF Consume, Write, History, Tables
<1>4. ASSUME Observe(s)
      PROVE  Safe
  <2>1. PICK o, id :
          /\ Write(s, [View(s) EXCEPT !.observations = @ \cup {o},
                                      !.offers = @ \cup {id}])
          /\ Goto(s, "record", [mem[s] EXCEPT !.made = {o}])
          /\ UNCHANGED <<clock, req, History>>
    BY <1>4 DEF Observe
  <2>2. Still(s)
    BY <1>0, <2>1, GotoEffect
  <2>3. QED BY <1>1, <2>1, <2>2 DEF Write, History, Tables
<1>5. ASSUME RecordIdempotency(s)
      PROVE  Safe
  BY <1>0, <1>1, <1>5, GotoEffect DEF RecordIdempotency, Write, History, Tables
<1>6. Safe
  BY <1>2, <1>3, <1>4, <1>5
<1>7. writer \notin Cleaners
  BY <1>0, <1>6, SessionAssumption
<1>8. ReplaysIn(db)' /\ ReplaysIn(work)' /\ ReplaysKept'
  BY <1>6, <1>7 DEF ReplayInv, ReplaysIn, ReplaysKept, ReplayOf
<1>9. QED BY <1>0, <1>6, <1>8, ReplayFrame

\* A clean-up deletes the replay rows of expired observations: a chosen key
\* still names such a row, and a key names one row only.
LEMMA CleanerWritesReplays ==
  ASSUME NoOverlap, TypeOK, TableInv, RowInv, ReplayInv, NEW c \in Cleaners,
         Purge(c) \/ PurgeGrants(c)
  PROVE  ReplayInv'
<1>0. /\ c \in Sessions /\ c \notin Handlers /\ SessionOK(c, pc[c], req[c], mem[c])
      /\ clock \in Nat /\ \A e \in ledger : e.row.expires \in Nat
  BY SessionAssumption DEF Sessions, TypeOK, Entry, Observation
<1>1. View(c) = work /\ work \in Tables
  BY <1>0, WritersView DEF Purge, PurgeGrants, Write
<1>2. /\ Still(c) /\ UNCHANGED <<db, clock, ledger>> /\ writer' = c /\ KeysOK(c)'
  BY <1>0, GotoEffect DEF Purge, PurgeGrants, Write, History, KeysOK
<1>3. ReplaysKept'
  BY <1>2 DEF ReplaysKept
<1>4. CASE Purge(c)
  <2>1. pc[c] = "purge"
    BY <1>4 DEF Purge
  <2>2. work'.replays = {p \in work.replays : <<p.user, p.key>> \notin mem[c].keys}
    BY <1>1, <1>4 DEF Purge, Write, Tables
  <2>3. ASSUME NEW e \in ledger, e.row.expires > clock
        PROVE  ReplayOf(e) \in work'.replays
    <3>1. ReplayOf(e) \in work.replays
      BY <2>3 DEF ReplayInv, ReplaysIn
    <3>2. e.row.id \notin mem[c].expired
      BY <1>0, <2>1, <2>3 DEF RowInv, ExpiredOK
    <3>3. ASSUME <<ReplayOf(e).user, ReplayOf(e).key>> \in mem[c].keys
          PROVE  FALSE
      <4>1. PICK p \in work.replays :
              /\ <<ReplayOf(e).user, ReplayOf(e).key>> = <<p.user, p.key>>
              /\ p.observation \in mem[c].expired
        BY <2>1, <3>3 DEF ReplayInv, KeysOK
      <4>2. p = ReplayOf(e)
        BY <3>1, <4>1 DEF TableInv, Consistent
      <4>3. QED BY <3>2, <4>1, <4>2 DEF ReplayOf
    <3>4. QED BY <2>2, <3>1, <3>3
  <2>4. ReplaysIn(db)' /\ ReplaysIn(work)'
    BY <1>2, <2>3 DEF ReplayInv, ReplaysIn, ReplayOf
  <2>5. QED BY <1>0, <1>2, <1>3, <2>4, ReplayFrame
<1>5. CASE PurgeGrants(c)
  <2>1. work'.replays = work.replays
    BY <1>1, <1>5 DEF PurgeGrants, Write, Tables
  <2>2. ReplaysIn(db)' /\ ReplaysIn(work)'
    BY <1>2, <2>1 DEF ReplayInv, ReplaysIn, ReplayOf
  <2>3. QED BY <1>0, <1>2, <1>3, <2>2, ReplayFrame
<1>6. QED BY <1>4, <1>5

\* IssueCommit and Finish commit no observation.
LEMMA CommitsReplays ==
  ASSUME NoOverlap, TypeOK, ReplayInv, NEW s \in Sessions,
         \/ s \in Handlers /\ IssueCommit(s)
         \/ s \in Cleaners /\ Finish(s)
  PROVE  ReplayInv'
<1>1. CASE s \in Handlers /\ IssueCommit(s)
  <2>1. /\ Still(s) /\ clock' = clock /\ ledger' = ledger
        /\ db' = work' /\ work' = work /\ s \notin Cleaners
    BY <1>1, GotoEffect, SessionAssumption DEF IssueCommit, Publish
  <2>2. QED BY <2>1, ReplayQuiet
<1>2. CASE s \in Cleaners /\ Finish(s)
  <2>1. /\ Still(s) /\ pc'[s] = "idle" /\ clock' = clock /\ ledger' = ledger
        /\ ReadOnly \/ (db' = work' /\ work' \in {db, work})
    BY <1>2 DEF Finish, TypeOK, Still, Publish, Discard, History, ReadOnly
  <2>2. KeysOK(s)'
    BY <2>1 DEF KeysOK
  <2>3. QED BY <2>1, <2>2, ReplayQuiet
<1>3. QED BY <1>1, <1>2

\* CreateCommit publishes the observation with its replay row.
LEMMA CreateCommitReplays ==
  ASSUME NoOverlap, TypeOK, TableInv, ReplayInv, NEW s \in Handlers, CreateCommit(s)
  PROVE  ReplayInv'
<1>1. s \in Sessions /\ s \notin Cleaners /\ pc[s] = "commit_observation"
  BY SessionAssumption DEF Sessions, CreateCommit
<1>2. PICK id \in ObservationIds \ LedgerIds :
        mem[s].made = {NewObservation(id, req[s].grant, req[s].user, req[s].source,
                         req[s].fingerprint, mem[s].at, mem[s].at)}
  BY <1>1 DEF TableInv, MadeOK
<1> DEFINE o == NewObservation(id, req[s].grant, req[s].user, req[s].source,
                               req[s].fingerprint, mem[s].at, mem[s].at)
           entry == [row |-> o, key |-> req[s].key]
<1>3. o.user = req[s].user
  BY DEF NewObservation
<1> HIDE DEF o
<1>4. ReplayOf(entry) \in work.replays
  <2>1. ReplayOf(entry) = [user |-> req[s].user, key |-> req[s].key, observation |-> o.id]
    BY <1>3 DEF ReplayOf
  <2>2. ReplayOf(entry) \in ReplaysBy(s)
    BY <1>1, <1>2, <2>1 DEF ReplaysBy, o
  <2>3. QED BY <2>2 DEF TableInv, MadeOK
<1> HIDE DEF entry
<1>5. /\ Still(s) /\ clock' = clock /\ db' = work /\ work' = work
      /\ ledger' = ledger \cup {entry}
  BY <1>1, <1>2, GotoEffect DEF CreateCommit, Publish, o, entry
<1>6. ReplaysIn(db)' /\ ReplaysIn(work)' /\ ReplaysKept'
  BY <1>4, <1>5 DEF ReplayInv, ReplaysIn, ReplaysKept, ReplayOf
<1>7. ASSUME NEW c \in Cleaners
      PROVE  KeysOK(c)'
  <2>1. pc'[c] = pc[c] /\ mem'[c] = mem[c]
    BY <1>1, <1>5 DEF Still, Sessions
  <2>2. QED BY <1>5, <2>1 DEF ReplayInv, KeysOK
<1>8. QED BY <1>6, <1>7 DEF ReplayInv

\* Every step keeps the invariant.
LEMMA ReplayStep ==
  ASSUME NoOverlap
  PROVE  /\ TypeOK /\ TypeOK' /\ TableInv /\ RowInv /\ ReplayInv /\ [Next]_vars
         => ReplayInv'
<1> SUFFICES ASSUME TypeOK, TypeOK', TableInv, RowInv, ReplayInv, [Next]_vars
             PROVE  ReplayInv'
  OBVIOUS
<1>1. ASSUME NEW s \in Handlers, Arrival(s) \/ HandlerStep(s)
      PROVE  ReplayInv'
  <2>1. s \in Sessions
    BY DEF Sessions
  <2>2. CASE Respond(s) \/ BusyTimeout(s) \/ RecordConflict(s)
    BY <2>1, <2>2, CloseReplays DEF Respond, BusyTimeout, RecordConflict
  <2>3. QED
    BY <1>1, <2>1, <2>2, HandlerReadsReplays, HandlerWritesReplays, CommitsReplays,
       CreateCommitReplays
    DEF HandlerStep
<1>2. ASSUME NEW c \in Cleaners,
             (\E r \in CleanCommand : CleanStart(c, r)) \/ CleanerStep(c)
      PROVE  ReplayInv'
  <2>1. c \in Sessions
    BY DEF Sessions
  <2>2. CASE BusyTimeout(c)
    BY <2>1, <2>2, CloseReplays DEF BusyTimeout
  <2>3. QED
    BY <1>2, <2>1, <2>2, CleanerReadsReplays, CleanerWritesReplays, CommitsReplays
    DEF CleanerStep
<1>3. ASSUME NEW s \in Sessions, Crash(s)
      PROVE  ReplayInv'
  BY <1>3, CloseReplays DEF Crash
<1>4. CASE Tick \/ UNCHANGED vars
  <2>1. UNCHANGED <<db, work, writer, pc, req, mem, tokens, ledger>>
    BY <1>4 DEF Tick, vars
  <2>2. clock <= clock' /\ clock \in Nat /\ clock' \in Nat
    BY <1>4 DEF TypeOK, Tick, vars
  <2>3. \A e \in ledger : e.row.expires \in Nat
    BY DEF TypeOK, Entry, Observation
  <2>4. ReplaysIn(db)' /\ ReplaysIn(work)'
    BY <2>1, <2>2, <2>3 DEF ReplayInv, ReplaysIn, ReplayOf
  <2>5. QED BY <2>1, <2>4 DEF ReplayInv, ReplaysKept, KeysOK
<1>5. QED BY <1>1, <1>2, <1>3, <1>4 DEF Next

\* No row and no observation exists at the start.
LEMMA ReplayInit == Init => ReplayInv
BY DEF Init, NoRows, Sessions, ReplayInv, ReplaysIn, ReplaysKept, KeysOK

\* The invariant of the replay rows holds in every state when clean-ups do not
\* overlap.
THEOREM ReplayInvariant ==
  ASSUME NoOverlap
  PROVE  Spec => []ReplayInv
<1>1. /\ TypeOK /\ TypeOK' /\ TableInv /\ RowInv /\ ReplayInv /\ [Next]_vars
      => ReplayInv'
  BY ReplayStep
<1>2. QED
  BY <1>1, TypeCorrect, TableInvariant, RowInvariant, ReplayInit, PTL DEF Spec

\* When clean-ups do not overlap, an active observation keeps its result, its
\* offer and its replay row (ADR 0018, decision 4).
THEOREM ActiveResultsStay ==
  ASSUME NoOverlap
  PROVE  Spec => []ActiveResultsPreserved
<1>1. RowInv /\ ReplayInv => ActiveResultsPreserved
  BY DEF RowInv, ActiveIn, ReplayInv, ReplaysIn, ReplayOf, ActiveResultsPreserved
<1>2. Spec => []ReplayInv
  BY ReplayInvariant
<1>3. QED BY <1>1, <1>2, RowInvariant, PTL

\* When clean-ups do not overlap, retries of a request never make a second
\* observation while the first one is active.
THEOREM RetriesMakeOne ==
  ASSUME NoOverlap
  PROVE  Spec => []RetriesAreIdempotent
<1>1. TableInv /\ ReplayInv => RetriesAreIdempotent
  <2> SUFFICES ASSUME TableInv, ReplayInv, NEW e \in ledger, NEW f \in ledger,
                      e.row.user = f.row.user, e.key = f.key,
                      e.row.expires > clock, f.row.expires > clock
               PROVE  e = f
    BY DEF RetriesAreIdempotent
  <2>1. ReplayOf(e) \in db.replays /\ ReplayOf(f) \in db.replays
    BY DEF ReplayInv, ReplaysIn
  <2>2. ReplayOf(e) = ReplayOf(f)
    BY <2>1 DEF TableInv, Consistent, ReplayOf
  <2>3. QED BY <2>2 DEF TableInv, UniqueIds, ReplayOf
<1>2. Spec => []ReplayInv
  BY ReplayInvariant
<1>3. QED BY <1>1, <1>2, TableInvariant, PTL

(***************************************************************************)
(* The promise.  The service lacks only one thing to keep the promise of     *)
(* ObservationLedger: that requests do not overlap.  Where there is one      *)
(* request at a time, what it read when it started is still all there is     *)
(* when it commits, whatever clean-up, lost lock or crash comes between.     *)
(* The grant, the key and the gap then follow from the invariants above.     *)
(***************************************************************************)
\* At most one request is in flight at a time.
Serialised == \A s, t \in Handlers : s = t

\* The request in flight knew every observation there is when it started, and
\* read its clocks in the past.
SnapshotOK(s) ==
  pc[s] \in CreateAt =>
    /\ LedgerIds \subseteq mem[s].before
    /\ mem[s].at <= clock /\ mem[s].gate <= clock

SerialInv == \A s \in Handlers : SnapshotOK(s)

\* A step of the request that commits no observation keeps what it knows.
LEMMA SerialHandlerStep ==
  ASSUME TypeOK, SerialInv, NEW s \in Handlers, Arrival(s) \/ HandlerStep(s),
         ~CreateCommit(s)
  PROVE  ledger' = ledger /\ clock' = clock /\ SnapshotOK(s)'
<1>0. /\ s \in Sessions /\ SessionOK(s, pc[s], req[s], mem[s]) /\ clock \in Nat
      /\ SnapshotOK(s)
  BY DEF Sessions, TypeOK, SerialInv
<1> DEFINE Keeps == ledger' = ledger /\ clock' = clock /\ SnapshotOK(s)'
<1>1. ASSUME ledger' = ledger, clock' = clock, pc'[s] \notin CreateAt
      PROVE  Keeps
  BY <1>1 DEF SnapshotOK
<1>2. ASSUME ledger' = ledger, clock' = clock, pc[s] \in CreateAt,
             mem'[s].before = mem[s].before, mem'[s].at = mem[s].at,
             mem'[s].gate \in {mem[s].gate, clock}
      PROVE  Keeps
  BY <1>0, <1>2 DEF SnapshotOK, LedgerIds
<1>3. pc[s] \in CreateAt => mem[s] \in CreateLocals
  BY <1>0 DEF SessionOK
<1>4. ASSUME NEW r \in IssueRequest, IssueStart(s, r)
      PROVE  Keeps
  <2>1. ledger' = ledger /\ clock' = clock /\ pc'[s] \in {"answered", "insert_grant"}
    BY <1>0, <1>4, GotoEffect DEF IssueStart, History
  <2>2. QED BY <1>1, <2>1 DEF CreateAt, WritingAt
<1>5. ASSUME NEW r \in CreateRequest, CreateStart(s, r)
      PROVE  Keeps
  <2>1. ledger' = ledger /\ clock' = clock
    BY <1>5 DEF CreateStart, History
  <2>2. CASE Goto(s, "select_grant",
                  [at |-> clock, before |-> {e.row.id : e \in ledger},
                   grants |-> {}, gate |-> clock, made |-> {}])
    <3>1. mem'[s].before = LedgerIds /\ mem'[s].at = clock /\ mem'[s].gate = clock
      BY <1>0, <2>2, GotoEffect DEF LedgerIds
    <3>2. QED BY <1>0, <2>1, <3>1 DEF SnapshotOK, LedgerIds
  <2>3. CASE pc'[s] = "answered"
    BY <1>1, <2>1, <2>3 DEF CreateAt, WritingAt
  <2>4. \/ \E m : Goto(s, "answered", m)
        \/ Goto(s, "select_grant",
                [at |-> clock, before |-> {e.row.id : e \in ledger},
                 grants |-> {}, gate |-> clock, made |-> {}])
    BY <1>5 DEF CreateStart
  <2>5. QED BY <1>0, <2>2, <2>3, <2>4, GotoEffect
<1>6. ASSUME NEW r \in GetRequest, GetStart(s, r)
      PROVE  Keeps
  <2>1. ledger' = ledger /\ clock' = clock /\ pc'[s] \in {"answered", "select_offers"}
    BY <1>0, <1>6, GotoEffect DEF GetStart, History
  <2>2. QED BY <1>1, <2>1 DEF CreateAt, WritingAt
<1>7. CASE IssueInsert(s) \/ IssueCommit(s) \/ GetOffers(s)
  <2>1. ledger' = ledger /\ clock' = clock /\ pc'[s] \in {"answered", "commit_grant"}
    BY <1>0, <1>7, GotoEffect DEF IssueInsert, IssueCommit, GetOffers, History
  <2>2. QED BY <1>1, <2>1 DEF CreateAt, WritingAt
<1>8. CASE SelectGrant(s) \/ Authorize(s) \/ CheckGrant(s)
  <2>1. ledger' = ledger /\ clock' = clock /\ pc[s] \in CreateAt
    BY <1>8 DEF SelectGrant, Authorize, CheckGrant, History, CreateAt, WritingAt
  <2>2. ASSUME NEW m, Goto(s, "check_grant", m) \/ Goto(s, "consume", m)
                     \/ Goto(s, "authorize", m),
               \/ \E g : m = [mem[s] EXCEPT !.grants = g]
               \/ m = [mem[s] EXCEPT !.gate = clock]
               \/ m = mem[s]
        PROVE  Keeps
    <3>1. /\ m.before = mem[s].before /\ m.at = mem[s].at
          /\ m.gate \in {mem[s].gate, clock}
      BY <1>3, <2>1, <2>2 DEF CreateLocals
    <3>2. mem'[s] = m
      BY <1>0, <2>2, GotoEffect
    <3>3. QED BY <1>2, <2>1, <3>1, <3>2
  <2>3. ASSUME NEW m, Goto(s, "answered", m)
        PROVE  Keeps
    <3>1. pc'[s] = "answered"
      BY <1>0, <2>3, GotoEffect
    <3>2. QED BY <1>1, <2>1, <3>1 DEF CreateAt, WritingAt
  <2>4. CASE SelectGrant(s)
    BY <2>2, <2>3, <2>4 DEF SelectGrant
  <2>5. CASE Authorize(s)
    BY <2>2, <2>3, <2>5 DEF Authorize
  <2>6. CASE CheckGrant(s)
    BY <2>2, <2>3, <2>6 DEF CheckGrant
  <2>7. QED BY <1>8, <2>4, <2>5, <2>6
<1>9. CASE Consume(s) \/ Observe(s) \/ RecordIdempotency(s)
  <2>1. ledger' = ledger /\ clock' = clock /\ pc[s] \in CreateAt
    BY <1>9 DEF Consume, Observe, RecordIdempotency, History, CreateAt, WritingAt
  <2>2. ASSUME NEW m, Goto(s, "observe", m) \/ Goto(s, "record", m)
                     \/ Goto(s, "commit_observation", m),
               m = mem[s] \/ \E o : m = [mem[s] EXCEPT !.made = o]
        PROVE  Keeps
    <3>1. m.before = mem[s].before /\ m.at = mem[s].at /\ m.gate = mem[s].gate
      BY <1>3, <2>1, <2>2 DEF CreateLocals
    <3>2. mem'[s] = m
      BY <1>0, <2>2, GotoEffect
    <3>3. QED BY <1>2, <2>1, <3>1, <3>2
  <2>3. CASE Consume(s)
    BY <2>2, <2>3 DEF Consume
  <2>4. CASE Observe(s)
    BY <2>2, <2>4 DEF Observe
  <2>5. CASE RecordIdempotency(s)
    BY <2>2, <2>5 DEF RecordIdempotency
  <2>6. QED BY <1>9, <2>3, <2>4, <2>5
<1>10. CASE RecordConflict(s) \/ Respond(s) \/ BusyTimeout(s)
  <2>1. Close(s)
    BY <1>10 DEF RecordConflict, Respond, BusyTimeout
  <2>2. ledger' = ledger /\ clock' = clock /\ pc'[s] = "idle"
    BY <1>0, <2>1, CloseEffect DEF Close, History
  <2>3. QED BY <1>1, <2>2 DEF CreateAt, WritingAt
<1>11. QED
  BY <1>4, <1>5, <1>6, <1>7, <1>8, <1>9, <1>10 DEF Arrival, HandlerStep

\* A clean-up commits no observation and leaves the request alone.
LEMMA SerialCleanerStep ==
  ASSUME TypeOK, NEW c \in Cleaners,
         (\E r \in CleanCommand : CleanStart(c, r)) \/ CleanerStep(c)
  PROVE  /\ ledger' = ledger /\ clock' = clock
         /\ \A s \in Handlers : pc'[s] = pc[s] /\ mem'[s] = mem[s]
<1>1. \A s \in Handlers : s \in Sessions \ {c}
  BY SessionAssumption DEF Sessions
<1>2. c \in Sessions
  BY DEF Sessions
<1>3. CASE BusyTimeout(c)
  <2>1. Close(c)
    BY <1>3 DEF BusyTimeout
  <2>2. QED BY <1>1, <1>2, <2>1, CloseEffect DEF Close, Still, History
<1>4. CASE Finish(c)
  BY <1>1, <1>4 DEF Finish, History, TypeOK
<1>5. ASSUME NEW r \in CleanCommand, CleanStart(c, r)
      PROVE  /\ ledger' = ledger /\ clock' = clock
             /\ \A s \in Handlers : pc'[s] = pc[s] /\ mem'[s] = mem[s]
  BY <1>1, <1>5 DEF CleanStart, Goto, History, TypeOK
<1>6. CASE ScanOffers(c) \/ ScanReplays(c) \/ Purge(c) \/ ScanGrants(c) \/ PurgeGrants(c)
  BY <1>1, <1>6
  DEF ScanOffers, ScanReplays, Purge, ScanGrants, PurgeGrants, Goto, History, TypeOK
<1>7. QED BY <1>2, <1>3, <1>4, <1>5, <1>6 DEF CleanerStep

\* Every step keeps the invariant: the step that commits an observation ends
\* the only request there is.
LEMMA SerialStep ==
  ASSUME Serialised
  PROVE  TypeOK /\ TypeOK' /\ SerialInv /\ [Next]_vars => SerialInv'
<1> SUFFICES ASSUME TypeOK, TypeOK', SerialInv, [Next]_vars
             PROVE  SerialInv'
  OBVIOUS
<1>1. ASSUME NEW s \in Handlers, Arrival(s) \/ HandlerStep(s)
      PROVE  SerialInv'
  <2>1. \A t \in Handlers : t = s
    BY DEF Serialised
  <2>2. CASE CreateCommit(s)
    <3>1. pc'[s] = "answered"
      BY <2>2, GotoEffect DEF CreateCommit, Sessions
    <3>2. QED BY <2>1, <3>1 DEF SerialInv, SnapshotOK, CreateAt, WritingAt
  <2>3. CASE ~CreateCommit(s)
    <3>1. SnapshotOK(s)'
      BY <1>1, <2>3, SerialHandlerStep
    <3>2. QED BY <2>1, <3>1 DEF SerialInv
  <2>4. QED BY <2>2, <2>3
<1>2. ASSUME NEW c \in Cleaners,
             (\E r \in CleanCommand : CleanStart(c, r)) \/ CleanerStep(c)
      PROVE  SerialInv'
  BY <1>2, SerialCleanerStep DEF SerialInv, SnapshotOK, LedgerIds
<1>3. ASSUME NEW s \in Sessions, Crash(s)
      PROVE  SerialInv'
  <2>1. ledger' = ledger /\ clock' = clock /\ pc'[s] = "idle" /\ Still(s)
    BY <1>3, CloseEffect DEF Crash, Close, History
  <2>2. QED
    BY <2>1 DEF SerialInv, SnapshotOK, LedgerIds, Still, Sessions, CreateAt, WritingAt
<1>4. CASE Tick \/ UNCHANGED vars
  <2>1. UNCHANGED <<pc, mem, ledger>> /\ clock <= clock' /\ clock \in Nat /\ clock' \in Nat
    BY <1>4 DEF Tick, vars, TypeOK
  <2>2. \A s \in Handlers : pc[s] \in CreateAt => mem[s].at \in Nat /\ mem[s].gate \in Nat
    BY DEF TypeOK, SessionOK, CreateLocals, Sessions
  <2>3. QED BY <2>1, <2>2 DEF SerialInv, SnapshotOK, LedgerIds
<1>5. QED BY <1>1, <1>2, <1>3, <1>4 DEF Next

\* No request is in flight at the start.
LEMMA SerialInit == Init => SerialInv
BY DEF Init, Sessions, SerialInv, SnapshotOK, CreateAt, WritingAt

\* The invariant of the request in flight holds in every state when requests
\* do not overlap.
THEOREM SerialInvariant ==
  ASSUME Serialised
  PROVE  Spec => []SerialInv
<1>1. TypeOK /\ TypeOK' /\ SerialInv /\ [Next]_vars => SerialInv'
  BY SerialStep
<1>2. QED BY <1>1, TypeCorrect, SerialInit, PTL DEF Spec

-----------------------------------------------------------------------------
\* What CreateCommit adds to the ledger, for any requests and clean-ups: one
\* entry, under a new id, whose replay row is the request's own.
LEMMA CommitAdds ==
  ASSUME TypeOK, TableInv, NEW s \in Handlers, CreateCommit(s)
  PROVE  \E id \in ObservationIds \ LedgerIds :
           LET o == NewObservation(id, req[s].grant, req[s].user, req[s].source,
                                   req[s].fingerprint, mem[s].at, mem[s].at)
           IN  /\ ledger' = ledger \cup {[row |-> o, key |-> req[s].key]}
               /\ [user |-> req[s].user, key |-> req[s].key, observation |-> id]
                    \in work.replays
<1>1. pc[s] = "commit_observation"
  BY DEF CreateCommit
<1>2. PICK id \in ObservationIds \ LedgerIds :
        mem[s].made = {NewObservation(id, req[s].grant, req[s].user, req[s].source,
                         req[s].fingerprint, mem[s].at, mem[s].at)}
  BY <1>1 DEF TableInv, MadeOK
<1> DEFINE o == NewObservation(id, req[s].grant, req[s].user, req[s].source,
                               req[s].fingerprint, mem[s].at, mem[s].at)
<1>3. o.id = id
  BY DEF NewObservation
<1>4. ledger' = ledger \cup {[row |-> o, key |-> req[s].key]}
  BY <1>2 DEF CreateCommit
<1> HIDE DEF o
<1>5. [user |-> req[s].user, key |-> req[s].key, observation |-> o.id] \in ReplaysBy(s)
  BY <1>1, <1>2 DEF ReplaysBy, o
<1>6. ReplaysBy(s) \subseteq work.replays
  BY DEF TableInv, MadeOK
<1>7. QED BY <1>2, <1>3, <1>4, <1>5, <1>6 DEF o

\* A request's own key is free of active observations when it commits: their
\* replay rows and its own would share it.
LEMMA KeyIsFree ==
  ASSUME TableInv, ReplayInv, NEW u, NEW k, NEW id, id \notin LedgerIds,
         [user |-> u, key |-> k, observation |-> id] \in work.replays,
         NEW e \in ledger, e.row.expires > clock
  PROVE  ~(e.row.user = u /\ e.key = k)
<1> SUFFICES ASSUME e.row.user = u, e.key = k
             PROVE  FALSE
  OBVIOUS
<1> DEFINE p == [user |-> u, key |-> k, observation |-> id]
<1>1. ReplayOf(e) \in work.replays
  BY DEF ReplayInv, ReplaysIn
<1>2. ReplayOf(e).user = p.user /\ ReplayOf(e).key = p.key
  BY DEF ReplayOf
<1>3. ReplayOf(e) = p
  BY <1>1, <1>2 DEF TableInv, Consistent
<1>4. e.row.id = id
  BY <1>3 DEF ReplayOf
<1>5. QED BY <1>4 DEF LedgerIds

\* The only request's commit is a step of the ledger.
LEMMA CommitIsAdmitted ==
  ASSUME Serialised, TypeOK, TableInv, GrantInv, RowInv, ReplayInv, SerialInv,
         NEW s \in Handlers, CreateCommit(s)
  PROVE  Ledger!AcceptSome
<1>1. pc[s] = "commit_observation" /\ s \in Sessions /\ clock' = clock
  BY DEF CreateCommit, Sessions
<1>2. req[s] \in CreateRequest /\ mem[s] \in CreateLocals
  BY <1>1 DEF TypeOK, SessionOK, CreateAt, WritingAt
<1> DEFINE r == req[s]
           at == mem[s].at
<1>3. PICK id \in ObservationIds \ LedgerIds :
        LET o == NewObservation(id, r.grant, r.user, r.source, r.fingerprint, at, at)
        IN  /\ ledger' = ledger \cup {[row |-> o, key |-> r.key]}
            /\ [user |-> r.user, key |-> r.key, observation |-> id] \in work.replays
  BY CommitAdds
<1> DEFINE new == NewObservation(id, r.grant, r.user, r.source, r.fingerprint, at, at)
<1>4. /\ new.id = id /\ new.grant = r.grant /\ new.user = r.user /\ new.created = at
      /\ new.source = r.source /\ new.fingerprint = r.fingerprint
  BY DEF NewObservation
<1>5. /\ ledger' = ledger \cup {[row |-> new, key |-> r.key]}
      /\ [user |-> r.user, key |-> r.key, observation |-> id] \in work.replays
  BY <1>3
<1>6. /\ LedgerIds \subseteq mem[s].before
      /\ at <= clock /\ mem[s].gate <= clock
      /\ at \in Nat /\ mem[s].gate \in Nat /\ clock \in Nat /\ clock <= MaxClock
  BY <1>1, <1>2 DEF SerialInv, SnapshotOK, CreateAt, WritingAt, CreateLocals, TypeOK
<1>7. at \in 0..MaxClock
  BY <1>6, TimeAssumption
<1>8. /\ r.grant \in GrantIds /\ r.user \in Users /\ r.source \in Sources
      /\ r.fingerprint \in Fingerprints /\ r.key \in Keys
  BY <1>2 DEF CreateRequest
<1> HIDE DEF new, r, at
<1>9. ASSUME NEW e \in ledger
      PROVE  /\ e.row.id # new.id
             /\ e.row.grant # new.grant
             /\ e.row.expires > clock => ~(e.row.user = new.user /\ e.key = r.key)
             /\ Ledger!SameSearch(e.row, new) => e.row.created + MinGap <= clock'
  <2>1. e.row.id \in LedgerIds /\ e.row.id \in mem[s].before
    BY <1>6 DEF LedgerIds
  <2>2. e.row.id # new.id
    BY <1>4, <2>1
  <2>3. e.row.grant # new.grant
    BY <1>1, <1>4, <2>1 DEF GrantInv, SpendOK, WritingAt, r
  <2>4. e.row.expires > clock => ~(e.row.user = new.user /\ e.key = r.key)
    BY <1>4, <1>5, KeyIsFree
  <2>5. ASSUME Ledger!SameSearch(e.row, new)
        PROVE  e.row.created + MinGap <= clock'
    <3>1. e.row.completed = e.row.created /\ e.row.created \in Nat
      BY DEF RowInv, LifetimesOK, TypeOK, Entry, Observation
    <3>2. mem[s].gate >= e.row.completed + MinGap
      BY <1>1, <1>4, <2>1, <2>5
      DEF RowInv, ReadOK, WritingAt, Ledger!SameSearch, r
    <3>3. QED BY <1>1, <1>6, <3>1, <3>2, TimeAssumption
  <2>6. QED BY <2>2, <2>3, <2>4, <2>5
<1>10. Ledger!Accept(new, r.key)
  <2>1. clock <= clock' /\ new.created <= clock'
    BY <1>1, <1>4, <1>6
  <2>2. Ledger!Admissible(new, r.key)
    BY <1>9 DEF Ledger!Admissible, Ledger!Active
  <2>3. QED BY <1>5, <2>1, <2>2 DEF Ledger!Accept
<1>11. ledger' # ledger
  <2>1. [row |-> new, key |-> r.key] \notin ledger
    BY <1>9
  <2>2. QED BY <1>5, <2>1
<1>12. new = Ledger!NewObservation(id, r.grant, r.user, r.source, r.fingerprint, at, at)
  BY DEF new, NewObservation, Ledger!NewObservation
<1>13. QED BY <1>7, <1>8, <1>10, <1>11, <1>12 DEF Ledger!AcceptSome

\* Every step of the service is a step of the ledger or none.
LEMMA DurableLedgerStep ==
  ASSUME Serialised
  PROVE  /\ TypeOK /\ TableInv /\ GrantInv /\ RowInv /\ ReplayInv /\ SerialInv
         /\ [Next]_vars
         => [Ledger!Step]_(Ledger!ledgerVars)
<1> SUFFICES ASSUME TypeOK, TableInv, GrantInv, RowInv, ReplayInv, SerialInv,
                    [Next]_vars
             PROVE  [Ledger!Step]_(Ledger!ledgerVars)
  OBVIOUS
<1>1. ASSUME NEW s \in Handlers, Arrival(s) \/ HandlerStep(s)
      PROVE  Ledger!AcceptSome \/ UNCHANGED Ledger!ledgerVars
  <2>1. CASE CreateCommit(s)
    BY <2>1, CommitIsAdmitted
  <2>2. CASE ~CreateCommit(s)
    BY <1>1, <2>2, SerialHandlerStep DEF Ledger!ledgerVars
  <2>3. QED BY <2>1, <2>2
<1>2. ASSUME NEW c \in Cleaners,
             (\E r \in CleanCommand : CleanStart(c, r)) \/ CleanerStep(c)
      PROVE  UNCHANGED Ledger!ledgerVars
  BY <1>2, SerialCleanerStep DEF Ledger!ledgerVars
<1>3. ASSUME NEW s \in Sessions, Crash(s)
      PROVE  UNCHANGED Ledger!ledgerVars
  BY <1>3 DEF Crash, Close, History, Ledger!ledgerVars
<1>4. CASE Tick
  <2>1. clock < clock' /\ ledger' = ledger
    BY <1>4 DEF Tick, TypeOK
  <2>2. QED BY <2>1 DEF Ledger!Step, Ledger!Pass
<1>5. CASE UNCHANGED vars
  BY <1>5 DEF vars, Ledger!ledgerVars
<1>6. QED BY <1>1, <1>2, <1>3, <1>4, <1>5 DEF Next, Ledger!Step

\* When neither requests nor clean-ups overlap, the durable service keeps the
\* promise of the ledger, crashes, lost locks and a clean-up beside the request
\* included.  The gap is the ledger's, from an observation's request to the
\* moment the next one is accepted.
THEOREM SerialisedImplementsLedger ==
  ASSUME Serialised, NoOverlap
  PROVE  Spec => ImplementsLedger
<1>1. Init => Ledger!LedgerInit
  BY DEF Init, Ledger!LedgerInit
<1>2. /\ TypeOK /\ TableInv /\ GrantInv /\ RowInv /\ ReplayInv /\ SerialInv
      /\ [Next]_vars
      => [Ledger!Step]_(Ledger!ledgerVars)
  BY DurableLedgerStep
<1>3. (Spec => []ReplayInv) /\ (Spec => []SerialInv)
  BY ReplayInvariant, SerialInvariant
<1>4. QED
  BY <1>1, <1>2, <1>3, TypeCorrect, TableInvariant, GrantInvariant, RowInvariant, PTL
  DEF Spec, ImplementsLedger, Ledger!LedgerSpec

\* When requests do not overlap, a grant pays for one observation (ADR 0016),
\* however many clean-ups run: the run grant_race needs a second request.
THEOREM SerialisedGrantsPayOnce ==
  ASSUME Serialised
  PROVE  Spec => []GrantUsedOnce
<1>1. Init => GrantUsedOnce
  BY DEF Init, GrantUsedOnce
<1>2. /\ TypeOK /\ TableInv /\ GrantInv /\ SerialInv /\ GrantUsedOnce /\ [Next]_vars
      => GrantUsedOnce'
  <2> SUFFICES ASSUME TypeOK, TableInv, GrantInv, SerialInv, GrantUsedOnce, [Next]_vars
               PROVE  GrantUsedOnce'
    OBVIOUS
  <2>1. ASSUME NEW s \in Handlers, CreateCommit(s)
        PROVE  GrantUsedOnce'
    <3>1. PICK id \in ObservationIds \ LedgerIds :
            ledger' = ledger \cup
              {[row |-> NewObservation(id, req[s].grant, req[s].user, req[s].source,
                                       req[s].fingerprint, mem[s].at, mem[s].at),
                key |-> req[s].key]}
      BY <2>1, CommitAdds
    <3>2. \A e \in ledger : e.row.grant # req[s].grant
      BY <2>1
      DEF SerialInv, SnapshotOK, LedgerIds, GrantInv, SpendOK, CreateCommit,
          CreateAt, WritingAt
    <3>3. QED BY <3>1, <3>2 DEF GrantUsedOnce, NewObservation
  <2>2. ASSUME NEW s \in Handlers, Arrival(s) \/ HandlerStep(s), ~CreateCommit(s)
        PROVE  ledger' = ledger
    BY <2>2, SerialHandlerStep
  <2>3. ASSUME NEW c \in Cleaners,
               (\E r \in CleanCommand : CleanStart(c, r)) \/ CleanerStep(c)
        PROVE  ledger' = ledger
    BY <2>3, SerialCleanerStep
  <2>4. ASSUME NEW s \in Sessions, Crash(s)
        PROVE  ledger' = ledger
    BY <2>4 DEF Crash, Close, History
  <2>5. CASE Tick \/ UNCHANGED vars
    BY <2>5 DEF Tick, vars, GrantUsedOnce
  <2>6. ledger' = ledger => GrantUsedOnce'
    BY DEF GrantUsedOnce
  <2>7. QED BY <2>1, <2>2, <2>3, <2>4, <2>5, <2>6 DEF Next
<1>3. Spec => []SerialInv
  BY SerialInvariant
<1>4. QED BY <1>1, <1>2, <1>3, TypeCorrect, TableInvariant, GrantInvariant, PTL DEF Spec
=============================================================================
