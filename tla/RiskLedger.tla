----------------------------- MODULE RiskLedger -----------------------------
(***************************************************************************)
(* The account-risk ledger of server/risk-ledger.js: one SQLite database,  *)
(* one account, four operations.  Every operation runs in one              *)
(* BEGIN IMMEDIATE transaction and either commits as a whole or changes    *)
(* nothing, so a rejected request, a duplicate answer, a rollback and a    *)
(* server restart (synchronous=FULL) are all stuttering steps here.        *)
(*                                                                         *)
(* What is not atomic is the clock: each operation reads it before         *)
(* BEGIN IMMEDIATE, which waits up to busy_timeout for another             *)
(* connection, so an operation runs with any time in Captured.             *)
(*                                                                         *)
(* Money is in cents.  A row of risk_reservations is named by its          *)
(* idempotency key, which the table holds UNIQUE for the account.          *)
(***************************************************************************)
EXTENDS Integers, Functions

CONSTANTS
    Instance,      \* terminal instances, the owners of reservations
    Key,           \* idempotency keys
    SnapshotId,    \* identifiers clients give their snapshots
    Equity,        \* equities a snapshot may report
    Exposure,      \* broker risks a snapshot may report
    RiskAmount,    \* risks a client may ask to reserve
    MaxAge,        \* maxSnapshotAgeMs
    TTL,           \* reservationTtlMs
    Skew,          \* the 5000 ms a snapshot may lie in the future
    BusyWait,      \* the 5000 ms of busy_timeout
    Horizon,       \* bound on the clock
    None           \* an absent row

Tolerance == 1     \* the 0.01 added to every comparison with the cap

Snapshot == [at : 1 .. Horizon + Skew, id : SnapshotId,
             equity : Equity, risk : Exposure]

Reservation == [owner : Instance, risk : RiskAmount,
                status : {"active", "released", "settled"},
                created : Nat, expires : Nat]

ASSUME LedgerConstants ==
    /\ Equity \subseteq Nat \ {0}
    /\ Exposure \subseteq Nat
    /\ RiskAmount \subseteq Nat \ {0}
    /\ MaxAge \in Nat \ {0}
    /\ TTL \in Nat \ {0}
    /\ Skew \in Nat
    /\ BusyWait \in Nat
    /\ Horizon \in Nat
    /\ None \notin Snapshot \union Reservation \union [equity : Equity, risk : Exposure]

VARIABLES
    clock,         \* Date.now() of the server
    snapshot,      \* the account's row of risk_account_snapshots
    reservations   \* the account's rows of risk_reservations

ledgerVars == <<clock, snapshot, reservations>>

Init ==
    /\ clock = 0
    /\ snapshot = None
    /\ reservations = [k \in Key |-> None]

-----------------------------------------------------------------------------
(* storeSnapshot, the comparison with the cap, and the reservations.       *)

\* m cents of risk are within 2% of equity e, up to one cent.
WithinCap(m, e) == 50 * m <= e + 50 * Tolerance

\* The times an operation that commits now may have read from the clock.
Captured == {t \in 0 .. clock : clock <= t + BusyWait}

Fresh(at, now) == at <= now + Skew /\ now - at <= MaxAge

Newer_AllowsEqual(s) == snapshot # None => s.at >= snapshot.at

Newer(s) == snapshot # None => s.at > snapshot.at

Resent(s) ==
    /\ snapshot # None
    /\ s.id = snapshot.id /\ s.equity = snapshot.equity /\ s.risk = snapshot.risk
    /\ s.at <= snapshot.at

ActiveIn(book) == {k \in Key : book[k] # None /\ book[k].status = "active"}
Active == ActiveIn(reservations)

\* What each key holds, and SUM(risk_money) over the keys in K.
Risks == [k \in Key |-> IF reservations[k] = None THEN 0 ELSE reservations[k].risk]
Reserved(K) == SumFunctionOnSet(Risks, K)

Close(K, status) ==
    reservations' = [k \in Key |-> IF k \in K
                                   THEN [reservations[k] EXCEPT !.status = status]
                                   ELSE reservations[k]]

-----------------------------------------------------------------------------
(* The four operations: MayX is X's checks, X its transaction when they    *)
(* pass; when they fail the operation throws and nothing changes.          *)

MayReconcile(now, s) == Fresh(s.at, now) /\ (Newer(s) \/ Resent(s))

Reconcile_SweepsClosed(now, s) ==
    /\ MayReconcile(now, s)
    /\ snapshot' = IF Newer(s) THEN s ELSE snapshot
    /\ Close({k \in Key : reservations[k] # None /\ reservations[k].expires <= s.at},
             "settled")
    /\ UNCHANGED clock

Reconcile_SweepsByClock(now, s) ==
    /\ MayReconcile(now, s)
    /\ snapshot' = IF Newer(s) THEN s ELSE snapshot
    /\ Close({k \in Active : reservations[k].expires <= now}, "settled")
    /\ UNCHANGED clock

\* POST /risk/reconcile: store the snapshot (a resent one is answered as a
\* duplicate) and settle every reservation that had expired when it was taken.
Reconcile(now, s) ==
    /\ MayReconcile(now, s)
    /\ snapshot' = IF Newer(s) THEN s ELSE snapshot
    /\ Close({k \in Active : reservations[k].expires <= s.at}, "settled")
    /\ UNCHANGED clock

Pending(now) == {k \in Active : reservations[k].expires > now}

MayReserve_ForgetsExpired(now, k, m) ==
    /\ snapshot # None
    /\ Fresh(snapshot.at, now)
    /\ reservations[k] = None
    /\ WithinCap(snapshot.risk + Reserved(Pending(now)) + m, snapshot.equity)

MayReserve_ReusesClosedKey(now, k, m) ==
    /\ Active = Pending(now)
    /\ snapshot # None
    /\ Fresh(snapshot.at, now)
    /\ k \notin Active
    /\ WithinCap(snapshot.risk + Reserved(Pending(now)) + m, snapshot.equity)

MayReserve_CountsFillsOnly(now, k, m) ==
    /\ Active = Pending(now)
    /\ snapshot # None
    /\ Fresh(snapshot.at, now)
    /\ reservations[k] = None
    /\ WithinCap(snapshot.risk + m, snapshot.equity)

\* Nothing is granted while an expired reservation is unresolved or on a stale
\* snapshot, a key is granted once, and what is granted fits under the cap.
MayReserve(now, k, m) ==
    /\ Active = Pending(now)
    /\ snapshot # None
    /\ Fresh(snapshot.at, now)
    /\ reservations[k] = None
    /\ WithinCap(snapshot.risk, snapshot.equity)
    /\ WithinCap(snapshot.risk + Reserved(Pending(now)) + m, snapshot.equity)

Reserve_StatusPending(now, i, k, m) ==
    /\ MayReserve(now, k, m)
    /\ reservations' = [reservations EXCEPT ![k] =
           [owner |-> i, risk |-> m, status |-> "pending",
            created |-> now, expires |-> now + TTL]]
    /\ UNCHANGED <<clock, snapshot>>

\* POST /risk/reserve
Reserve(now, i, k, m) ==
    /\ MayReserve(now, k, m)
    /\ reservations' = [reservations EXCEPT ![k] =
           [owner |-> i, risk |-> m, status |-> "active",
            created |-> now, expires |-> now + TTL]]
    /\ UNCHANGED <<clock, snapshot>>

MayRelease_OnAnyNewSnapshot(now, i, k, s) ==
    /\ k \in Active
    /\ reservations[k].owner = i
    /\ Fresh(s.at, now)
    /\ Newer(s)

\* The owner gives an active reservation back with a snapshot that is new to
\* the ledger and later than the reservation.
MayRelease(now, i, k, s) ==
    /\ k \in Active
    /\ reservations[k].owner = i
    /\ Fresh(s.at, now)
    /\ Newer(s)
    /\ s.at > reservations[k].created

\* POST /risk/release
Release(now, i, k, s) ==
    /\ MayRelease(now, i, k, s)
    /\ snapshot' = s
    /\ Close({k}, "released")
    /\ UNCHANGED clock

\* The owner replaces an unexpired reservation by the exposure that its fill
\* is part of.
MaySettle(now, i, k, s) ==
    /\ k \in Active
    /\ reservations[k].expires > now
    /\ reservations[k].owner = i
    /\ Fresh(s.at, now)
    /\ Newer(s)

\* POST /risk/settle
Settle(now, i, k, s) ==
    /\ MaySettle(now, i, k, s)
    /\ snapshot' = s
    /\ Close({k}, "settled")
    /\ UNCHANGED clock

Tick ==
    /\ clock < Horizon
    /\ clock' = clock + 1
    /\ UNCHANGED <<snapshot, reservations>>

Next ==
    \/ Tick
    \/ \E now \in Captured :
         \/ \E s \in Snapshot : Reconcile(now, s)
         \/ \E i \in Instance, k \in Key :
              \/ \E m \in RiskAmount : Reserve(now, i, k, m)
              \/ \E s \in Snapshot : Release(now, i, k, s) \/ Settle(now, i, k, s)

Spec == Init /\ [][Next]_ledgerVars

-----------------------------------------------------------------------------
(* Properties.                                                             *)

TypeOK ==
    /\ clock \in Nat
    /\ snapshot \in Snapshot \union {None}
    /\ reservations \in [Key -> Reservation \union {None}]

\* A grant is never given against risk the ledger no longer sees: whenever a
\* reservation appears, its key was never used, and the stored exposure plus
\* EVERY reservation still active, expired or not, plus the new one is within
\* the cap.
GrantsWithinCap ==
    [][\A k \in ActiveIn(reservations') \ Active :
          /\ reservations[k] = None
          /\ WithinCap(snapshot.risk + Reserved(Active) + reservations'[k].risk,
                       snapshot.equity)]_ledgerVars

\* A reservation that was released was proved unused: the ledger holds, and
\* keeps holding, an exposure snapshot stamped after the reservation was made.
ReleaseProved ==
    \A k \in Key :
        reservations[k] # None /\ reservations[k].status = "released" =>
            snapshot # None /\ snapshot.at > reservations[k].created

\* A reservation that was released or settled stays so, and no step rewrites
\* the owner, risk, creation or expiry of a row, or drops a row: an order that
\* gave its reservation back can never be counted as backed again.
ClosedIsFinal ==
    [][\A k \in Key : reservations[k] # None =>
          /\ reservations'[k] # None
          /\ [reservations'[k] EXCEPT !.status = "active"]
                = [reservations[k] EXCEPT !.status = "active"]
          /\ reservations[k].status # "active"
                => reservations'[k].status = reservations[k].status]_ledgerVars

\* Exposure never goes back in time: a step that changes the stored snapshot
\* stores a later one, and a reservation stops being active only in a step
\* after which the stored snapshot is later than before or covers its expiry.
EvidenceMovesForward ==
    [][/\ snapshot' # snapshot
             => snapshot = None \/ snapshot'.at > snapshot.at
       /\ \A k \in Active \ ActiveIn(reservations') :
             \/ snapshot' # snapshot
             \/ snapshot'.at >= reservations[k].expires]_ledgerVars

\* What the settlement error message says (risk-ledger.js:255): a reservation
\* is settled on a snapshot captured after the order outcome, so certainly not
\* on one captured before the reservation was made.
SettlementFollowsGrant ==
    \A k \in Key :
        reservations[k] # None /\ reservations[k].status = "settled" =>
            snapshot.at >= reservations[k].created

-----------------------------------------------------------------------------
\* The ledger seen as a budget: clock, owners, expiry and identifiers hidden.
Budget == INSTANCE RiskBudget WITH
    account <- IF snapshot = None THEN None
               ELSE [equity |-> snapshot.equity, risk |-> snapshot.risk],
    open    <- Active,
    spent   <- {k \in Key : reservations[k] # None},
    amount  <- Risks

\* The ledger implements the budget: a grant counts everything that was
\* granted and is not covered by a published exposure, each key is granted
\* once, and only a publication lets a counted amount go (reconcile, reserve,
\* release and settle of risk-ledger.js taken together).
ImplementsBudget == Budget!Spec
=============================================================================
