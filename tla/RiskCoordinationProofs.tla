---------------------- MODULE RiskCoordinationProofs ----------------------
(***************************************************************************)
(* What holds of the ledger by itself, and of the entry protocol around    *)
(* it, for every number of terminals, charts, keys and ticks, whatever     *)
(* calls, answers and terminals are lost: types, the mutual exclusion      *)
(* inside a terminal, and that the ledger only ever takes steps of         *)
(* RiskLedger, so that its theorems hold of the coordination too.          *)
(* When no call outlives its caller, an order at the broker has its risk   *)
(* reserved; when scans also see the whole account, the ledger covers what *)
(* the broker holds, and the account stays within its ceiling.  In one     *)
(* terminal that does not die the mutex and the local evaluation keep the  *)
(* ceiling without the ledger.                                             *)
(***************************************************************************)
EXTENDS RiskCoordination, FiniteSums, TLAPS

-----------------------------------------------------------------------------
(* The ledger by itself.  The inductive invariant is Inv: the typing of    *)
(* the three variables with ReleaseProved, which is preserved because      *)
(* stored snapshots only move forward.                                     *)

Inv == TypeOK /\ ReleaseProved

\* Closing a set of active rows keeps the table well typed, leaves every other
\* row as it was and changes nothing but the status of the rows it closes.
LEMMA CloseType ==
    ASSUME TypeOK, NEW K \in SUBSET Active, NEW status \in {"released", "settled"},
           Close(K, status)
    PROVE  /\ reservations' \in [Key -> Reservation \union {None}]
           /\ \A k \in K : /\ reservations[k] \in Reservation
                           /\ reservations[k].status = "active"
                           /\ reservations'[k] \in Reservation
                           /\ reservations'[k] = [reservations[k] EXCEPT !.status = status]
                           /\ reservations'[k].status = status
                           /\ reservations'[k].created = reservations[k].created
           /\ \A k \in Key \ K : reservations'[k] = reservations[k]
BY LedgerConstants DEF TypeOK, Close, Active, ActiveIn, Reservation

\* A grant writes one well-typed active row over an absent one.
LEMMA ReserveType ==
    ASSUME TypeOK, NEW now \in Captured, NEW i \in Instance, NEW id \in Key,
           NEW m \in RiskAmount, Reserve(now, i, id, m)
    PROVE  /\ reservations' \in [Key -> Reservation \union {None}]
           /\ reservations[id] = None
           /\ reservations'[id] \in Reservation
           /\ reservations'[id].status = "active"
           /\ reservations'[id].risk = m
           /\ \A k \in Key \ {id} : reservations'[k] = reservations[k]
<1>1. now \in Nat /\ now + TTL \in Nat
  BY LedgerConstants DEF TypeOK, Captured
<1>2. [owner |-> i, risk |-> m, status |-> "active", created |-> now,
       expires |-> now + TTL] \in Reservation
  BY <1>1 DEF Reservation
<1>3. QED
  BY <1>2 DEF TypeOK, Reserve, MayReserve

LEMMA TypeInit == Init => TypeOK
BY DEF Init, TypeOK

LEMMA TypeStep == TypeOK /\ [Next]_ledgerVars => TypeOK'
<1> SUFFICES ASSUME TypeOK, [Next]_ledgerVars PROVE TypeOK'
  OBVIOUS
<1>1. CASE Tick
  BY <1>1 DEF Tick, TypeOK
<1>2. ASSUME NEW now \in Captured, NEW s \in Snapshot, Reconcile(now, s)
      PROVE  TypeOK'
  <2>1. {k \in Active : reservations[k].expires <= s.at} \in SUBSET Active
    OBVIOUS
  <2>2. reservations' \in [Key -> Reservation \union {None}]
    BY <1>2, <2>1, CloseType DEF Reconcile
  <2>3. QED
    BY <1>2, <2>2 DEF Reconcile, TypeOK
<1>3. ASSUME NEW now \in Captured, NEW i \in Instance, NEW k \in Key,
             NEW m \in RiskAmount, Reserve(now, i, k, m)
      PROVE  TypeOK'
  BY <1>3, ReserveType DEF Reserve, TypeOK
<1>4. ASSUME NEW now \in Captured, NEW i \in Instance, NEW k \in Key,
             NEW s \in Snapshot, Release(now, i, k, s)
      PROVE  TypeOK'
  <2>1. {k} \in SUBSET Active
    BY <1>4 DEF Release, MayRelease
  <2>2. reservations' \in [Key -> Reservation \union {None}]
    BY <1>4, <2>1, CloseType DEF Release
  <2>3. QED
    BY <1>4, <2>2 DEF Release, TypeOK
<1>5. ASSUME NEW now \in Captured, NEW i \in Instance, NEW k \in Key,
             NEW s \in Snapshot, Settle(now, i, k, s)
      PROVE  TypeOK'
  <2>1. {k} \in SUBSET Active
    BY <1>5 DEF Settle, MaySettle
  <2>2. reservations' \in [Key -> Reservation \union {None}]
    BY <1>5, <2>1, CloseType DEF Settle
  <2>3. QED
    BY <1>5, <2>2 DEF Settle, TypeOK
<1>6. CASE UNCHANGED ledgerVars
  BY <1>6 DEF ledgerVars, TypeOK
<1>7. QED
  BY <1>1, <1>2, <1>3, <1>4, <1>5, <1>6 DEF Next

\* The clock, the stored snapshot and the rows of the ledger are always well
\* typed (the tables' CHECK constraints in risk-ledger.js:81-107).
THEOREM TypeCorrect == Spec => []TypeOK
<1>1. QED
  BY TypeInit, TypeStep, PTL DEF Spec

-----------------------------------------------------------------------------
\* A step that changes the stored snapshot stores a later one.
LEMMA SnapshotForward ==
    ASSUME TypeOK, [Next]_ledgerVars, snapshot # None
    PROVE  snapshot' # None /\ snapshot' \in Snapshot
           /\ (snapshot' = snapshot \/ snapshot'.at > snapshot.at)
<1>1. CASE Tick \/ UNCHANGED ledgerVars
  BY <1>1 DEF Tick, ledgerVars, TypeOK
<1>2. ASSUME NEW now \in Captured, NEW s \in Snapshot, Reconcile(now, s)
      PROVE  snapshot' = snapshot \/ (snapshot' = s /\ s.at > snapshot.at)
  BY <1>2 DEF Reconcile, MayReconcile, Newer
<1>3. ASSUME NEW now \in Captured, NEW i \in Instance, NEW k \in Key
      PROVE  /\ \A m \in RiskAmount : Reserve(now, i, k, m) => snapshot' = snapshot
             /\ \A s \in Snapshot : Release(now, i, k, s) \/ Settle(now, i, k, s)
                    => snapshot' = s /\ s.at > snapshot.at
  BY DEF Reserve, Release, MayRelease, Settle, MaySettle, Newer
<1>4. QED
  BY <1>1, <1>2, <1>3, LedgerConstants DEF Next, TypeOK

LEMMA ReleaseStep == Inv /\ [Next]_ledgerVars => ReleaseProved'
<1> SUFFICES ASSUME Inv, [Next]_ledgerVars, NEW k \in Key,
                    reservations'[k] # None, reservations'[k].status = "released"
             PROVE  snapshot' # None /\ snapshot'.at > reservations'[k].created
  BY DEF ReleaseProved
<1> USE DEF Inv
<1>1. ASSUME reservations'[k] = reservations[k]
      PROVE  snapshot' # None /\ snapshot'.at > reservations'[k].created
  <2>1. snapshot # None /\ snapshot.at > reservations[k].created
    BY <1>1 DEF ReleaseProved
  <2>2. snapshot \in Snapshot /\ reservations[k] \in Reservation
    BY <1>1, <2>1 DEF TypeOK
  <2>3. snapshot.at \in Int /\ reservations[k].created \in Int
    BY <2>2 DEF Snapshot, Reservation
  <2>4. snapshot' # None /\ snapshot' \in Snapshot
        /\ (snapshot' = snapshot \/ snapshot'.at > snapshot.at)
    BY <2>1, SnapshotForward
  <2>5. snapshot'.at \in Int
    BY <2>4 DEF Snapshot
  <2>6. QED
    BY <1>1, <2>1, <2>3, <2>4, <2>5
<1>2. CASE Tick \/ UNCHANGED ledgerVars
  BY <1>1, <1>2 DEF Tick, ledgerVars
<1>3. ASSUME NEW now \in Captured, NEW s \in Snapshot, Reconcile(now, s)
      PROVE  reservations'[k] = reservations[k]
  <2> DEFINE K == {r \in Active : reservations[r].expires <= s.at}
  <2>1. Close(K, "settled") /\ K \in SUBSET Active
    BY <1>3 DEF Reconcile
  <2>2. \A r \in K : reservations'[r].status = "settled"
    BY <2>1, CloseType
  <2>3. \A r \in Key \ K : reservations'[r] = reservations[r]
    BY <2>1, CloseType
  <2>4. QED
    BY <2>2, <2>3
<1>4. ASSUME NEW now \in Captured, NEW i \in Instance, NEW id \in Key,
             NEW m \in RiskAmount, Reserve(now, i, id, m)
      PROVE  reservations'[k] = reservations[k]
  BY <1>4, ReserveType
<1>5. ASSUME NEW now \in Captured, NEW i \in Instance, NEW id \in Key,
             NEW s \in Snapshot, Release(now, i, id, s)
      PROVE  \/ reservations'[k] = reservations[k]
             \/ snapshot' # None /\ snapshot'.at > reservations'[k].created
  <2>1. Close({id}, "released") /\ {id} \in SUBSET Active
    BY <1>5 DEF Release, MayRelease
  <2>2. reservations'[id].created = reservations[id].created
    BY <2>1, CloseType
  <2>3. \A r \in Key \ {id} : reservations'[r] = reservations[r]
    BY <2>1, CloseType
  <2>4. snapshot' = s /\ s # None /\ s.at > reservations[id].created
    BY <1>5, LedgerConstants DEF Release, MayRelease
  <2>5. QED
    BY <2>2, <2>3, <2>4
<1>6. ASSUME NEW now \in Captured, NEW i \in Instance, NEW id \in Key,
             NEW s \in Snapshot, Settle(now, i, id, s)
      PROVE  reservations'[k] = reservations[k]
  <2>1. Close({id}, "settled") /\ {id} \in SUBSET Active
    BY <1>6 DEF Settle, MaySettle
  <2>2. reservations'[id].status = "settled"
    BY <2>1, CloseType
  <2>3. \A r \in Key \ {id} : reservations'[r] = reservations[r]
    BY <2>1, CloseType
  <2>4. QED
    BY <2>2, <2>3
<1>7. QED
  BY <1>1, <1>2, <1>3, <1>4, <1>5, <1>6 DEF Next

\* Every released reservation was released on an exposure snapshot later than
\* itself, and the ledger never falls back to an older one.
THEOREM ReleasesAreProved == Spec => []ReleaseProved
<1>1. Init => Inv
  BY TypeInit DEF Init, Inv, ReleaseProved
<1>2. Inv /\ [Next]_ledgerVars => Inv'
  BY TypeStep, ReleaseStep DEF Inv
<1>3. Inv => ReleaseProved
  BY DEF Inv
<1>4. QED
  BY <1>1, <1>2, <1>3, PTL DEF Spec
-----------------------------------------------------------------------------
\* The rows that stop being active in a step, and the evidence for it.
LEMMA EvidenceStep ==
    ASSUME TypeOK, [Next]_ledgerVars, NEW k \in Active \ ActiveIn(reservations')
    PROVE  snapshot' # snapshot \/ snapshot'.at >= reservations[k].expires
<1>0. k \in Key /\ reservations[k] # None /\ reservations[k].status = "active"
  BY DEF Active, ActiveIn
<1>1. reservations'[k] # reservations[k]
  BY <1>0 DEF ActiveIn
<1>2. CASE Tick \/ UNCHANGED ledgerVars
  BY <1>1, <1>2 DEF Tick, ledgerVars
<1>3. ASSUME NEW now \in Captured, NEW s \in Snapshot, Reconcile(now, s)
      PROVE  snapshot' # snapshot \/ snapshot'.at >= reservations[k].expires
  <2> DEFINE K == {r \in Active : reservations[r].expires <= s.at}
  <2>1. Close(K, "settled") /\ K \in SUBSET Active
    BY <1>3 DEF Reconcile
  <2>2. k \in K
    BY <1>0, <1>1, <2>1, CloseType
  <2>3. s.at >= reservations[k].expires
    BY <1>0, <2>2 DEF TypeOK, Reservation, Snapshot
  <2>4. CASE Newer(s) /\ snapshot' = s
    BY <2>3, <2>4
  <2>5. CASE Resent(s) /\ snapshot' = snapshot
    <3>1. snapshot \in Snapshot /\ s.at <= snapshot.at
      BY <2>5 DEF Resent, TypeOK
    <3>2. snapshot.at \in Int /\ s.at \in Int /\ reservations[k].expires \in Int
      BY <1>0, <3>1 DEF TypeOK, Reservation, Snapshot
    <3>3. QED
      BY <2>3, <2>5, <3>1, <3>2
  <2>6. QED
    BY <1>3, <2>4, <2>5 DEF Reconcile, MayReconcile
<1>4. ASSUME NEW now \in Captured, NEW i \in Instance, NEW id \in Key,
             NEW m \in RiskAmount, Reserve(now, i, id, m)
      PROVE  FALSE
  BY <1>0, <1>1, <1>4, ReserveType
<1>5. ASSUME NEW now \in Captured, NEW i \in Instance, NEW id \in Key,
             NEW s \in Snapshot, Release(now, i, id, s) \/ Settle(now, i, id, s)
      PROVE  snapshot' # snapshot
  <2>1. snapshot' = s /\ Newer(s)
    BY <1>5 DEF Release, MayRelease, Settle, MaySettle
  <2>2. CASE snapshot = None
    BY <2>1, <2>2, LedgerConstants
  <2>3. CASE snapshot # None
    BY <2>1, <2>3 DEF Newer, TypeOK, Snapshot
  <2>4. QED
    BY <2>2, <2>3
<1>6. QED
  BY <1>2, <1>3, <1>4, <1>5 DEF Next

\* Exposure evidence moves forward, and a reservation is only let go on new or
\* sufficiently late evidence.
THEOREM EvidenceIsMonotone == Spec => EvidenceMovesForward
<1> DEFINE A == /\ snapshot' # snapshot
                      => snapshot = None \/ snapshot'.at > snapshot.at
                /\ \A k \in Active \ ActiveIn(reservations') :
                      \/ snapshot' # snapshot
                      \/ snapshot'.at >= reservations[k].expires
<1>1. TypeOK /\ [Next]_ledgerVars => A
  BY SnapshotForward, EvidenceStep
<1>2. TypeOK /\ [Next]_ledgerVars => [A]_ledgerVars
  BY <1>1
<1>3. QED
  BY <1>2, TypeCorrect, PTL DEF Spec, EvidenceMovesForward

\* What one step may do to the row of one id.
LEMMA RowStep ==
    ASSUME TypeOK, [Next]_ledgerVars, NEW k \in Key, reservations[k] # None
    PROVE  \/ reservations'[k] = reservations[k]
           \/ /\ reservations[k] \in Reservation
              /\ reservations[k].status = "active"
              /\ \E status \in {"released", "settled"} :
                    reservations'[k] = [reservations[k] EXCEPT !.status = status]
<1>1. CASE Tick \/ UNCHANGED ledgerVars
  BY <1>1 DEF Tick, ledgerVars
<1>2. ASSUME NEW now \in Captured, NEW s \in Snapshot, Reconcile(now, s)
      PROVE  \E K \in SUBSET Active : Close(K, "settled")
  BY <1>2 DEF Reconcile
<1>3. ASSUME NEW now \in Captured, NEW i \in Instance, NEW id \in Key,
             NEW m \in RiskAmount, Reserve(now, i, id, m)
      PROVE  reservations'[k] = reservations[k]
  BY <1>3, ReserveType
<1>4. ASSUME NEW now \in Captured, NEW i \in Instance, NEW id \in Key,
             NEW s \in Snapshot, Release(now, i, id, s) \/ Settle(now, i, id, s)
      PROVE  \E K \in SUBSET Active, status \in {"released", "settled"} : Close(K, status)
  BY <1>4 DEF Release, MayRelease, Settle, MaySettle
<1>5. ASSUME NEW K \in SUBSET Active, NEW status \in {"released", "settled"},
             Close(K, status)
      PROVE  \/ reservations'[k] = reservations[k]
             \/ /\ reservations[k] \in Reservation
                /\ reservations[k].status = "active"
                /\ reservations'[k] = [reservations[k] EXCEPT !.status = status]
  BY <1>5, CloseType
<1>6. QED
  BY <1>1, <1>2, <1>3, <1>4, <1>5 DEF Next

\* A row is never dropped or rewritten, and once released or settled it is final.
THEOREM ClosedRowsAreFinal == Spec => ClosedIsFinal
<1> DEFINE A == \A k \in Key : reservations[k] # None =>
                  /\ reservations'[k] # None
                  /\ [reservations'[k] EXCEPT !.status = "active"]
                        = [reservations[k] EXCEPT !.status = "active"]
                  /\ reservations[k].status # "active"
                        => reservations'[k].status = reservations[k].status
<1>1. ASSUME TypeOK, [Next]_ledgerVars, NEW k \in Key, reservations[k] # None
      PROVE  /\ reservations'[k] # None
             /\ [reservations'[k] EXCEPT !.status = "active"]
                   = [reservations[k] EXCEPT !.status = "active"]
             /\ reservations[k].status # "active"
                   => reservations'[k].status = reservations[k].status
  <2>1. reservations[k] \in Reservation
    BY <1>1 DEF TypeOK
  <2>2. ASSUME NEW status \in {"released", "settled"},
               reservations'[k] = [reservations[k] EXCEPT !.status = status]
        PROVE  /\ reservations'[k] \in Reservation
               /\ [reservations'[k] EXCEPT !.status = "active"]
                     = [reservations[k] EXCEPT !.status = "active"]
    BY <2>1, <2>2 DEF Reservation
  <2>3. QED
    BY <1>1, <2>1, <2>2, RowStep, LedgerConstants
<1>2. TypeOK /\ [Next]_ledgerVars => [A]_ledgerVars
  BY <1>1
<1>3. QED
  BY <1>2, TypeCorrect, PTL DEF Spec, ClosedIsFinal

-----------------------------------------------------------------------------
\* A row that becomes active in a step was granted by Reserve, and no active
\* reservation had been left out of the sum it was granted against.
LEMMA GrantStep ==
    ASSUME TypeOK, [Next]_ledgerVars, NEW k \in ActiveIn(reservations') \ Active
    PROVE  /\ reservations[k] = None
           /\ WithinCap(snapshot.risk + Reserved(Active) + reservations'[k].risk,
                        snapshot.equity)
<1>0. k \in Key /\ reservations'[k] # None /\ reservations'[k].status = "active"
  BY DEF ActiveIn
<1>1. reservations[k] = None
  <2>1. reservations'[k] # reservations[k]
    BY <1>0 DEF Active, ActiveIn
  <2>2. SUFFICES ASSUME reservations[k] # None PROVE FALSE
    OBVIOUS
  <2>3. PICK status \in {"released", "settled"} :
          reservations'[k] = [reservations[k] EXCEPT !.status = status]
    BY <1>0, <2>1, <2>2, RowStep
  <2>4. reservations[k] \in Reservation
    BY <1>0, <2>2 DEF TypeOK
  <2>5. reservations'[k].status = status
    BY <2>3, <2>4 DEF Reservation
  <2>6. QED
    BY <1>0, <2>5
<1>2. ASSUME NEW now \in Captured, NEW i \in Instance, NEW id \in Key,
             NEW m \in RiskAmount, Reserve(now, i, id, m)
      PROVE  WithinCap(snapshot.risk + Reserved(Active) + reservations'[k].risk,
                       snapshot.equity)
  <2>1. id = k
    BY <1>0, <1>1, <1>2, ReserveType
  <2>2. reservations'[k].risk = m
    BY <1>2, <2>1, ReserveType
  <2>3. Pending(now) = Active
    BY <1>2 DEF Reserve, MayReserve
  <2>4. WithinCap(snapshot.risk + Reserved(Pending(now)) + m, snapshot.equity)
    BY <1>2 DEF Reserve, MayReserve
  <2>5. QED
    BY <2>2, <2>3, <2>4
<1>3. ASSUME NEW K \in SUBSET Active, NEW status \in {"released", "settled"},
             Close(K, status)
      PROVE  FALSE
  <2>1. k \notin K
    BY <1>3, <1>1 DEF Active, ActiveIn
  <2>2. QED
    BY <1>0, <1>1, <1>3, <2>1, CloseType
<1>4. CASE Tick \/ UNCHANGED ledgerVars
  BY <1>0, <1>1, <1>4 DEF Tick, ledgerVars
<1>5. ASSUME NEW now \in Captured, NEW s \in Snapshot, Reconcile(now, s)
      PROVE  FALSE
  <2>1. Close({r \in Active : reservations[r].expires <= s.at}, "settled")
    BY <1>5 DEF Reconcile
  <2>2. QED
    BY <1>3, <2>1
<1>6. ASSUME NEW now \in Captured, NEW i \in Instance, NEW id \in Key,
             NEW s \in Snapshot, Release(now, i, id, s) \/ Settle(now, i, id, s)
      PROVE  FALSE
  <2>1. {id} \in SUBSET Active /\ (Close({id}, "released") \/ Close({id}, "settled"))
    BY <1>6 DEF Release, MayRelease, Settle, MaySettle
  <2>2. QED
    BY <1>3, <2>1
<1>7. QED
  BY <1>1, <1>2, <1>4, <1>5, <1>6 DEF Next

\* The ledger never grants past the cap: what the guard sums over, the
\* unexpired reservations at a clock read before the transaction began, is
\* everything that is active.
THEOREM GrantsStayWithinCap == Spec => GrantsWithinCap
<1> DEFINE A == \A k \in ActiveIn(reservations') \ Active :
                  /\ reservations[k] = None
                  /\ WithinCap(snapshot.risk + Reserved(Active)
                                 + reservations'[k].risk, snapshot.equity)
<1>1. TypeOK /\ [Next]_ledgerVars => [A]_ledgerVars
  BY GrantStep
<1>2. QED
  BY <1>1, TypeCorrect, PTL DEF Spec, GrantsWithinCap
-----------------------------------------------------------------------------
(* The ledger implements the budget.  Publish is what Reconcile, Release   *)
(* and Settle do to it, Grant is what Reserve does, and Tick stutters.     *)

LEMMA SameSum == \A K : Budget!Counted(K) = Reserved(K)
BY Zenon DEF Budget!Counted, Reserved, SumFunctionOnSet, Budget!SumFunctionOnSet,
             FoldFunctionOnSet, Budget!FoldFunctionOnSet,
             MapThenFoldSet, Budget!MapThenFoldSet

LEMMA BudgetInit == Init => Budget!Init
BY DEF Init, Budget!Init, Active, ActiveIn, Risks

\* Closing rows is invisible to the budget except for what it stops counting.
LEMMA CloseHidden ==
    ASSUME TypeOK, NEW K \in SUBSET Active, NEW status \in {"released", "settled"},
           Close(K, status)
    PROVE  /\ Active' = Active \ K
           /\ {k \in Key : reservations'[k] # None} = {k \in Key : reservations[k] # None}
           /\ Risks' = Risks
<1>1. \A k \in K : /\ reservations[k] \in Reservation
                  /\ reservations'[k] \in Reservation
                  /\ reservations'[k] = [reservations[k] EXCEPT !.status = status]
                  /\ reservations'[k].status = status
  BY CloseType
<1>2. \A k \in Key \ K : reservations'[k] = reservations[k]
  BY CloseType
<1>3. ASSUME NEW k \in Key
      PROVE  /\ reservations'[k] = None <=> reservations[k] = None
             /\ reservations[k] # None => reservations'[k].risk = reservations[k].risk
  <2>1. CASE k \in K
    <3>1. /\ reservations[k] \in Reservation
          /\ reservations'[k] \in Reservation
          /\ reservations'[k] = [reservations[k] EXCEPT !.status = status]
      BY <1>1, <2>1
    <3>2. reservations'[k].risk = reservations[k].risk
      BY <3>1 DEF Reservation
    <3>3. QED
      BY <3>1, <3>2, LedgerConstants
  <2>2. CASE k \notin K
    BY <1>2, <2>2
  <2>3. QED
    BY <2>1, <2>2
<1>4. Active' = Active \ K
  <2>1. \A k \in K : reservations'[k].status # "active"
    BY <1>1
  <2>2. QED
    BY <2>1, <1>2 DEF Active, ActiveIn
<1>5. Risks' = Risks
  <2>1. ASSUME NEW k \in Key
        PROVE  (IF reservations'[k] = None THEN 0 ELSE reservations'[k].risk)
                 = (IF reservations[k] = None THEN 0 ELSE reservations[k].risk)
    <3>1. CASE reservations[k] = None
      BY <1>3, <3>1
    <3>2. CASE reservations[k] # None
      BY <1>3, <3>2
    <3>3. QED
      BY <3>1, <3>2
  <2>2. QED
    BY <2>1 DEF Risks
<1>6. {k \in Key : reservations'[k] # None} = {k \in Key : reservations[k] # None}
  BY <1>3
<1>7. QED
  BY <1>4, <1>5, <1>6

LEMMA BudgetPublish ==
    ASSUME TypeOK, NEW K \in SUBSET Active, NEW status \in {"released", "settled"},
           Close(K, status), snapshot' \in Snapshot
    PROVE  Budget!Publish
<1>1. snapshot' # None
  BY LedgerConstants
<1>2. [equity |-> snapshot'.equity, risk |-> snapshot'.risk]
         \in [equity : Equity, risk : Exposure]
  BY DEF Snapshot
<1>3. QED
  BY <1>1, <1>2, CloseHidden DEF Budget!Publish

LEMMA BudgetStep == TypeOK /\ [Next]_ledgerVars => [Budget!Next]_(Budget!budgetVars)
<1> SUFFICES ASSUME TypeOK, [Next]_ledgerVars
             PROVE  Budget!Next \/ UNCHANGED Budget!budgetVars
  OBVIOUS
<1>1. CASE Tick \/ UNCHANGED ledgerVars
  BY <1>1 DEF Tick, ledgerVars, Budget!budgetVars, Active, ActiveIn, Risks
<1>2. ASSUME NEW now \in Captured, NEW s \in Snapshot, Reconcile(now, s)
      PROVE  Budget!Next
  <2> DEFINE K == {r \in Active : reservations[r].expires <= s.at}
  <2>1. K \in SUBSET Active /\ Close(K, "settled")
    BY <1>2 DEF Reconcile
  <2>2. snapshot' \in Snapshot
    BY <1>2 DEF Reconcile, MayReconcile, Resent, TypeOK
  <2>3. Budget!Publish
    BY <2>1, <2>2, BudgetPublish
  <2>4. QED
    BY <2>3 DEF Budget!Next
<1>3. ASSUME NEW now \in Captured, NEW i \in Instance, NEW id \in Key,
             NEW m \in RiskAmount, Reserve(now, i, id, m)
      PROVE  Budget!Next
  <2>1. /\ reservations' \in [Key -> Reservation \union {None}]
        /\ reservations[id] = None
        /\ reservations'[id] # None
        /\ reservations'[id].status = "active"
        /\ reservations'[id].risk = m
        /\ \A k \in Key \ {id} : reservations'[k] = reservations[k]
    BY <1>3, ReserveType, LedgerConstants
  <2>2. Active' = Active \union {id}
    BY <2>1 DEF Active, ActiveIn
  <2>3. {k \in Key : reservations'[k] # None}
          = {k \in Key : reservations[k] # None} \union {id}
    BY <2>1
  <2>4. Risks' = [Risks EXCEPT ![id] = m]
    BY <2>1 DEF Risks
  <2>5. /\ snapshot # None /\ snapshot' = snapshot
        /\ Pending(now) = Active
    BY <1>3 DEF Reserve, MayReserve
  <2>6. 50 * (snapshot.risk + Budget!Counted(Active) + m) <= snapshot.equity + 50
    <3>1. WithinCap(snapshot.risk + Reserved(Pending(now)) + m, snapshot.equity)
      BY <1>3 DEF Reserve, MayReserve
    <3>2. WithinCap(snapshot.risk + Reserved(Active) + m, snapshot.equity)
      BY <2>5, <3>1
    <3>3. QED
      BY <3>2, SameSum, LedgerConstants DEF WithinCap, Tolerance
  <2>7. Budget!Grant(id, m)
    <3>1. (IF snapshot = None THEN None
           ELSE [equity |-> snapshot.equity, risk |-> snapshot.risk])
             = [equity |-> snapshot.equity, risk |-> snapshot.risk]
      BY <2>5
    <3>2. [equity |-> snapshot.equity, risk |-> snapshot.risk] # None
      BY <2>5, LedgerConstants DEF TypeOK, Snapshot
    <3>3. QED
      BY <2>1, <2>2, <2>3, <2>4, <2>5, <2>6, <3>1, <3>2 DEF Budget!Grant
  <2>8. QED
    BY <2>7 DEF Budget!Next
<1>4. ASSUME NEW now \in Captured, NEW i \in Instance, NEW id \in Key,
             NEW s \in Snapshot, Release(now, i, id, s) \/ Settle(now, i, id, s)
      PROVE  Budget!Next
  <2>1. /\ {id} \in SUBSET Active
        /\ Close({id}, "released") \/ Close({id}, "settled")
        /\ snapshot' \in Snapshot
    BY <1>4 DEF Release, MayRelease, Settle, MaySettle
  <2>2. Budget!Publish
    BY <2>1, BudgetPublish
  <2>3. QED
    BY <2>2 DEF Budget!Next
<1>5. QED
  BY <1>1, <1>2, <1>3, <1>4 DEF Next

\* For every number of terminals, keys and amounts and every timing, the
\* ledger's behaviours are behaviours of the budget.
THEOREM LedgerImplementsBudget == Spec => ImplementsBudget
<1>1. Init => Budget!Init
  BY BudgetInit
<1>2. TypeOK /\ [Next]_ledgerVars => [Budget!Next]_(Budget!budgetVars)
  BY BudgetStep
<1>3. QED
  BY <1>1, <1>2, TypeCorrect, PTL DEF Spec, ImplementsBudget, Budget!Spec

-----------------------------------------------------------------------------
(* The coordination.                                                       *)

\* CoordinationTypeOK without the ledger's part.
ClientTypeOK ==
    /\ phase \in [Instance -> Attempting \union {"off", "idle", "refresh"}]
    /\ key \in [Instance -> Key \union {None}]
    /\ \A i \in Instance :
         key[i] \in (IF phase[i] \in Attempting THEN Own(i) ELSE {None})
    /\ seen \in [Instance -> Exposure \union {None}]
    /\ lastStamp \in [Instance -> Nat]
    /\ ready \in [Instance -> BOOLEAN]
    /\ wire \in [Instance -> Call \union {None}]
    /\ late \subseteq Call
    /\ mutex \in [Terminal -> Instance \union {None}]
    /\ order \in [Key -> {"none", "asked", "sent", "placed", "filled", "rejected", "closed"}]
    /\ crashes \in Nat

-----------------------------------------------------------------------------
(* The ledger's part.                                                      *)

\* A call that is performed is a step of the ledger.
LEMMA PerformIsStep ==
    ASSUME NEW c \in Call, NEW now \in Captured, Perform(now, c)
    PROVE  Next
<1>1. CASE c.op = "reconcile" /\ Reconcile(now, c.snap)
  <2>1. c.snap \in Snapshot
    BY <1>1 DEF Call
  <2>2. QED
    BY <1>1, <2>1 DEF Next
<1>2. CASE c.op = "reserve" /\ Reserve(now, c.from, c.key, Amount[c.key])
  <2>1. c.from \in Instance /\ c.key \in Key
    BY <1>2 DEF Call
  <2>2. Amount[c.key] \in RiskAmount
    BY <2>1, CoordinationConstants
  <2>3. QED
    BY <1>2, <2>1, <2>2 DEF Next
<1>3. CASE c.op = "release" /\ Release(now, c.from, c.key, c.snap)
  <2>1. c.from \in Instance /\ c.key \in Key /\ c.snap \in Snapshot
    BY <1>3 DEF Call
  <2>2. QED
    BY <1>3, <2>1 DEF Next
<1>4. CASE c.op = "settle" /\ Settle(now, c.from, c.key, c.snap)
  <2>1. c.from \in Instance /\ c.key \in Key /\ c.snap \in Snapshot
    BY <1>4 DEF Call
  <2>2. QED
    BY <1>4, <2>1 DEF Next
<1>5. QED
  BY <1>1, <1>2, <1>3, <1>4 DEF Perform

\* Whatever the instances, the broker and the network do, the ledger takes
\* one of its own steps or none.
LEMMA LedgerStep ==
    ASSUME wire \in [Instance -> Call \union {None}], late \subseteq Call,
           [CoordinationNext]_vars
    PROVE  [Next]_ledgerVars
<1>1. CASE Time
  BY <1>1 DEF Time, Next
<1>2. ASSUME NEW i \in Instance, Serve(i) PROVE [Next]_ledgerVars
  <2>1. wire[i] \in Call
    BY <1>2 DEF Serve
  <2>2. PICK now \in Captured : Perform(now, wire[i]) \/ UNCHANGED ledgerVars
    BY <1>2 DEF Serve
  <2>3. QED
    BY <2>1, <2>2, PerformIsStep
<1>3. ASSUME NEW i \in Instance, AnswerLost(i) PROVE [Next]_ledgerVars
  <2>1. wire[i] \in Call
    BY <1>3 DEF AnswerLost
  <2>2. PICK now \in Captured : Perform(now, wire[i])
    BY <1>3 DEF AnswerLost
  <2>3. QED
    BY <2>1, <2>2, PerformIsStep
<1>4. ASSUME NEW c \in late, ServeLate(c) PROVE [Next]_ledgerVars
  <2>1. PICK now \in Captured : Perform(now, c) \/ UNCHANGED ledgerVars
    BY <1>4 DEF ServeLate
  <2>2. QED
    BY <2>1, PerformIsStep
<1>5. ASSUME NEW i \in Instance, Client(i) PROVE UNCHANGED ledgerVars
  BY <1>5 DEF Client, Scan, ScanFails, Publish, Ask, Send, IntentFails,
              Confirmed, Rejected, Unconfirmed, TimeOut
<1>6. ASSUME NEW i \in Instance, NEW k \in Key, Refresh(i) \/ Attempt(i, k)
      PROVE UNCHANGED ledgerVars
  BY <1>6 DEF Refresh, Attempt
<1>7. ASSUME NEW i \in Instance, Refresh(i)
      PROVE UNCHANGED ledgerVars
  BY <1>7 DEF Refresh
<1>8. ASSUME NEW k \in Key, Place(k) \/ Fill(k) \/ Reject(k) \/ CloseOut(k)
      PROVE UNCHANGED ledgerVars
  BY <1>8 DEF Place, Fill, Reject, CloseOut, BrokerMoves
<1>9. ASSUME NEW t \in Terminal, Crash(t) PROVE UNCHANGED ledgerVars
  BY <1>9 DEF Crash
<1>10. CASE UNCHANGED vars
  BY <1>10 DEF vars
<1>11. QED
  BY <1>1, <1>2, <1>3, <1>4, <1>5, <1>6, <1>7, <1>8, <1>9, <1>10
     DEF CoordinationNext
-----------------------------------------------------------------------------
(* Types.                                                                  *)

LEMMA CoordinationTypeInit == CoordinationInit => CoordinationTypeOK
  BY TypeInit, CoordinationConstants DEF CoordinationInit, CoordinationTypeOK, Attempting

\* The helpers of the actions keep the types of what they change.
LEMMA GotoType ==
    ASSUME ClientTypeOK, NEW i \in Instance, NEW p \in Attempting, Goto(i, p),
           phase[i] \in Attempting
    PROVE  /\ phase' \in [Instance -> Attempting \union {"off", "idle", "refresh"}]
           /\ key' = key /\ mutex' = mutex
           /\ \A j \in Instance :
                key'[j] \in (IF phase'[j] \in Attempting THEN Own(j) ELSE {None})
  BY DEF Goto, ClientTypeOK

LEMMA LeaveType ==
    ASSUME ClientTypeOK, NEW i \in Instance, Leave(i)
    PROVE  /\ phase' \in [Instance -> Attempting \union {"off", "idle", "refresh"}]
           /\ key' \in [Instance -> Key \union {None}]
           /\ mutex' \in [Terminal -> Instance \union {None}]
           /\ \A j \in Instance :
                key'[j] \in (IF phase'[j] \in Attempting THEN Own(j) ELSE {None})
<1>1. "idle" \notin Attempting
  BY DEF Attempting
<1>2. QED
  BY <1>1 DEF Leave, ClientTypeOK

LEMMA EndAttemptType ==
    ASSUME ClientTypeOK, NEW i \in Instance, NEW good \in BOOLEAN, EndAttempt(i, good)
    PROVE  /\ phase' \in [Instance -> Attempting \union {"off", "idle", "refresh"}]
           /\ key' \in [Instance -> Key \union {None}]
           /\ mutex' \in [Terminal -> Instance \union {None}]
           /\ order' \in [Key -> {"none", "asked", "sent", "placed", "filled",
                                  "rejected", "closed"}]
           /\ \A j \in Instance :
                key'[j] \in (IF phase'[j] \in Attempting THEN Own(j) ELSE {None})
<1>1. order' \in [Key -> {"none", "asked", "sent", "placed", "filled", "rejected", "closed"}]
  BY DEF EndAttempt, DefensiveClose, Own, ClientTypeOK
<1>2. Leave(i)
  BY DEF EndAttempt
<1>3. QED
  BY <1>1, <1>2, LeaveType

LEMMA ReturnType ==
    ASSUME ClientTypeOK, NEW i \in Instance, NEW ok \in BOOLEAN, Return(i, ok),
           late' \subseteq Call
    PROVE  ClientTypeOK'
<1>1. /\ wire' \in [Instance -> Call \union {None}]
      /\ lastStamp' \in [Instance -> Nat]
      /\ seen' = seen /\ crashes' = crashes
  BY DEF Return, ClientTypeOK
<1>2. CASE phase[i] = "off" /\ Good(i, ok) /\ Started(i)
  <2>1. "idle" \notin Attempting /\ "off" \notin Attempting
    BY DEF Attempting
  <2>2. QED
    BY <1>1, <1>2, <2>1 DEF Started, ClientTypeOK
<1>3. CASE UNCHANGED <<phase, key, ready, mutex, order>>
  BY <1>1, <1>3 DEF ClientTypeOK
<1>4. CASE /\ phase[i] \in DOMAIN Granted
           /\ Goto(i, Granted[phase[i]])
           /\ UNCHANGED <<ready, order>>
  <2>1. phase[i] \in Attempting /\ Granted[phase[i]] \in Attempting
    BY <1>4 DEF Granted, Attempting
  <2>2. QED
    BY <1>1, <1>4, <2>1, GotoType DEF ClientTypeOK
<1>5. CASE EndAttempt(i, Good(i, ok)) /\ UNCHANGED ready
  <2>1. Good(i, ok) \in BOOLEAN
    BY DEF Good
  <2>2. QED
    BY <1>1, <1>5, <2>1, EndAttemptType DEF ClientTypeOK
<1>6. QED
  BY <1>2, <1>3, <1>4, <1>5 DEF Return

\* The call that posts the snapshot of instance i stamped at.
Posted(i, at) ==
    [op |-> Op[phase[i]], from |-> i, key |-> key[i],
     snap |-> [at |-> at, id |-> <<i, at>>, equity |-> AccountEquity,
               risk |-> IF ScanGap THEN seen[i] ELSE BrokerRisk]]

LEMMA PublishedCall ==
    ASSUME CoordinationTypeOK, NEW i \in Instance, Publish(i)
    PROVE  \E reading \in Readings : \E at \in 1 .. Horizon + Skew :
             /\ at = NextSnapshotTime(i, reading) /\ at <= reading + Drift
             /\ lastStamp' = [lastStamp EXCEPT ![i] = at]
             /\ wire' = [wire EXCEPT ![i] = Posted(i, at)]
             /\ Posted(i, at).snap \in Snapshot /\ Posted(i, at) \in Call
<1>1. PICK reading \in Readings :
        /\ NextSnapshotTime(i, reading) <= reading + Drift
        /\ NextSnapshotTime(i, reading) <= Horizon + Skew
        /\ lastStamp' = [lastStamp EXCEPT ![i] = NextSnapshotTime(i, reading)]
        /\ wire' = [wire EXCEPT ![i] = Posted(i, NextSnapshotTime(i, reading))]
  BY DEF Publish, Posted
<1> DEFINE at == NextSnapshotTime(i, reading)
           risk == IF ScanGap THEN seen[i] ELSE BrokerRisk
           snap == [at |-> at, id |-> <<i, at>>, equity |-> AccountEquity, risk |-> risk]
<1>2. at \in 1 .. Horizon + Skew
  <2>1. reading \in Nat \ {0} /\ lastStamp[i] \in Nat
    BY CoordinationConstants DEF Readings, CoordinationTypeOK, TypeOK
  <2>2. at \in Nat \ {0}
    BY <2>1 DEF NextSnapshotTime
  <2>3. QED
    BY <1>1, <2>2, LedgerConstants
<1>3. risk \in Exposure
  <2>1. BrokerRisk \in Exposure
    BY CoordinationConstants DEF BrokerRisk, OrdersIn
  <2>2. ScanGap => seen[i] \in Exposure
    BY DEF Publish, CoordinationTypeOK
  <2>3. QED
    BY <2>1, <2>2
<1>4. snap \in Snapshot
  <2>1. <<i, at>> \in SnapshotId
    BY <1>2, CoordinationConstants
  <2>2. QED
    BY <1>2, <1>3, <2>1, CoordinationConstants DEF Snapshot
<1> HIDE DEF at, risk, snap
<1>5. [op |-> Op[phase[i]], from |-> i, key |-> key[i], snap |-> snap] \in Call
  <2>1. CASE phase[i] \in {"off", "refresh", "entry"}
    <3>1. Op[phase[i]] = "reconcile"
      BY <2>1 DEF Op
    <3>2. key[i] \in Key \union {None}
      BY DEF CoordinationTypeOK
    <3>3. QED
      BY <1>4, <3>1, <3>2 DEF Call
  <2>2. CASE phase[i] \in {"release", "settle"}
    <3>1. Op[phase[i]] \in {"release", "settle"}
      BY <2>2 DEF Op
    <3>2. key[i] \in Key
      BY <2>2 DEF CoordinationTypeOK, Attempting, Own
    <3>3. QED
      BY <1>4, <3>1, <3>2 DEF Call
  <2>3. QED
    BY <2>1, <2>2 DEF Publish
<1>6. /\ Posted(i, at) = [op |-> Op[phase[i]], from |-> i, key |-> key[i], snap |-> snap]
      /\ Posted(i, at).snap = snap
  BY DEF Posted, snap, risk
<1>7. Posted(i, at).snap \in Snapshot /\ Posted(i, at) \in Call
  BY <1>4, <1>5, <1>6
<1>8. QED
  BY <1>1, <1>2, <1>7 DEF at

\* Publish posts a well typed call.
LEMMA PublishType ==
    ASSUME CoordinationTypeOK, ClientTypeOK, NEW i \in Instance, Publish(i)
    PROVE  ClientTypeOK'
<1>1. PICK at \in 1 .. Horizon + Skew :
        /\ lastStamp' = [lastStamp EXCEPT ![i] = at]
        /\ wire' = [wire EXCEPT ![i] = Posted(i, at)] /\ Posted(i, at) \in Call
  BY PublishedCall
<1>2. at \in Nat
  BY LedgerConstants
<1>3. QED
  BY <1>1, <1>2 DEF Publish, ClientTypeOK

\* Every other action of an instance keeps the types.
LEMMA ClientType ==
    ASSUME CoordinationTypeOK, ClientTypeOK, NEW i \in Instance, Client(i)
    PROVE  ClientTypeOK'
<1>1. CASE Scan(i)
  <2>1. BrokerRisk \in Exposure
    BY CoordinationConstants DEF BrokerRisk, OrdersIn
  <2>2. QED
    BY <1>1, <2>1 DEF Scan, ClientTypeOK
<1>2. CASE ScanFails(i)
  BY <1>2, EndAttemptType DEF ScanFails, ClientTypeOK
<1>3. CASE Publish(i)
  BY <1>3, PublishType
<1>4. CASE Ask(i)
  <2>1. key[i] \in Key
    BY <1>4 DEF Ask, ClientTypeOK, Attempting, Own
  <2>2. [op |-> "reserve", from |-> i, key |-> key[i], snap |-> None] \in Call
    BY <2>1 DEF Call
  <2>3. QED
    BY <1>4, <2>2 DEF Ask, ClientTypeOK
<1>5. CASE Send(i)
  <2>1. phase[i] \in Attempting /\ "sending" \in Attempting
    BY <1>5 DEF Send, Attempting
  <2>2. QED
    BY <1>5, <2>1, GotoType DEF Send, ClientTypeOK
<1>6. CASE IntentFails(i) \/ Confirmed(i) \/ Rejected(i) \/ Unconfirmed(i)
  <2>1. /\ phase[i] \in Attempting
        /\ \E p \in {"release", "settle"} : Goto(i, p)
    BY <1>6 DEF IntentFails, Confirmed, Rejected, Unconfirmed, Attempting
  <2>2. {"release", "settle"} \subseteq Attempting
    BY DEF Attempting
  <2>3. QED
    BY <1>6, <2>1, <2>2, GotoType
       DEF IntentFails, Confirmed, Rejected, Unconfirmed, ClientTypeOK
<1>7. CASE TimeOut(i)
  <2>1. late' \subseteq Call
    BY <1>7 DEF TimeOut, ClientTypeOK
  <2>2. QED
    BY <1>7, <2>1, ReturnType DEF TimeOut
<1>8. QED
  BY <1>1, <1>2, <1>3, <1>4, <1>5, <1>6, <1>7 DEF Client

LEMMA CoordinationTypeStep ==
    CoordinationTypeOK /\ [CoordinationNext]_vars => CoordinationTypeOK'
<1> SUFFICES ASSUME CoordinationTypeOK, [CoordinationNext]_vars
             PROVE  CoordinationTypeOK'
  OBVIOUS
<1>1. ClientTypeOK
  BY DEF CoordinationTypeOK, ClientTypeOK
<1>2. TypeOK'
  BY LedgerStep, TypeStep DEF CoordinationTypeOK
<1>3. ASSUME NEW i \in Instance, Client(i) PROVE ClientTypeOK'
  BY <1>1, <1>3, ClientType
<1>4. ASSUME NEW i \in Instance, Refresh(i) PROVE ClientTypeOK'
  <2>1. "refresh" \notin Attempting /\ phase[i] \notin Attempting
    BY <1>4 DEF Refresh, Rested, Attempting
  <2>2. QED
    BY <1>1, <1>4, <2>1 DEF Refresh, Goto, ClientTypeOK
<1>5. ASSUME NEW i \in Instance, Serve(i) \/ AnswerLost(i) PROVE ClientTypeOK'
  <2>1. PICK ok \in BOOLEAN : Return(i, ok) /\ UNCHANGED late
    BY <1>5 DEF Serve, AnswerLost
  <2>2. QED
    BY <1>1, <2>1, ReturnType DEF ClientTypeOK
<1>6. ASSUME NEW i \in Instance, NEW k \in Key, Attempt(i, k) PROVE ClientTypeOK'
  <2>1. k \in Own(i) /\ "entry" \in Attempting
    BY <1>6 DEF Attempt, Own, Attempting
  <2>2. mutex' \in [Terminal -> Instance \union {None}]
    BY <1>1, <1>6, CoordinationConstants DEF Attempt, TryAcquire, ClientTypeOK
  <2>3. QED
    BY <1>1, <1>6, <2>1, <2>2 DEF Attempt, ClientTypeOK
<1>7. ASSUME NEW c \in late, ServeLate(c) PROVE ClientTypeOK'
  BY <1>1, <1>7 DEF ServeLate, clientVars, ClientTypeOK
<1>8. ASSUME NEW k \in Key, Place(k) \/ Fill(k) \/ Reject(k) \/ CloseOut(k)
      PROVE  ClientTypeOK'
  BY <1>1, <1>8 DEF Place, Fill, Reject, CloseOut, BrokerMoves, clientVars, ClientTypeOK
<1>9. ASSUME NEW t \in Terminal, Crash(t) PROVE ClientTypeOK'
  <2>1. "off" \notin Attempting
    BY DEF Attempting
  <2>2. late' \subseteq Call
    BY <1>1, <1>9 DEF Crash, ClientTypeOK
  <2>3. /\ wire' \in [Instance -> Call \union {None}]
        /\ seen' \in [Instance -> Exposure \union {None}]
        /\ lastStamp' \in [Instance -> Nat]
        /\ ready' \in [Instance -> BOOLEAN]
        /\ mutex' \in [Terminal -> Instance \union {None}]
        /\ order' = order /\ crashes' \in Nat
    BY <1>1, <1>9 DEF Crash, ClientTypeOK
  <2>4. /\ phase' \in [Instance -> Attempting \union {"off", "idle", "refresh"}]
        /\ key' \in [Instance -> Key \union {None}]
        /\ \A j \in Instance :
             key'[j] \in (IF phase'[j] \in Attempting THEN Own(j) ELSE {None})
    BY <1>1, <1>9, <2>1 DEF Crash, ClientTypeOK
  <2>5. QED
    BY <1>1, <2>2, <2>3, <2>4 DEF ClientTypeOK
<1>10. ASSUME Time \/ UNCHANGED vars PROVE ClientTypeOK'
  BY <1>1, <1>10 DEF Time, vars, clientVars, ClientTypeOK
<1>11. ClientTypeOK'
  BY <1>3, <1>4, <1>5, <1>6, <1>7, <1>8, <1>9, <1>10 DEF CoordinationNext
<1>12. QED
  BY <1>2, <1>11 DEF CoordinationTypeOK, ClientTypeOK

\* Every variable keeps its type, and an instance names a reservation of its
\* own exactly while it is in AxAttemptEntry.
THEOREM CoordinationTypeCorrect == Coordination => []CoordinationTypeOK
<1>1. QED
  BY CoordinationTypeInit, CoordinationTypeStep, PTL DEF Coordination

\* The entry protocol, with its lost calls and crashes, is one user of the
\* ledger: it implements RiskLedger, whose theorems therefore hold of it.
THEOREM FollowsLedger == Coordination => Spec
<1>1. CoordinationTypeOK /\ [CoordinationNext]_vars => [Next]_ledgerVars
  BY LedgerStep DEF CoordinationTypeOK
<1>2. CoordinationInit => Init
  BY DEF CoordinationInit
<1>3. QED
  BY <1>1, <1>2, CoordinationTypeCorrect, PTL DEF Coordination, Spec

-----------------------------------------------------------------------------
(* Mutual exclusion.                                                       *)

\* What makes OneAttemptPerTerminal inductive: whoever is in an attempt holds
\* the mutex of its terminal.
HoldsMutex ==
    \A i \in Instance : phase[i] \in Attempting => mutex[Home[i]] = i

LEMMA HoldsMutexStep ==
    ASSUME CoordinationTypeOK, HoldsMutex, [CoordinationNext]_vars
    PROVE  HoldsMutex'
<1> USE DEF HoldsMutex
<1>1. \A i \in Instance : Home[i] \in Terminal /\ i # None
  BY CoordinationConstants
<1>2. /\ phase \in [Instance -> Attempting \union {"off", "idle", "refresh"}]
      /\ mutex \in [Terminal -> Instance \union {None}]
      /\ Attempting \intersect {"off", "idle", "refresh"} = {}
  BY DEF CoordinationTypeOK, Attempting
<1>3. ASSUME NEW i \in Instance, NEW p, Goto(i, p), phase[i] \in Attempting
      PROVE  HoldsMutex'
  BY <1>2, <1>3 DEF Goto
<1>4. ASSUME NEW i \in Instance, Leave(i) PROVE HoldsMutex'
  <2> SUFFICES ASSUME NEW j \in Instance, phase'[j] \in Attempting
               PROVE  mutex'[Home[j]] = j
    OBVIOUS
  <2>1. j # i /\ phase[j] \in Attempting
    BY <1>2, <1>4 DEF Leave
  <2>2. QED
    BY <1>1, <1>4, <2>1 DEF Leave
<1>5. ASSUME NEW i \in Instance, NEW ok, Return(i, ok) PROVE HoldsMutex'
  <2>1. CASE phase[i] = "off" /\ Started(i)
    BY <1>2, <2>1 DEF Started
  <2>2. CASE UNCHANGED <<phase, mutex>>
    BY <2>2
  <2>3. CASE phase[i] \in DOMAIN Granted /\ Goto(i, Granted[phase[i]])
    BY <1>3, <2>3 DEF Granted, Attempting
  <2>4. CASE Leave(i)
    BY <1>4, <2>4
  <2>5. QED
    BY <1>5, <2>1, <2>2, <2>3, <2>4 DEF Return, EndAttempt
<1>6. ASSUME NEW i \in Instance, Client(i) PROVE HoldsMutex'
  <2>1. CASE Scan(i) \/ Publish(i) \/ Ask(i)
    BY <2>1 DEF Scan, Publish, Ask
  <2>2. CASE ScanFails(i)
    BY <1>4, <2>2 DEF ScanFails, EndAttempt
  <2>3. CASE Send(i) \/ IntentFails(i) \/ Confirmed(i) \/ Rejected(i) \/ Unconfirmed(i)
    BY <1>3, <2>3 DEF Send, IntentFails, Confirmed, Rejected, Unconfirmed, Attempting
  <2>4. CASE TimeOut(i)
    BY <1>5, <2>4 DEF TimeOut
  <2>5. QED
    BY <1>6, <2>1, <2>2, <2>3, <2>4 DEF Client
<1>7. ASSUME NEW i \in Instance, Refresh(i) PROVE HoldsMutex'
  BY <1>2, <1>7 DEF Refresh, Rested, Goto
<1>8. ASSUME NEW i \in Instance, Serve(i) \/ AnswerLost(i) PROVE HoldsMutex'
  BY <1>5, <1>8 DEF Serve, AnswerLost
<1>9. ASSUME NEW i \in Instance, NEW k \in Key, Attempt(i, k) PROVE HoldsMutex'
  <2> SUFFICES ASSUME NEW j \in Instance, phase'[j] \in Attempting
               PROVE  mutex'[Home[j]] = j
    OBVIOUS
  <2>1. CASE j = i
    BY <1>1, <1>2, <1>9, <2>1 DEF Attempt, TryAcquire
  <2>2. CASE j # i
    <3>1. phase[j] \in Attempting
      BY <1>2, <1>9, <2>2 DEF Attempt
    <3>2. mutex[Home[j]] = j /\ mutex[Home[i]] = None
      BY <1>9, <3>1 DEF Attempt, TryAcquire
    <3>3. QED
      BY <1>1, <1>2, <1>9, <3>2 DEF Attempt, TryAcquire
  <2>3. QED
    BY <2>1, <2>2
<1>10. ASSUME NEW t \in Terminal, Crash(t) PROVE HoldsMutex'
  <2> SUFFICES ASSUME NEW j \in Instance, phase'[j] \in Attempting
               PROVE  mutex'[Home[j]] = j
    OBVIOUS
  <2>1. Home[j] # t /\ phase[j] \in Attempting
    BY <1>2, <1>10 DEF Crash
  <2>2. QED
    BY <1>1, <1>2, <1>10, <2>1 DEF Crash
<1>11. CASE \/ \E c \in late : ServeLate(c)
            \/ \E k \in Key : Place(k) \/ Fill(k) \/ Reject(k) \/ CloseOut(k)
            \/ Time \/ UNCHANGED vars
  BY <1>11 DEF ServeLate, Place, Fill, Reject, CloseOut, BrokerMoves, Time, vars, clientVars
<1>12. QED
  BY <1>6, <1>7, <1>8, <1>9, <1>10, <1>11 DEF CoordinationNext

\* Two charts of one terminal are never between their last account scan and
\* the end of their attempts at the same time, however many charts there are
\* and wherever they fail (AccountRiskCalculator.mqh:444, mq5:1317-1323).
THEOREM MutualExclusion == Coordination => []OneAttemptPerTerminal
<1>1. CoordinationInit => HoldsMutex
  BY DEF CoordinationInit, HoldsMutex, Attempting
<1>2. HoldsMutex => OneAttemptPerTerminal
  BY DEF HoldsMutex, OneAttemptPerTerminal
<1>3. CoordinationTypeOK /\ HoldsMutex /\ [CoordinationNext]_vars => HoldsMutex'
  BY HoldsMutexStep
<1>4. QED
  BY <1>1, <1>2, <1>3, CoordinationTypeCorrect, PTL DEF Coordination

-----------------------------------------------------------------------------
(* Orders in flight.  A reservation outlives the flight of its order when  *)
(* flights are shorter than reservations: the ledger then settles nothing  *)
(* that could still be filled, however wrong the clocks of the charts are, *)
(* and whatever is posted late, lost, or served after its sender has gone. *)

\* The times: orders are decided Skew before their reservations expire, and
\* busy_timeout and the tolerated skew together are shorter than the TTL (5 s,
\* 5 s and 60 s as shipped, risk-ledger.js:42, 69, 80).
Timely == Prompt /\ BusyWait + Skew < TTL

\* No call can harm an order in flight: one that closes a reservation was posted
\* when its order was decided.
CallSafe(c) ==
    /\ c.op = "reserve" => order[c.key] # "none"
    /\ Closing(c) =>
         /\ order[c.key] \notin {"none"} \union Undecided
         /\ \A i \in Instance : key[i] = c.key => phase[i] \in {"release", "settle"}

\* Where the order of an attempt is at each of its stages.
Stage(i) ==
    /\ phase[i] = "entry" => order[key[i]] = "none"
    /\ phase[i] = "reserve" =>
         /\ order[key[i]] \in {"none", "asked"}
         /\ wire[i] # None =>
              /\ wire[i].op = "reserve" /\ wire[i].key = key[i]
              /\ order[key[i]] = "asked"
    /\ phase[i] = "send" => order[key[i]] = "asked"
    /\ phase[i] = "sending" => order[key[i]] \notin {"none", "asked"}
    /\ phase[i] \in {"release", "settle"} =>
         order[key[i]] \notin {"none"} \union Undecided

FlightsBacked ==
    \A k \in Key : InFlight(k) => k \in Active /\ reservations[k].expires > clock + Skew

Backing ==
    /\ FlightsBacked
    /\ \A c \in Calls : CallSafe(c)
    /\ \A i \in Instance : Stage(i)

\* Between attempts nobody asks, sends or starts anything: orders are only
\* decided, calls only get fewer, and rows of orders in flight stay.
OnlyDecides ==
    \A k \in Key :
        /\ order[k] \in {"none", "asked"} \/ order'[k] \in {"none", "asked"}
             => order'[k] = order[k]
        /\ order[k] \notin Undecided => order'[k] \notin Undecided
        /\ order'[k] = "filled" => order[k] \in Undecided \union {"filled"}

FlightRowsStay == \A k \in Key : InFlight(k) => reservations'[k] = reservations[k]

\* An instance stays where it is, or leaves.
StaysOrLeaves ==
    \A i \in Instance :
        \/ phase'[i] = phase[i] /\ key'[i] = key[i] /\ wire'[i] \in {wire[i], None}
        \/ phase'[i] \notin Attempting /\ key'[i] = None

LEMMA CallsTyped ==
    ASSUME CoordinationTypeOK, NEW c \in Calls
    PROVE  c \in Call
  BY DEF Calls, CoordinationTypeOK

LEMMA OwnKeys ==
    ASSUME CoordinationTypeOK
    PROVE  /\ \A i \in Instance : phase[i] \in Attempting =>
                key[i] \in Key /\ Owner[key[i]] = i
           /\ \A i \in Instance : phase[i] \notin Attempting => key[i] = None
           /\ \A k \in Key : k # None
  BY CoordinationConstants DEF CoordinationTypeOK, Own

LEMMA QuietBacking ==
    ASSUME CoordinationTypeOK, Backing, OnlyDecides, FlightRowsStay, StaysOrLeaves,
           clock' = clock, Calls' \subseteq Calls
    PROVE  Backing'
<1>1. ASSUME NEW k \in Key, InFlight(k)' PROVE InFlight(k)
  <2>1. CASE order'[k] \in Undecided
    BY <2>1 DEF OnlyDecides, InFlight
  <2>2. ASSUME NEW i \in Instance, phase'[i] = "send", key'[i] = k PROVE InFlight(k)
    BY <2>2 DEF StaysOrLeaves, InFlight, Attempting
  <2>3. QED
    BY <1>1, <2>1, <2>2 DEF InFlight
<1>2. FlightsBacked'
  BY <1>1 DEF Backing, FlightsBacked, FlightRowsStay, Active, ActiveIn
<1>3. ASSUME NEW c \in Calls' PROVE CallSafe(c)'
  <2>1. c \in Call /\ CallSafe(c)
    BY <1>3, CallsTyped DEF Backing
  <2>2. c.op \in {"reserve", "release", "settle"} => c.key \in Key
    BY <2>1 DEF Call
  <2>3. ASSUME Closing(c), NEW i \in Instance, key'[i] = c.key
        PROVE  phase'[i] \in {"release", "settle"}
    BY <2>1, <2>2, <2>3, OwnKeys DEF CallSafe, Closing, StaysOrLeaves
  <2>4. c.op = "reserve" => order'[c.key] # "none"
    BY <2>1, <2>2 DEF CallSafe, OnlyDecides
  <2>5. Closing(c) => order'[c.key] \notin {"none"} \union Undecided
    BY <2>1, <2>2 DEF CallSafe, Closing, OnlyDecides
  <2>6. QED
    BY <2>1, <2>3, <2>4, <2>5 DEF CallSafe
<1>4. ASSUME NEW i \in Instance PROVE Stage(i)'
  <2>1. CASE phase'[i] = phase[i] /\ key'[i] = key[i] /\ wire'[i] \in {wire[i], None}
    <3>1. Stage(i)
      BY DEF Backing
    <3>2. CASE phase[i] \in Attempting
      <4>1. key[i] \in Key
        BY <3>2, OwnKeys
      <4>2. QED
        BY <2>1, <3>1, <4>1 DEF Stage, OnlyDecides
    <3>3. CASE phase[i] \notin Attempting
      BY <2>1, <3>3 DEF Stage, Attempting
    <3>4. QED
      BY <3>2, <3>3
  <2>2. CASE phase'[i] \notin Attempting
    BY <2>2 DEF Stage, Attempting
  <2>3. QED
    BY <2>1, <2>2 DEF StaysOrLeaves
<1>5. QED
  BY <1>2, <1>3, <1>4 DEF Backing

\* A call that is served leaves the rows of orders in flight alone.
LEMMA PerformKeepsFlights ==
    ASSUME CoordinationTypeOK, Backing, NEW c \in Calls, NEW now \in Captured,
           Perform(now, c)
    PROVE  FlightRowsStay /\ clock' = clock
<1>1. c \in Call /\ CallSafe(c)
  BY CallsTyped DEF Backing
<1>2. \A k \in Key : InFlight(k) => /\ reservations[k] # None
                                    /\ reservations[k].expires > clock + Skew
  BY DEF Backing, FlightsBacked, Active, ActiveIn
<1>3. clock \in Nat /\ reservations \in [Key -> Reservation \union {None}]
  BY DEF CoordinationTypeOK, TypeOK
<1>4. CASE c.op = "reconcile" /\ Reconcile(now, c.snap)
  <2>1. c.snap \in Snapshot /\ c.snap # None
    BY <1>1, <1>4, LedgerConstants DEF Call
  <2>2. c.snap.at <= clock + Skew /\ c.snap.at \in Int /\ Skew \in Nat
    BY <1>3, <1>4, <2>1, LedgerConstants
       DEF Reconcile, MayReconcile, Fresh, Captured, Snapshot
  <2>3. ASSUME NEW k \in Key, InFlight(k) PROVE ~ (reservations[k].expires <= c.snap.at)
    <3>1. reservations[k] \in Reservation
      BY <1>2, <1>3, <2>3
    <3>2. reservations[k].expires \in Nat
      BY <3>1 DEF Reservation
    <3>3. QED
      BY <1>2, <1>3, <2>2, <2>3, <3>2
  <2>4. QED
    BY <1>4, <2>3 DEF Reconcile, Close, FlightRowsStay
<1>5. CASE c.op = "reserve" /\ Reserve(now, c.from, c.key, Amount[c.key])
  <2>1. c.key \in Key /\ reservations[c.key] = None
    BY <1>1, <1>5 DEF Call, Reserve, MayReserve
  <2>2. \A k \in Key : InFlight(k) => k # c.key
    BY <1>2, <2>1
  <2>3. QED
    BY <1>3, <1>5, <2>1, <2>2 DEF Reserve, FlightRowsStay
<1>6. CASE Closing(c) /\ (Release(now, c.from, c.key, c.snap)
                            \/ Settle(now, c.from, c.key, c.snap))
  <2>1. ~ InFlight(c.key)
    BY <1>1, <1>6 DEF CallSafe, InFlight
  <2>2. \A k \in Key : InFlight(k) => k # c.key
    BY <2>1
  <2>3. QED
    BY <1>6, <2>2 DEF Release, Settle, Close, FlightRowsStay
<1>7. QED
  BY <1>4, <1>5, <1>6 DEF Perform, Closing

\* An answer, or none, other than a grant: the attempt ends or nothing happens.
LEMMA ReturnDecides ==
    ASSUME CoordinationTypeOK, NEW i \in Instance, NEW ok \in BOOLEAN, Return(i, ok)
    PROVE  OnlyDecides
<1>1. order \in [Key -> {"none", "asked", "sent", "placed", "filled", "rejected", "closed"}]
  BY DEF CoordinationTypeOK
<1>2. CASE UNCHANGED order
  BY <1>2 DEF OnlyDecides
<1>3. CASE DefensiveClose(i)
  BY <1>1, <1>3 DEF DefensiveClose, Own, OnlyDecides, Undecided
<1>4. QED
  BY <1>2, <1>3 DEF Return, Started, EndAttempt

LEMMA ReturnBacking ==
    ASSUME CoordinationTypeOK, Backing, NEW i \in Instance, NEW ok \in BOOLEAN,
           Return(i, ok), wire[i] # None, FlightRowsStay, clock' = clock,
           late' \subseteq late \union {wire[i]},
           ok /\ phase[i] = "reserve" =>
             key[i] \in Active' /\ reservations'[key[i]].expires > clock + Skew
    PROVE  Backing'
<1>1. OnlyDecides
  BY ReturnDecides
<1>2. /\ wire \in [Instance -> Call \union {None}]
      /\ phase \in [Instance -> Attempting \union {"off", "idle", "refresh"}]
      /\ key \in [Instance -> Key \union {None}]
      /\ wire' = [wire EXCEPT ![i] = None]
  BY DEF CoordinationTypeOK, Return
<1>3. Calls' \subseteq Calls
  BY <1>2 DEF Calls
<1>4. CASE StaysOrLeaves
  BY <1>1, <1>3, <1>4, QuietBacking
<1>5. CASE phase[i] \in DOMAIN Granted /\ Good(i, ok) /\ Goto(i, Granted[phase[i]])
           /\ UNCHANGED order
  <2> DEFINE p == Granted[phase[i]]
  <2>1. /\ phase[i] \in {"entry", "reserve"} /\ phase[i] \in Attempting
        /\ phase' = [phase EXCEPT ![i] = p] /\ key' = key /\ order' = order
        /\ p = IF phase[i] = "entry" THEN "reserve" ELSE "send"
    BY <1>5 DEF Granted, Goto, Attempting
  <2>2. key[i] \in Key /\ \A j \in Instance : key[j] = key[i] => j = i
    BY <2>1, OwnKeys
  <2>3. Stage(i) /\ ok
    BY <1>5 DEF Backing, Good
  <2>4. phase[i] = "reserve" => order[key[i]] = "asked"
    BY <2>3 DEF Stage
  <2>5. FlightsBacked'
    <3> SUFFICES ASSUME NEW k \in Key, InFlight(k)'
                 PROVE  k \in Active' /\ reservations'[k].expires > clock + Skew
      BY DEF FlightsBacked
    <3>1. CASE InFlight(k)
      BY <3>1 DEF Backing, FlightsBacked, FlightRowsStay, Active, ActiveIn
    <3>2. CASE ~ InFlight(k)
      <4>1. order'[k] = order[k]
        BY <2>1
      <4>2. PICK j \in Instance : phase'[j] = "send" /\ key'[j] = k
        BY <3>2, <4>1 DEF InFlight
      <4>3. j = i /\ k = key[i] /\ phase[i] = "reserve"
        BY <1>2, <2>1, <3>2, <4>2 DEF InFlight
      <4>4. QED
        BY <2>3, <4>3
    <3>3. QED
      BY <3>1, <3>2
  <2>6. ASSUME NEW c \in Calls' PROVE CallSafe(c)'
    <3>1. c \in Call /\ CallSafe(c)
      BY <1>3, <2>6, CallsTyped DEF Backing
    <3>2. Closing(c) => c.key # key[i]
      BY <2>1, <3>1 DEF CallSafe
    <3>3. \A j \in Instance : Closing(c) /\ key'[j] = c.key =>
             phase'[j] \in {"release", "settle"}
      BY <1>2, <2>1, <3>1, <3>2 DEF CallSafe
    <3>4. QED
      BY <2>1, <3>1, <3>3 DEF CallSafe
  <2>7. ASSUME NEW j \in Instance PROVE Stage(j)'
    <3>1. Stage(j)
      BY DEF Backing
    <3>2. CASE j = i
      BY <1>2, <2>1, <2>3, <2>4, <3>2 DEF Stage
    <3>3. CASE j # i
      BY <1>2, <2>1, <3>1, <3>3 DEF Stage
    <3>4. QED
      BY <3>2, <3>3
  <2>8. QED
    BY <2>5, <2>6, <2>7 DEF Backing
<1>6. CASE \/ UNCHANGED <<phase, key, ready, mutex, order>>
           \/ Started(i) /\ phase[i] = "off"
           \/ Leave(i)
  <2>1. "idle" \notin Attempting /\ "off" \notin Attempting
    BY DEF Attempting
  <2>2. \A j \in Instance : wire'[j] \in {wire[j], None}
    BY <1>2
  <2>3. phase[i] = "off" => key[i] = None
    BY <2>1, OwnKeys
  <2>4. ASSUME NEW j \in Instance
        PROVE  \/ phase'[j] = phase[j] /\ key'[j] = key[j]
               \/ phase'[j] \notin Attempting /\ key'[j] = None
    <3>1. CASE UNCHANGED <<phase, key, ready, mutex, order>>
      BY <3>1
    <3>2. CASE Started(i) /\ phase[i] = "off"
      BY <1>2, <2>1, <2>3, <3>2 DEF Started
    <3>3. CASE Leave(i)
      BY <1>2, <2>1, <3>3 DEF Leave
    <3>4. QED
      BY <1>6, <3>1, <3>2, <3>3
  <2>5. StaysOrLeaves
    BY <2>2, <2>4 DEF StaysOrLeaves
  <2>6. QED
    BY <1>4, <2>5
<1>7. QED
  BY <1>5, <1>6 DEF Return, EndAttempt

\* The ledger serves a call, its answer arrives or is lost.
LEMMA ServeBacking ==
    ASSUME CoordinationTypeOK, Backing, Timely, NEW i \in Instance,
           Serve(i) \/ AnswerLost(i)
    PROVE  Backing'
<1>1. /\ wire[i] # None /\ wire[i] \in Calls /\ late' = late
      /\ clock \in Nat /\ reservations \in [Key -> Reservation \union {None}]
  BY DEF Serve, AnswerLost, Calls, CoordinationTypeOK, TypeOK
<1>2. PICK now \in Captured, ok \in BOOLEAN :
        /\ Return(i, ok)
        /\ Perform(now, wire[i]) \/ (UNCHANGED ledgerVars /\ ~ ok)
  BY DEF Serve, AnswerLost
<1>3. FlightRowsStay /\ clock' = clock
  BY <1>1, <1>2, PerformKeepsFlights DEF ledgerVars, FlightRowsStay
<1>4. ASSUME ok, phase[i] = "reserve"
      PROVE  key[i] \in Active' /\ reservations'[key[i]].expires > clock + Skew
  <2>1. key[i] \in Key /\ wire[i].op = "reserve" /\ wire[i].key = key[i]
    BY <1>1, <1>4, OwnKeys DEF Backing, Stage, Attempting
  <2>2. Reserve(now, wire[i].from, key[i], Amount[key[i]])
    BY <1>2, <1>4, <2>1 DEF Perform
  <2>3. reservations'[key[i]] = [owner |-> wire[i].from, risk |-> Amount[key[i]],
                                 status |-> "active", created |-> now,
                                 expires |-> now + TTL]
    BY <1>1, <2>1, <2>2 DEF Reserve
  <2>4. /\ reservations'[key[i]].status = "active"
        /\ reservations'[key[i]].expires = now + TTL
    BY <2>3
  <2>5. reservations'[key[i]] # None
    <3>1. /\ Amount[key[i]] \in RiskAmount /\ wire[i].from \in Instance
          /\ now \in Nat /\ now + TTL \in Nat
      BY <1>1, <2>1, CallsTyped, CoordinationConstants, LedgerConstants DEF Call, Captured
    <3>2. reservations'[key[i]] \in Reservation
      BY <2>3, <3>1 DEF Reservation
    <3>3. QED
      BY <3>2, LedgerConstants
  <2>6. now + TTL > clock + Skew
    BY <1>1, LedgerConstants DEF Captured, Timely
  <2>7. QED
    BY <2>1, <2>4, <2>5, <2>6 DEF Active, ActiveIn
<1>5. QED
  BY <1>1, <1>2, <1>3, <1>4, ReturnBacking

\* The actions that neither ask for anything nor send anything.
LEMMA QuietActions ==
    ASSUME CoordinationTypeOK, Backing, Timely,
           \/ \E i \in Instance : Scan(i) \/ ScanFails(i) \/ TimeOut(i) \/ Refresh(i)
           \/ \E c \in late : ServeLate(c)
           \/ \E k \in Key : Place(k) \/ Fill(k) \/ Reject(k) \/ CloseOut(k)
           \/ \E t \in Terminal : Crash(t)
           \/ UNCHANGED vars
    PROVE  Backing'
<1>1. /\ wire \in [Instance -> Call \union {None}]
      /\ phase \in [Instance -> Attempting \union {"off", "idle", "refresh"}]
      /\ key \in [Instance -> Key \union {None}]
      /\ order \in [Key -> {"none", "asked", "sent", "placed", "filled",
                            "rejected", "closed"}]
      /\ "idle" \notin Attempting /\ "off" \notin Attempting /\ "refresh" \notin Attempting
  BY DEF CoordinationTypeOK, Attempting
<1>2. ASSUME NEW i \in Instance, Scan(i) PROVE Backing'
  BY <1>2, QuietBacking
     DEF Scan, Calls, OnlyDecides, FlightRowsStay, StaysOrLeaves, ledgerVars
<1>3. ASSUME NEW i \in Instance, ScanFails(i) PROVE Backing'
  <2>1. OnlyDecides
    BY <1>1, <1>3 DEF ScanFails, EndAttempt, DefensiveClose, Own, OnlyDecides, Undecided
  <2>2. StaysOrLeaves
    BY <1>1, <1>3 DEF ScanFails, EndAttempt, Leave, StaysOrLeaves
  <2>3. Calls' = Calls /\ FlightRowsStay /\ clock' = clock
    BY <1>3 DEF ScanFails, Calls, FlightRowsStay, ledgerVars
  <2>4. QED
    BY <2>1, <2>2, <2>3, QuietBacking
<1>4. ASSUME NEW i \in Instance, TimeOut(i) PROVE Backing'
  <2>1. FlightRowsStay /\ clock' = clock /\ wire[i] # None /\ Return(i, FALSE)
    BY <1>4 DEF TimeOut, ledgerVars, FlightRowsStay
  <2>2. late' \subseteq late \union {wire[i]}
    BY <1>4 DEF TimeOut
  <2>3. QED
    BY <2>1, <2>2, ReturnBacking
<1>5. ASSUME NEW i \in Instance, Refresh(i) PROVE Backing'
  <2>1. key[i] = None
    BY <1>1, <1>5, OwnKeys DEF Refresh, Rested
  <2>2. StaysOrLeaves
    BY <1>1, <1>5, <2>1 DEF Refresh, Goto, StaysOrLeaves
  <2>3. /\ Calls' = Calls /\ FlightRowsStay /\ clock' = clock /\ OnlyDecides
    BY <1>5 DEF Refresh, Calls, FlightRowsStay, ledgerVars, OnlyDecides
  <2>4. QED
    BY <2>2, <2>3, QuietBacking
<1>6. ASSUME NEW c \in late, ServeLate(c) PROVE Backing'
  <2>1. c \in Calls
    BY DEF Calls
  <2>2. FlightRowsStay /\ clock' = clock
    BY <1>6, <2>1, PerformKeepsFlights DEF ServeLate, ledgerVars, FlightRowsStay
  <2>3. Calls' \subseteq Calls /\ OnlyDecides /\ StaysOrLeaves
    BY <1>6 DEF ServeLate, Calls, OnlyDecides, StaysOrLeaves, clientVars
  <2>4. QED
    BY <2>2, <2>3, QuietBacking
<1>7. ASSUME NEW k \in Key, Place(k) \/ Fill(k) \/ Reject(k) \/ CloseOut(k)
      PROVE  Backing'
  <2>1. OnlyDecides
    BY <1>1, <1>7
       DEF Place, Fill, Reject, CloseOut, BrokerMoves, OnlyDecides, Undecided
  <2>2. /\ Calls' = Calls /\ FlightRowsStay /\ clock' = clock /\ StaysOrLeaves
    BY <1>7 DEF Place, Fill, Reject, CloseOut, BrokerMoves, Calls, FlightRowsStay,
                ledgerVars, clientVars, StaysOrLeaves
  <2>3. QED
    BY <2>1, <2>2, QuietBacking
<1>8. ASSUME NEW t \in Terminal, Crash(t) PROVE Backing'
  <2> DEFINE gone == {i \in Instance : Home[i] = t}
  <2>1. \A i \in Instance :
          /\ phase'[i] = IF i \in gone THEN "off" ELSE phase[i]
          /\ key'[i] = IF i \in gone THEN None ELSE key[i]
          /\ wire'[i] = IF i \in gone THEN None ELSE wire[i]
    BY <1>8 DEF Crash
  <2>2. StaysOrLeaves
    BY <1>1, <2>1 DEF StaysOrLeaves
  <2>3. Calls' \subseteq Calls
    <3>1. PICK lost \in SUBSET {wire[i] : i \in {j \in gone : wire[j] # None}} :
            late' = late \union lost
      BY <1>8 DEF Crash
    <3>2. lost \subseteq Calls
      BY <3>1 DEF Calls
    <3>3. QED
      BY <2>1, <3>1, <3>2 DEF Calls
  <2>4. FlightRowsStay /\ clock' = clock /\ OnlyDecides
    BY <1>8 DEF Crash, FlightRowsStay, ledgerVars, OnlyDecides
  <2>5. QED
    BY <2>2, <2>3, <2>4, QuietBacking
<1>9. ASSUME UNCHANGED vars PROVE Backing'
  BY <1>9, QuietBacking
     DEF vars, clientVars, Calls, OnlyDecides, FlightRowsStay, StaysOrLeaves, ledgerVars
<1>10. QED
  BY <1>2, <1>3, <1>4, <1>5, <1>6, <1>7, <1>8, <1>9

\* The stamp of a snapshot is as near the ledger's time as the clocks are.
LEMMA StampIsNear ==
    ASSUME CoordinationTypeOK, NEW i \in Instance, Publish(i)
    PROVE  \E at \in 1 .. Horizon + Skew :
             /\ wire' = [wire EXCEPT ![i] = Posted(i, at)]
             /\ Posted(i, at) \in Call /\ Posted(i, at).snap \in Snapshot
             /\ at <= clock + ClockError + Drift
<1>1. PICK reading \in Readings, at \in 1 .. Horizon + Skew :
        /\ at = NextSnapshotTime(i, reading) /\ at <= reading + Drift
        /\ lastStamp' = [lastStamp EXCEPT ![i] = at]
        /\ wire' = [wire EXCEPT ![i] = Posted(i, at)]
        /\ Posted(i, at).snap \in Snapshot /\ Posted(i, at) \in Call
  BY PublishedCall
<1>2. clock \in Nat /\ ClockError \in Nat /\ Drift \in Nat /\ Horizon \in Nat /\ Skew \in Nat
  BY CoordinationConstants, LedgerConstants DEF CoordinationTypeOK, TypeOK
<1>3. reading \in Int /\ reading <= clock + ClockError /\ at \in Int
  BY <1>2 DEF Readings
<1>4. at <= clock + ClockError + Drift
  BY <1>1, <1>2, <1>3
<1>5. QED
  BY <1>1, <1>4

LEMMA PublishBacking ==
    ASSUME CoordinationTypeOK, Backing, NEW i \in Instance, Publish(i)
    PROVE  Backing'
<1>0. PICK at \in 1 .. Horizon + Skew, c \in Call :
        c = Posted(i, at) /\ wire' = [wire EXCEPT ![i] = c]
  BY StampIsNear
<1>1. /\ wire' = [wire EXCEPT ![i] = c] /\ c # None
      /\ wire \in [Instance -> Call \union {None}]
      /\ UNCHANGED <<ledgerVars, phase, key, mutex, late, order>>
  BY <1>0, CoordinationConstants DEF Publish, CoordinationTypeOK
<1>2. /\ c.op = Op[phase[i]] /\ c.key = key[i]
      /\ phase[i] \in {"off", "refresh", "entry", "release", "settle"}
  BY <1>0 DEF Posted, Publish
<1>3. FlightsBacked'
  BY <1>1 DEF ledgerVars, Backing, FlightsBacked, InFlight, Active, ActiveIn
<1>4. CallSafe(c)'
  <2>1. c.op \in {"reconcile", "release", "settle"}
    BY <1>2 DEF Op
  <2>2. CASE ~ Closing(c)
    BY <1>1, <1>2, <2>1, <2>2 DEF CallSafe, Closing, ledgerVars
  <2>3. CASE Closing(c)
    <3>1. phase[i] \in {"release", "settle"}
      BY <1>2, <2>3 DEF Op, Closing
    <3>2. Stage(i) /\ key[i] \in Key /\ \A j \in Instance : key[j] = key[i] => j = i
      BY <3>1, OwnKeys DEF Backing, Attempting
    <3>3. QED
      BY <1>1, <1>2, <2>1, <2>3, <3>1, <3>2 DEF CallSafe, Stage, ledgerVars, Closing
  <2>4. QED
    BY <2>2, <2>3
<1>5. Calls' \subseteq Calls \union {c}
  BY <1>1 DEF Calls
<1>6. \A d \in Calls : CallSafe(d)'
  BY <1>1 DEF Backing, CallSafe, ledgerVars
<1>7. \A j \in Instance : Stage(j)'
  BY <1>1, <1>2 DEF Backing, Stage
<1>8. QED
  BY <1>3, <1>4, <1>5, <1>6, <1>7 DEF Backing

\* The reservation is asked for.
LEMMA AskBacking ==
    ASSUME CoordinationTypeOK, Backing, NEW i \in Instance, Ask(i)
    PROVE  Backing'
<1>0. PICK c : /\ c = [op |-> "reserve", from |-> i, key |-> key[i], snap |-> None]
              /\ wire' = [wire EXCEPT ![i] = c]
  BY DEF Ask
<1>1. /\ wire' = [wire EXCEPT ![i] = c]
      /\ c.op = "reserve" /\ c.key = key[i] /\ c.snap = None
      /\ order' = [order EXCEPT ![key[i]] = "asked"]
      /\ UNCHANGED <<ledgerVars, phase, key, mutex, late>>
      /\ phase[i] = "reserve"
      /\ wire \in [Instance -> Call \union {None}]
      /\ order \in [Key -> {"none", "asked", "sent", "placed", "filled",
                            "rejected", "closed"}]
  BY <1>0 DEF Ask, CoordinationTypeOK
<1>2. /\ key[i] \in Key /\ \A j \in Instance : key[j] = key[i] => j = i
      /\ Stage(i) /\ order[key[i]] \in {"none", "asked"}
  BY <1>1, OwnKeys DEF Backing, Stage, Attempting
<1>3. FlightsBacked'
  <2>1. \A k \in Key : InFlight(k)' => InFlight(k)
    BY <1>1, <1>2 DEF InFlight, Undecided
  <2>2. QED
    BY <1>1, <2>1 DEF ledgerVars, Backing, FlightsBacked, Active, ActiveIn
<1>4. CallSafe(c)'
  BY <1>1, <1>2 DEF CallSafe, Closing
<1>5. ASSUME NEW d \in Calls PROVE CallSafe(d)'
  <2>1. d \in Call /\ CallSafe(d)
    BY <1>5, CallsTyped DEF Backing
  <2>2. d.op \in {"reserve", "release", "settle"} => d.key \in Key
    BY <2>1 DEF Call
  <2>3. Closing(d) => d.key # key[i]
    BY <1>1, <2>1 DEF CallSafe
  <2>4. QED
    BY <1>1, <1>2, <2>1, <2>2, <2>3 DEF CallSafe, ledgerVars, Closing
<1>6. Calls' \subseteq Calls \union {c}
  BY <1>1 DEF Calls
<1>7. ASSUME NEW j \in Instance PROVE Stage(j)'
  <2>1. CASE j = i
    BY <1>1, <1>2, <2>1 DEF Stage
  <2>2. CASE j # i
    <3>1. Stage(j) /\ key'[j] = key[j] /\ phase'[j] = phase[j] /\ wire'[j] = wire[j]
      BY <1>1, <2>2 DEF Backing
    <3>2. phase[j] \in Attempting => key[j] \in Key /\ key[j] # key[i]
      BY <1>2, <2>2, OwnKeys
    <3>3. QED
      BY <1>1, <3>1, <3>2 DEF Stage, Attempting
  <2>3. QED
    BY <2>1, <2>2
<1>8. QED
  BY <1>3, <1>4, <1>5, <1>6, <1>7 DEF Backing

\* The order is sent: it is in flight already, and stays so.
LEMMA SendBacking ==
    ASSUME CoordinationTypeOK, Backing, NEW i \in Instance, Send(i)
    PROVE  Backing'
<1>1. /\ phase' = [phase EXCEPT ![i] = "sending"] /\ phase[i] = "send"
      /\ order' = [order EXCEPT ![key[i]] = "sent"]
      /\ UNCHANGED <<ledgerVars, key, wire, late>>
      /\ phase \in [Instance -> Attempting \union {"off", "idle", "refresh"}]
      /\ order \in [Key -> {"none", "asked", "sent", "placed", "filled",
                            "rejected", "closed"}]
  BY DEF Send, Goto, CoordinationTypeOK
<1>2. key[i] \in Key /\ \A j \in Instance : key[j] = key[i] => j = i
  BY <1>1, OwnKeys DEF Attempting
<1>3. FlightsBacked'
  <2>1. \A k \in Key : InFlight(k)' => InFlight(k)
    BY <1>1, <1>2 DEF InFlight, Undecided
  <2>2. QED
    BY <1>1, <2>1 DEF ledgerVars, Backing, FlightsBacked, Active, ActiveIn
<1>4. ASSUME NEW d \in Calls PROVE CallSafe(d)'
  <2>1. d \in Call /\ CallSafe(d)
    BY <1>4, CallsTyped DEF Backing
  <2>2. d.op \in {"reserve", "release", "settle"} => d.key \in Key
    BY <2>1 DEF Call
  <2>3. Closing(d) => d.key # key[i]
    BY <1>1, <2>1 DEF CallSafe
  <2>4. ASSUME Closing(d), NEW j \in Instance, key'[j] = d.key
        PROVE  phase'[j] \in {"release", "settle"}
    BY <1>1, <1>2, <2>1, <2>3, <2>4 DEF CallSafe
  <2>5. /\ d.op = "reserve" => order'[d.key] # "none"
        /\ Closing(d) => order'[d.key] \notin {"none"} \union Undecided
    BY <1>1, <1>2, <2>1, <2>2, <2>3 DEF CallSafe, Closing
  <2>6. QED
    BY <1>1, <2>1, <2>4, <2>5 DEF CallSafe, ledgerVars
<1>5. Calls' = Calls
  BY <1>1 DEF Calls
<1>6. ASSUME NEW j \in Instance PROVE Stage(j)'
  <2>1. CASE j = i
    BY <1>1, <1>2, <2>1 DEF Stage
  <2>2. CASE j # i
    <3>1. Stage(j) /\ key'[j] = key[j] /\ phase'[j] = phase[j] /\ wire'[j] = wire[j]
      BY <1>1, <2>2 DEF Backing
    <3>2. phase[j] \in Attempting => key[j] \in Key /\ key[j] # key[i]
      BY <1>2, <2>2, OwnKeys
    <3>3. QED
      BY <1>1, <3>1, <3>2 DEF Stage, Attempting
  <2>3. QED
    BY <2>1, <2>2
<1>7. QED
  BY <1>3, <1>4, <1>5, <1>6 DEF Backing

\* The outcome of the order is known: it is decided, for Unconfirmed because
\* every order is decided before the EA stops waiting for it.
LEMMA OutcomeBacking ==
    ASSUME CoordinationTypeOK, Backing, Timely, NEW i \in Instance,
           IntentFails(i) \/ Confirmed(i) \/ Rejected(i) \/ Unconfirmed(i)
    PROVE  Backing'
<1>1. /\ \E p \in {"release", "settle"} : phase' = [phase EXCEPT ![i] = p]
      /\ phase[i] \in {"send", "sending"}
      /\ UNCHANGED <<ledgerVars, key, wire, late, order>>
      /\ phase \in [Instance -> Attempting \union {"off", "idle", "refresh"}]
  BY DEF IntentFails, Confirmed, Rejected, Unconfirmed, Goto, CoordinationTypeOK
<1>2. order[key[i]] \notin {"none"} \union Undecided
  BY DEF Timely, Backing, Stage, IntentFails, Confirmed, Rejected, Unconfirmed, Undecided
<1>3. FlightsBacked'
  <2>1. \A k \in Key : InFlight(k)' => InFlight(k)
    BY <1>1 DEF InFlight
  <2>2. QED
    BY <1>1, <2>1 DEF ledgerVars, Backing, FlightsBacked, Active, ActiveIn
<1>4. ASSUME NEW d \in Calls PROVE CallSafe(d)'
  <2>1. CallSafe(d)
    BY <1>4 DEF Backing
  <2>2. QED
    BY <1>1, <2>1 DEF CallSafe, ledgerVars
<1>5. Calls' = Calls
  BY <1>1 DEF Calls
<1>6. ASSUME NEW j \in Instance PROVE Stage(j)'
  <2>1. CASE j = i
    BY <1>1, <1>2, <2>1 DEF Stage
  <2>2. CASE j # i
    <3>1. Stage(j) /\ key'[j] = key[j] /\ phase'[j] = phase[j] /\ wire'[j] = wire[j]
      BY <1>1, <2>2 DEF Backing
    <3>2. QED
      BY <1>1, <3>1 DEF Stage
  <2>3. QED
    BY <2>1, <2>2
<1>7. QED
  BY <1>3, <1>4, <1>5, <1>6 DEF Backing

\* An attempt begins under a key no call and no order ever used.
LEMMA AttemptBacking ==
    ASSUME CoordinationTypeOK, Backing, NEW i \in Instance, NEW k \in Key, Attempt(i, k)
    PROVE  Backing'
<1>1. /\ phase' = [phase EXCEPT ![i] = "entry"] /\ phase[i] = "idle"
      /\ key' = [key EXCEPT ![i] = k] /\ order[k] = "none"
      /\ UNCHANGED <<ledgerVars, wire, late, order>>
      /\ phase \in [Instance -> Attempting \union {"off", "idle", "refresh"}]
      /\ key \in [Instance -> Key \union {None}]
  BY DEF Attempt, Rested, CoordinationTypeOK
<1>2. FlightsBacked'
  <2>1. \A l \in Key : InFlight(l)' => InFlight(l)
    BY <1>1 DEF InFlight
  <2>2. QED
    BY <1>1, <2>1 DEF ledgerVars, Backing, FlightsBacked, Active, ActiveIn
<1>3. ASSUME NEW d \in Calls PROVE CallSafe(d)'
  <2>1. CallSafe(d)
    BY <1>3 DEF Backing
  <2>2. Closing(d) => d.key # k
    BY <1>1, <2>1 DEF CallSafe
  <2>3. ASSUME Closing(d), NEW j \in Instance, key'[j] = d.key
        PROVE  phase'[j] \in {"release", "settle"}
    BY <1>1, <2>1, <2>2, <2>3 DEF CallSafe
  <2>4. QED
    BY <1>1, <2>1, <2>3 DEF CallSafe, ledgerVars
<1>4. Calls' = Calls
  BY <1>1 DEF Calls
<1>5. ASSUME NEW j \in Instance PROVE Stage(j)'
  <2>1. CASE j = i
    BY <1>1, <2>1 DEF Stage
  <2>2. CASE j # i
    <3>1. Stage(j) /\ key'[j] = key[j] /\ phase'[j] = phase[j] /\ wire'[j] = wire[j]
      BY <1>1, <2>2 DEF Backing
    <3>2. QED
      BY <1>1, <3>1 DEF Stage
  <2>3. QED
    BY <2>1, <2>2
<1>6. QED
  BY <1>2, <1>3, <1>4, <1>5 DEF Backing

\* Time goes on; no order outlives its reservation.
LEMMA TimeBacking ==
    ASSUME CoordinationTypeOK, Backing, Timely, Time
    PROVE  Backing'
<1>1. /\ clock' = clock + 1 /\ clock \in Nat
      /\ UNCHANGED <<snapshot, reservations, clientVars, late, order>>
      /\ reservations \in [Key -> Reservation \union {None}]
  BY DEF Time, Tick, CoordinationTypeOK, TypeOK
<1>2. \A k \in Key : InFlight(k)' <=> InFlight(k)
  BY <1>1 DEF InFlight, clientVars
<1>3. FlightsBacked'
  <2> SUFFICES ASSUME NEW k \in Key, InFlight(k)
               PROVE  k \in Active' /\ reservations'[k].expires > clock' + Skew
    BY <1>2 DEF FlightsBacked
  <2>1. k \in Active /\ reservations[k].expires > clock + Skew
    BY DEF Backing, FlightsBacked
  <2>2. reservations[k] # None /\ reservations[k].expires \in Nat
    BY <1>1, <2>1 DEF Active, ActiveIn, Reservation
  <2>3. reservations[k].expires # clock' + Skew
    BY <2>2 DEF Time, Timely
  <2>4. QED
    BY <1>1, <2>1, <2>2, <2>3, LedgerConstants DEF Active, ActiveIn
<1>4. ASSUME NEW d \in Calls PROVE CallSafe(d)'
  <2>1. CallSafe(d)
    BY <1>4 DEF Backing
  <2>2. QED
    BY <1>1, <2>1 DEF CallSafe, clientVars
<1>5. Calls' = Calls
  BY <1>1 DEF Calls, clientVars
<1>6. \A j \in Instance : Stage(j)'
  BY <1>1 DEF Stage, clientVars, Backing
<1>7. QED
  BY <1>3, <1>4, <1>5, <1>6 DEF Backing

LEMMA BackingInit == CoordinationInit => Backing
<1> SUFFICES ASSUME CoordinationInit PROVE Backing
  OBVIOUS
<1>1. /\ \A k \in Key : order[k] = "none"
      /\ \A i \in Instance : phase[i] = "off" /\ wire[i] = None
      /\ late = {}
  BY DEF CoordinationInit
<1>2. FlightsBacked
  BY <1>1 DEF FlightsBacked, InFlight, Undecided
<1>3. Calls = {}
  BY <1>1 DEF Calls
<1>4. \A i \in Instance : Stage(i)
  BY <1>1 DEF Stage
<1>5. QED
  BY <1>2, <1>3, <1>4 DEF Backing

LEMMA BackingStep ==
    ASSUME CoordinationTypeOK, Backing, Timely, [CoordinationNext]_vars
    PROVE  Backing'
<1>1. CASE Time
  BY <1>1, TimeBacking
<1>2. CASE \E i \in Instance : Publish(i)
  BY <1>2, PublishBacking
<1>3. CASE \E i \in Instance : Ask(i)
  BY <1>3, AskBacking
<1>4. CASE \E i \in Instance : Send(i)
  BY <1>4, SendBacking
<1>5. CASE \E i \in Instance :
             IntentFails(i) \/ Confirmed(i) \/ Rejected(i) \/ Unconfirmed(i)
  BY <1>5, OutcomeBacking
<1>6. CASE \E i \in Instance : Serve(i) \/ AnswerLost(i)
  BY <1>6, ServeBacking
<1>7. CASE \E i \in Instance : \E k \in Key : Attempt(i, k)
  BY <1>7, AttemptBacking
<1>8. CASE \/ \E i \in Instance : Scan(i) \/ ScanFails(i) \/ TimeOut(i) \/ Refresh(i)
           \/ \E c \in late : ServeLate(c)
           \/ \E k \in Key : Place(k) \/ Fill(k) \/ Reject(k) \/ CloseOut(k)
           \/ \E t \in Terminal : Crash(t)
           \/ UNCHANGED vars
  BY <1>8, QuietActions
<1>9. QED
  BY <1>1, <1>2, <1>3, <1>4, <1>5, <1>6, <1>7, <1>8 DEF CoordinationNext, Client

\* An order at the broker that is not decided always has a reservation that
\* the ledger counts, whatever crashed, expired or was served late since, and
\* whatever the clocks of the charts say: the sweeps of reconcile
\* (risk-ledger.js:143), late releases and settlements and lost answers never
\* take it away while orders are decided in time.
THEOREM OrdersAreReserved ==
    ASSUME Timely PROVE Coordination => []OrdersInFlightAreReserved
<1>1. Backing => OrdersInFlightAreReserved
  BY DEF Backing, FlightsBacked, InFlight, OrdersInFlightAreReserved
<1>2. CoordinationTypeOK /\ Backing /\ [CoordinationNext]_vars => Backing'
  BY BackingStep
<1>3. QED
  BY <1>1, <1>2, BackingInit, CoordinationTypeCorrect, PTL DEF Coordination

-----------------------------------------------------------------------------
(* The exposure.  An account is scanned before its snapshot is stamped and  *)
(* posted, that is posted before the ledger takes it, and much happens in   *)
(* between.  What makes the cover inductive is that it is a property of     *)
(* every scan and every snapshot still under way: the orders that are live  *)
(* and that no reservation would keep if it were stored are paid for by its *)
(* own exposure.  A reservation given back meanwhile would break that, and  *)
(* ScansInOrder is what forbids it.                                         *)

\* Orders that are filled, under way, or about to be sent.
Live == {k \in Key : order[k] = "filled" \/ InFlight(k)}

Closes(c) == IF Closing(c) THEN {c.key} ELSE {}

\* What calls with snapshots from before at may still close.
Gone(at) == {k \in Key : \E c \in Calls : Closing(c) /\ c.key = k /\ c.snap.at < at}

\* What counts beside a snapshot stamped at, and what still does when no call
\* with an older snapshot can close it before.
Counted(at) == {k \in Active : reservations[k].expires > at}
Kept(at) == Counted(at) \ Gone(at)

\* What any snapshot the ledger would take now leaves counted: a row that does
\* not expire soon, and that no call under way closes.
Safe == {k \in Counted(clock + Skew) : \A c \in Calls : k \notin Closes(c)}

\* The reservation that the next snapshot of an instance gives back.
Ending(i) == IF phase[i] \in {"release", "settle"} THEN {key[i]} ELSE {}

StoredCovered ==
    snapshot # None =>
        /\ snapshot.at <= clock + Skew /\ snapshot.equity = AccountEquity
        /\ RiskOf(Live \ Counted(snapshot.at)) <= snapshot.risk

\* A call that closes a reservation has its order in its snapshot.
CallCovered(c) ==
    c.snap # None =>
        /\ c.snap.at <= clock + Skew /\ c.snap.equity = AccountEquity
        /\ (snapshot # None => c.snap.at > snapshot.at) =>
             RiskOf(Live \ (Kept(c.snap.at) \ Closes(c))) <= c.snap.risk

\* A scan that is not posted yet covers what is not safe.
SeenCovered(i) ==
    seen[i] # None =>
        /\ wire[i] = None /\ phase[i] \in {"off", "refresh", "entry", "release", "settle"}
        /\ RiskOf(Live \ (Safe \ Ending(i))) <= seen[i]

Seen == \A i \in Instance : SeenCovered(i)

RowsAreStakes ==
    \A k \in Key : reservations[k] # None => reservations[k].risk = Amount[k]

Coverage ==
    /\ StoredCovered
    /\ \A c \in Calls : CallCovered(c)
    /\ RowsAreStakes

LEMMA StakesAreNatural == \A k \in Key : Amount[k] \in Nat /\ Amount[k] \in Int
<1>1. Amount \in [Key -> RiskAmount]
  BY CoordinationConstants
<1>2. \A m \in RiskAmount : m \in Nat
  BY LedgerConstants
<1>3. \A k \in Key : Amount[k] \in Nat
  BY <1>1, <1>2
<1>4. QED
  BY <1>3

LEMMA StakeSums ==
    ASSUME NEW L \in SUBSET Key, NEW K \in SUBSET L
    PROVE  /\ RiskOf(K) \in Nat /\ RiskOf(L) \in Nat /\ RiskOf(L \ K) \in Nat
           /\ RiskOf(K) <= RiskOf(L)
           /\ RiskOf(L) = RiskOf(K) + RiskOf(L \ K)
<1>1. \A k \in Key : Amount[k] \in Nat /\ Amount[k] \in Int
  BY StakesAreNatural
<1>2. IsFiniteSet(L) /\ IsFiniteSet(K) /\ IsFiniteSet(L \ K)
  BY CoordinationConstants, FS_Subset
<1>3. RiskOf(K) \in Nat /\ RiskOf(L) \in Nat /\ RiskOf(L \ K) \in Nat
  BY <1>1, <1>2, SumNat DEF RiskOf
<1>4. RiskOf(K) <= RiskOf(L)
  BY <1>1, <1>2, SumGrows DEF RiskOf
<1>5. RiskOf(L) = RiskOf(K) + RiskOf(L \ K)
  BY <1>1, <1>2, SumSplit DEF RiskOf
<1>6. QED
  BY <1>3, <1>4, <1>5

LEMMA StakeOfOne ==
    ASSUME NEW L \in SUBSET Key, NEW k \in Key \ L
    PROVE  RiskOf(L \union {k}) = Amount[k] + RiskOf(L)
<1>1. \A l \in Key : Amount[l] \in Int
  BY StakesAreNatural
<1>2. IsFiniteSet(L)
  BY CoordinationConstants, FS_Subset
<1>3. QED
  BY <1>1, <1>2, SumAdd DEF RiskOf

\* What the ledger reserves is what the orders of the rows stake.
LEMMA ReservedIsStaked ==
    ASSUME CoordinationTypeOK, RowsAreStakes
    PROVE  Reserved(Active) = RiskOf(Active)
<1>1. Active \in SUBSET Key /\ IsFiniteSet(Active)
  <2>1. Active \in SUBSET Key
    BY DEF Active, ActiveIn
  <2>2. QED
    BY <2>1, CoordinationConstants, FS_Subset
<1>2. \A k \in Active : Risks[k] = Amount[k] /\ Amount[k] \in Int
  BY StakesAreNatural DEF Risks, RowsAreStakes, Active, ActiveIn
<1>3. SumFunctionOnSet(Amount, Active) = SumFunctionOnSet(Risks, Active)
  BY <1>1, <1>2, SumSame
<1>4. QED
  BY <1>3 DEF Reserved, RiskOf

\* The ledger counts everything that is live.
LEMMA CoverCounts ==
    ASSUME CoordinationTypeOK, Coverage, snapshot # None
    PROVE  /\ RiskOf(Live) <= snapshot.risk + Reserved(Active)
           /\ snapshot.risk \in Nat /\ Reserved(Active) \in Nat /\ RiskOf(Live) \in Nat
<1> DEFINE K == Live \intersect Counted(snapshot.at)
<1>1. /\ Live \in SUBSET Key /\ K \in SUBSET Live /\ K \in SUBSET Active
      /\ Active \in SUBSET Key
  BY DEF Live, Counted, Active, ActiveIn
<1>2. Live \ K = Live \ Counted(snapshot.at)
  OBVIOUS
<1>3. RiskOf(Live \ Counted(snapshot.at)) <= snapshot.risk
  BY DEF Coverage, StoredCovered
<1>4. snapshot.risk \in Nat
  BY LedgerConstants DEF CoordinationTypeOK, TypeOK, Snapshot
<1> HIDE DEF K
<1>5. /\ RiskOf(Live) = RiskOf(K) + RiskOf(Live \ K)
      /\ RiskOf(K) \in Nat /\ RiskOf(Live) \in Nat /\ RiskOf(Live \ K) \in Nat
  BY <1>1, StakeSums
<1>6. RiskOf(K) <= RiskOf(Active) /\ RiskOf(Active) \in Nat
  BY <1>1, StakeSums
<1>7. Reserved(Active) = RiskOf(Active)
  BY ReservedIsStaked DEF Coverage
<1>8. RiskOf(Live \ K) <= snapshot.risk
  BY <1>2, <1>3
<1>9. QED
  BY <1>4, <1>5, <1>6, <1>7, <1>8

\* A closing call is never about an order in flight.
LEMMA ClosingIsDecided ==
    ASSUME Backing, NEW c \in Calls, Closing(c)
    PROVE  ~ InFlight(c.key)
  BY DEF Backing, CallSafe, InFlight

LEMMA SnapshotNumbers == \A s \in Snapshot : s.at \in Int /\ s.risk \in Nat
<1>1. \A m \in Exposure : m \in Nat
  BY LedgerConstants
<1>2. \A t \in 1 .. Horizon + Skew : t \in Int
  BY LedgerConstants
<1>3. QED
  BY <1>1, <1>2 DEF Snapshot

\* An order in flight is kept by every snapshot the ledger may take.
LEMMA FlightsAreKeptNext ==
    ASSUME CoordinationTypeOK', Backing', NEW k \in Key, InFlight(k)',
           NEW at \in Int, at <= clock' + Skew
    PROVE  k \in Kept(at)'
<1>1. k \in Active' /\ reservations'[k].expires > clock' + Skew
  BY DEF Backing, FlightsBacked
<1>2. clock' \in Nat /\ Skew \in Nat /\ reservations'[k].expires \in Nat
  BY <1>1, LedgerConstants DEF CoordinationTypeOK, TypeOK, Active, ActiveIn, Reservation
<1>3. k \notin Gone(at)'
  BY DEF Gone, Backing, CallSafe, InFlight, Closing
<1>4. reservations'[k].expires > at
  BY <1>1, <1>2
<1>5. QED
  BY <1>1, <1>3, <1>4 DEF Kept, Counted, Active, ActiveIn

\* How the snapshots that exist stay covered in a step.
LEMMA CallsStayCovered ==
    ASSUME CoordinationTypeOK, Backing, Coverage, NEW c \in Calls,
           snapshot # None => snapshot' # None /\ snapshot'.at >= snapshot.at,
           snapshot' # None => snapshot'.at \in Int,
           clock' \in {clock, clock + 1},
           Live' \intersect Closes(c) \subseteq Live,
           c.snap # None /\ (snapshot' # None => c.snap.at > snapshot'.at) =>
              Live' \ Kept(c.snap.at)' \subseteq Live \ Kept(c.snap.at)
    PROVE  CallCovered(c)'
<1> SUFFICES ASSUME c.snap # None
             PROVE  /\ c.snap.at <= clock' + Skew /\ c.snap.equity = AccountEquity
                    /\ (snapshot' # None => c.snap.at > snapshot'.at) =>
                         RiskOf(Live' \ (Kept(c.snap.at)' \ Closes(c))) <= c.snap.risk
  BY DEF CallCovered, Closes, Closing
<1>1. c.snap.at <= clock' + Skew /\ c.snap.equity = AccountEquity
  <2>1. c.snap.at <= clock + Skew /\ c.snap.equity = AccountEquity
    BY DEF Coverage, CallCovered
  <2>2. c.snap.at \in Int /\ clock \in Nat /\ Skew \in Nat
    BY CallsTyped, SnapshotNumbers, LedgerConstants DEF Call, CoordinationTypeOK, TypeOK
  <2>3. QED
    BY <2>1, <2>2
<1> SUFFICES ASSUME snapshot' # None => c.snap.at > snapshot'.at
             PROVE  RiskOf(Live' \ (Kept(c.snap.at)' \ Closes(c))) <= c.snap.risk
  BY <1>1
<1>2. c.snap \in Snapshot
  BY CallsTyped DEF Call
<1>3. c.snap.at \in Int /\ c.snap.risk \in Nat
  BY <1>2, SnapshotNumbers
<1>4. snapshot # None => snapshot.at \in Int
  BY LedgerConstants DEF CoordinationTypeOK, TypeOK, Snapshot
<1>5. snapshot # None => c.snap.at > snapshot.at
  BY <1>3, <1>4
<1>6. RiskOf(Live \ (Kept(c.snap.at) \ Closes(c))) <= c.snap.risk
  BY <1>5 DEF Coverage, CallCovered
<1>7. Live' \ Kept(c.snap.at)' \subseteq Live \ Kept(c.snap.at)
  OBVIOUS
<1> DEFINE old == Live \ (Kept(c.snap.at) \ Closes(c))
           new == Live' \ (Kept(c.snap.at)' \ Closes(c))
<1>8. old \in SUBSET Key /\ new \in SUBSET old
  <2>1. new \in SUBSET old
    BY <1>7
  <2>2. old \in SUBSET Key
    BY DEF Live
  <2>3. QED
    BY <2>1, <2>2
<1> HIDE DEF old, new
<1>9. RiskOf(new) <= RiskOf(old) /\ RiskOf(new) \in Nat /\ RiskOf(old) \in Nat
  BY <1>8, StakeSums
<1>10. QED
  BY <1>3, <1>6, <1>9 DEF old, new

\* The steps that leave the ledger alone.
LEMMA SameLedgerCoverage ==
    ASSUME CoordinationTypeOK, Backing, Coverage,
           UNCHANGED <<snapshot, reservations>>, clock' \in {clock, clock + 1},
           Live' \subseteq Live,
           \A c \in Calls : c.snap # None => Gone(c.snap.at)' \subseteq Gone(c.snap.at),
           \A c \in Calls' : c \in Calls \/ CallCovered(c)'
    PROVE  Coverage'
<1>1. \A c \in Calls : c.snap # None =>
         Live' \ Kept(c.snap.at)' \subseteq Live \ Kept(c.snap.at)
  BY DEF Kept, Counted, Active, ActiveIn
<1>2. clock \in Nat /\ Skew \in Nat /\ (snapshot # None => snapshot.at \in Int /\ snapshot.risk \in Nat)
  BY SnapshotNumbers, LedgerConstants DEF CoordinationTypeOK, TypeOK
<1>3. ASSUME NEW c \in Calls PROVE CallCovered(c)'
  BY <1>1, <1>2, CallsStayCovered
<1>4. StoredCovered'
  <2> SUFFICES ASSUME snapshot # None
               PROVE  /\ snapshot.at <= clock' + Skew /\ snapshot.equity = AccountEquity
                      /\ RiskOf(Live' \ Counted(snapshot.at)) <= snapshot.risk
    BY DEF StoredCovered, Counted, Active, ActiveIn
  <2> DEFINE old == Live \ Counted(snapshot.at)
             new == Live' \ Counted(snapshot.at)
  <2>1. /\ snapshot.at <= clock + Skew /\ snapshot.equity = AccountEquity
        /\ RiskOf(old) <= snapshot.risk
    BY DEF Coverage, StoredCovered
  <2>2. new \in SUBSET old /\ old \in SUBSET Key
    BY DEF Live
  <2> HIDE DEF old, new
  <2>3. RiskOf(new) <= RiskOf(old) /\ RiskOf(new) \in Nat /\ RiskOf(old) \in Nat
    BY <2>2, StakeSums
  <2>4. RiskOf(new) <= snapshot.risk
    BY <1>2, <2>1, <2>3
  <2>5. QED
    BY <1>2, <2>1, <2>4 DEF new
<1>5. QED
  BY <1>3, <1>4 DEF Coverage, RowsAreStakes

\* What serving a call does to the stored snapshot: nothing, or it is replaced
\* by the later one of the call.
LEMMA PerformStores ==
    ASSUME CoordinationTypeOK, NEW c \in Call, NEW now \in Captured, Perform(now, c)
    PROVE  \/ /\ snapshot' = snapshot /\ ~ Closing(c)
              /\ c.op = "reconcile" => snapshot # None /\ c.snap.at <= snapshot.at
           \/ /\ snapshot' = c.snap /\ c.snap \in Snapshot /\ c.snap # None
              /\ snapshot # None => c.snap.at > snapshot.at
<1>1. c.op # "reserve" => c.snap \in Snapshot /\ c.snap # None
  BY LedgerConstants DEF Call
<1>2. CASE c.op = "reconcile" /\ Reconcile(now, c.snap)
  BY <1>1, <1>2 DEF Reconcile, MayReconcile, Newer, Resent, Closing
<1>3. CASE c.op = "reserve" /\ Reserve(now, c.from, c.key, Amount[c.key])
  BY <1>3 DEF Reserve, Closing
<1>4. CASE c.op = "release" /\ Release(now, c.from, c.key, c.snap)
  BY <1>1, <1>4 DEF Release, MayRelease, Newer
<1>5. CASE c.op = "settle" /\ Settle(now, c.from, c.key, c.snap)
  BY <1>1, <1>5 DEF Settle, MaySettle, Newer
<1>6. QED
  BY <1>2, <1>3, <1>4, <1>5 DEF Perform

\* A row that does not expire before the stored snapshot, and that the call
\* does not close, goes on counting.
LEMMA PerformKeepsRows ==
    ASSUME CoordinationTypeOK, NEW c \in Call, NEW now \in Captured, Perform(now, c),
           NEW k \in Active, k \notin Closes(c), NEW at \in Int,
           reservations[k].expires > at, snapshot' # None => at >= snapshot'.at
    PROVE  k \in Active' /\ reservations'[k].expires > at
<1>1. /\ k \in Key /\ reservations[k] \in Reservation
      /\ reservations \in [Key -> Reservation \union {None}]
      /\ reservations[k] # None /\ reservations[k].expires \in Nat
  BY LedgerConstants DEF Active, ActiveIn, CoordinationTypeOK, TypeOK, Reservation
<1>2. reservations'[k] = reservations[k]
  <2>1. CASE c.op = "reconcile" /\ Reconcile(now, c.snap)
    <3>1. c.snap \in Snapshot /\ c.snap # None /\ c.snap.at \in Int
      BY <2>1, LedgerConstants, SnapshotNumbers DEF Call
    <3>2. snapshot' # None /\ c.snap.at <= snapshot'.at /\ snapshot'.at \in Int
      BY <2>1, <3>1, PerformStores, SnapshotNumbers
         DEF Closing, CoordinationTypeOK, TypeOK
    <3>3. ~ (reservations[k].expires <= c.snap.at)
      BY <1>1, <3>1, <3>2
    <3>4. QED
      BY <1>1, <2>1, <3>3 DEF Reconcile, Close
  <2>2. CASE c.op = "reserve" /\ Reserve(now, c.from, c.key, Amount[c.key])
    BY <1>1, <2>2 DEF Reserve, MayReserve
  <2>3. CASE Closing(c) /\ (Release(now, c.from, c.key, c.snap)
                              \/ Settle(now, c.from, c.key, c.snap))
    BY <1>1, <2>3 DEF Release, Settle, Close, Closes
  <2>4. QED
    BY <2>1, <2>2, <2>3 DEF Perform, Closing
<1>3. QED
  BY <1>1, <1>2 DEF Active, ActiveIn

LEMMA PerformKeepsStakes ==
    ASSUME CoordinationTypeOK, NEW c \in Call, NEW now \in Captured, Perform(now, c),
           RowsAreStakes
    PROVE  RowsAreStakes'
<1>1. TypeOK
  BY DEF CoordinationTypeOK
<1>2. ASSUME NEW K \in SUBSET Active, NEW status \in {"released", "settled"},
             Close(K, status)
      PROVE  RowsAreStakes'
  <2>1. /\ \A k \in K : /\ reservations[k] \in Reservation
                        /\ reservations'[k] = [reservations[k] EXCEPT !.status = status]
        /\ \A k \in Key \ K : reservations'[k] = reservations[k]
    BY <1>1, <1>2, CloseType
  <2>2. \A k \in K : reservations'[k].risk = reservations[k].risk
    BY <2>1 DEF Reservation
  <2>3. \A k \in K : reservations[k] # None
    BY DEF Active, ActiveIn
  <2>4. QED
    BY <2>1, <2>2, <2>3 DEF RowsAreStakes
<1>3. CASE c.op = "reconcile" /\ Reconcile(now, c.snap)
  BY <1>2, <1>3 DEF Reconcile
<1>4. CASE c.op = "reserve" /\ Reserve(now, c.from, c.key, Amount[c.key])
  <2>1. /\ c.key \in Key /\ reservations \in [Key -> Reservation \union {None}]
        /\ reservations' = [reservations EXCEPT ![c.key] =
             [owner |-> c.from, risk |-> Amount[c.key], status |-> "active",
              created |-> now, expires |-> now + TTL]]
    BY <1>1, <1>4 DEF Call, Reserve, TypeOK
  <2>2. QED
    BY <2>1 DEF RowsAreStakes
<1>5. CASE Closing(c) /\ (Release(now, c.from, c.key, c.snap)
                            \/ Settle(now, c.from, c.key, c.snap))
  <2>1. {c.key} \in SUBSET Active
    BY <1>5 DEF Release, Settle, MayRelease, MaySettle
  <2>2. QED
    BY <1>2, <1>5, <2>1 DEF Release, Settle
<1>6. QED
  BY <1>3, <1>4, <1>5 DEF Perform, Closing

\* Serving a call keeps the cover; what becomes live by it has its reservation.
LEMMA PerformCoverage ==
    ASSUME CoordinationTypeOK, CoordinationTypeOK', Backing, Backing', Coverage,
           NEW c \in Calls, NEW now \in Captured, Perform(now, c),
           clock' = clock, Calls' \subseteq Calls,
           \A k \in Live' : \/ k \in Live
                            \/ InFlight(k)' /\ \A d \in Calls : k \notin Closes(d)
    PROVE  Coverage'
<1>1. c \in Call /\ clock \in Nat
  BY CallsTyped DEF CoordinationTypeOK, TypeOK
<1>2. /\ snapshot # None => snapshot.at \in Int /\ snapshot.risk \in Nat
      /\ snapshot' # None => snapshot'.at \in Int /\ snapshot'.risk \in Nat
      /\ snapshot # None => snapshot' # None /\ snapshot'.at >= snapshot.at
  <2>1. /\ snapshot # None => snapshot.at \in Int /\ snapshot.risk \in Nat
        /\ snapshot' # None => snapshot'.at \in Int /\ snapshot'.risk \in Nat
    BY SnapshotNumbers DEF CoordinationTypeOK, TypeOK
  <2>2. QED
    BY <1>1, <2>1, PerformStores
<1>3. \A d \in Calls : Live' \intersect Closes(d) \subseteq Live
  OBVIOUS
<1>4. ASSUME NEW at \in Int, at <= clock + Skew, snapshot' # None => at >= snapshot'.at
      PROVE  Live' \ Counted(at)' \subseteq Live \ (Counted(at) \ Closes(c))
  <2> SUFFICES ASSUME NEW k \in Live', k \notin Counted(at)'
               PROVE  k \in Live /\ (k \notin Counted(at) \/ k \in Closes(c))
    OBVIOUS
  <2>1. k \in Key
    BY DEF Live
  <2>2. ~ InFlight(k)'
    BY <1>4, <2>1, FlightsAreKeptNext DEF Kept
  <2>3. k \in Live
    BY <2>2
  <2>4. ASSUME k \in Counted(at), k \notin Closes(c) PROVE FALSE
    <3>1. k \in Active /\ reservations[k].expires > at
      BY <2>4 DEF Counted
    <3>2. k \in Active' /\ reservations'[k].expires > at
      BY <1>1, <1>4, <2>4, <3>1, PerformKeepsRows
    <3>3. QED
      BY <3>2 DEF Counted
  <2>5. QED
    BY <2>3, <2>4
<1>5. ASSUME NEW at \in Int, at <= clock + Skew, snapshot' # None => at > snapshot'.at
      PROVE  Live' \ Kept(at)' \subseteq Live \ Kept(at)
  <2>1. Live' \ Counted(at)' \subseteq Live \ (Counted(at) \ Closes(c))
    BY <1>2, <1>4, <1>5
  <2>2. Closing(c) => c.key \in Gone(at)
    <3> SUFFICES ASSUME Closing(c) PROVE c.key \in Gone(at)
      OBVIOUS
    <3>1. c.key \in Key
      BY <1>1 DEF Call, Closing
    <3>2. snapshot' = c.snap /\ c.snap # None
      BY <1>1, PerformStores
    <3>3. QED
      BY <1>5, <3>1, <3>2 DEF Gone
  <2>3. Gone(at)' \subseteq Gone(at)
    BY DEF Gone, Closing
  <2>4. ASSUME NEW k \in Live', k \notin Kept(at)' PROVE k \in Live
    <3>1. k \in Key /\ ~ InFlight(k)'
      BY <1>5, <2>4, FlightsAreKeptNext DEF Live
    <3>2. QED
      BY <2>4, <3>1
  <2>5. QED
    BY <2>1, <2>2, <2>3, <2>4 DEF Closes, Kept
<1>6. ASSUME NEW d \in Calls' PROVE CallCovered(d)'
  <2>1. d \in Calls
    OBVIOUS
  <2>2. ASSUME d.snap # None, snapshot' # None => d.snap.at > snapshot'.at
        PROVE  Live' \ Kept(d.snap.at)' \subseteq Live \ Kept(d.snap.at)
    <3>1. d.snap.at \in Int /\ d.snap.at <= clock + Skew
      BY <2>1, <2>2, CallsTyped, SnapshotNumbers DEF Call, Coverage, CallCovered
    <3>2. PICK at \in Int : at = d.snap.at
      BY <3>1
    <3>3. Live' \ Kept(at)' \subseteq Live \ Kept(at)
      BY <1>5, <2>2, <3>1, <3>2
    <3>4. QED
      BY <3>2, <3>3 DEF Kept, Counted, Gone
  <2>3. QED
    BY <1>2, <1>3, <2>1, <2>2, CallsStayCovered
<1>7. StoredCovered'
  <2> SUFFICES ASSUME snapshot' # None, NEW at \in Int, at = snapshot'.at
               PROVE  /\ at <= clock + Skew /\ snapshot'.equity = AccountEquity
                      /\ RiskOf(Live' \ Counted(at)') <= snapshot'.risk
    BY <1>2 DEF StoredCovered, Counted
  <2> DEFINE new == Live' \ Counted(at)'
  <2>1. CASE snapshot' = snapshot /\ ~ Closing(c)
    <3> DEFINE old == Live \ Counted(snapshot.at)
    <3>1. /\ snapshot.at <= clock + Skew /\ snapshot.equity = AccountEquity
          /\ RiskOf(old) <= snapshot.risk
      BY <2>1 DEF Coverage, StoredCovered
    <3>2. new \subseteq Live \ (Counted(at) \ Closes(c)) /\ at = snapshot.at
      BY <1>2, <1>4, <2>1, <3>1
    <3>3. new \in SUBSET old /\ old \in SUBSET Key
      BY <2>1, <3>2 DEF Closes, Live
    <3> HIDE DEF old, new
    <3>4. RiskOf(new) <= RiskOf(old) /\ RiskOf(new) \in Nat /\ RiskOf(old) \in Nat
      BY <3>3, StakeSums
    <3>5. RiskOf(new) <= snapshot.risk
      BY <1>2, <2>1, <3>1, <3>4
    <3>6. QED
      BY <2>1, <3>1, <3>5 DEF new
  <2>2. CASE /\ snapshot' = c.snap /\ c.snap # None
             /\ snapshot # None => c.snap.at > snapshot.at
    <3> DEFINE old == Live \ (Kept(c.snap.at) \ Closes(c))
    <3>1. /\ c.snap.at <= clock + Skew /\ c.snap.equity = AccountEquity
          /\ RiskOf(old) <= c.snap.risk
      BY <2>2 DEF Coverage, CallCovered
    <3>2. new \in SUBSET old /\ old \in SUBSET Key
      <4>1. at = c.snap.at /\ new \subseteq Live \ (Counted(at) \ Closes(c))
        BY <1>2, <1>4, <2>2, <3>1
      <4>2. QED
        BY <4>1 DEF Live, Kept
    <3> HIDE DEF old, new
    <3>3. RiskOf(new) <= RiskOf(old) /\ RiskOf(new) \in Nat /\ RiskOf(old) \in Nat
      BY <3>2, StakeSums
    <3>4. RiskOf(new) <= c.snap.risk
      BY <1>2, <2>2, <3>1, <3>3
    <3>5. QED
      BY <2>2, <3>1, <3>4 DEF new
  <2>3. QED
    BY <1>1, <2>1, <2>2, PerformStores
<1>8. RowsAreStakes'
  BY <1>1, PerformKeepsStakes DEF Coverage
<1>9. QED
  BY <1>6, <1>7, <1>8 DEF Coverage

\* What becomes live is the order of the attempt that was granted.
LEMMA QuietLive ==
    ASSUME OnlyDecides, StaysOrLeaves
    PROVE  Live' \subseteq Live
<1> SUFFICES ASSUME NEW k \in Key, order'[k] = "filled" \/ InFlight(k)'
             PROVE  order[k] = "filled" \/ InFlight(k)
  BY DEF Live
<1>1. CASE order'[k] = "filled"
  BY <1>1 DEF OnlyDecides, InFlight
<1>2. CASE order'[k] \in Undecided
  BY <1>2 DEF OnlyDecides, InFlight
<1>3. ASSUME NEW i \in Instance, phase'[i] = "send", key'[i] = k
      PROVE  InFlight(k)
  BY <1>3 DEF StaysOrLeaves, InFlight, Attempting
<1>4. QED
  BY <1>1, <1>2, <1>3 DEF InFlight

LEMMA ReturnLive ==
    ASSUME CoordinationTypeOK, Backing, NEW i \in Instance, NEW ok \in BOOLEAN,
           Return(i, ok), NEW k \in Live', k \notin Live
    PROVE  /\ InFlight(k)' /\ ok /\ phase[i] = "reserve" /\ k = key[i]
           /\ \A d \in Calls : k \notin Closes(d)
<1>1. OnlyDecides
  BY ReturnDecides
<1>2. /\ k \in Key /\ order[k] # "filled" /\ ~ InFlight(k)
      /\ phase \in [Instance -> Attempting \union {"off", "idle", "refresh"}]
  BY DEF Live, CoordinationTypeOK
<1>3. order'[k] # "filled" /\ order'[k] \notin Undecided
  BY <1>1, <1>2 DEF OnlyDecides, InFlight
<1>4. PICK j \in Instance : phase'[j] = "send" /\ key'[j] = k
  BY <1>3 DEF Live, InFlight
<1>5. ~ (phase[j] = "send" /\ key[j] = k)
  BY <1>2 DEF InFlight
<1>6. /\ phase[i] \in DOMAIN Granted /\ Good(i, ok)
      /\ Goto(i, Granted[phase[i]])
  <2>1. CASE UNCHANGED <<phase, key, ready, mutex, order>>
    BY <1>4, <1>5, <2>1
  <2>2. CASE Started(i)
    BY <1>2, <1>4, <1>5, <2>2 DEF Started
  <2>3. CASE Leave(i)
    BY <1>2, <1>4, <1>5, <2>3, OwnKeys DEF Leave, CoordinationTypeOK
  <2>4. QED
    BY <2>1, <2>2, <2>3 DEF Return, EndAttempt
<1>7. j = i /\ phase[i] = "reserve" /\ k = key[i] /\ ok
  BY <1>2, <1>4, <1>5, <1>6 DEF Goto, Granted, Good
<1>8. InFlight(k)'
  BY <1>4 DEF InFlight
<1>9. ASSUME NEW d \in Calls PROVE k \notin Closes(d)
  BY <1>7 DEF Backing, CallSafe, Closes
<1>10. QED
  BY <1>7, <1>8, <1>9

LEMMA ServeCoverage ==
    ASSUME CoordinationTypeOK, CoordinationTypeOK', Backing, Backing', Coverage,
           NEW i \in Instance, Serve(i) \/ AnswerLost(i)
    PROVE  Coverage'
<1>1. /\ wire[i] # None /\ wire[i] \in Calls /\ late' = late
      /\ wire \in [Instance -> Call \union {None}] /\ clock \in Nat
  BY DEF Serve, AnswerLost, Calls, CoordinationTypeOK, TypeOK
<1>2. PICK now \in Captured, ok \in BOOLEAN :
        /\ Return(i, ok)
        /\ Perform(now, wire[i]) \/ (UNCHANGED ledgerVars /\ ~ ok)
  BY DEF Serve, AnswerLost
<1>3. Calls' \subseteq Calls
  BY <1>1, <1>2 DEF Return, Calls
<1>4. CASE Perform(now, wire[i])
  <2>1. clock' = clock
    BY <1>1, <1>4, PerformKeepsFlights
  <2>2. \A k \in Live' : \/ k \in Live
                         \/ InFlight(k)' /\ \A d \in Calls : k \notin Closes(d)
    BY <1>2, ReturnLive
  <2>3. QED
    BY <1>1, <1>3, <1>4, <2>1, <2>2, PerformCoverage
<1>5. CASE UNCHANGED ledgerVars /\ ~ ok
  <2>1. Live' \subseteq Live
    BY <1>2, <1>5, ReturnLive
  <2>2. UNCHANGED <<snapshot, reservations>> /\ clock' \in {clock, clock + 1}
    BY <1>5 DEF ledgerVars
  <2>3. \A c \in Calls : c.snap # None => Gone(c.snap.at)' \subseteq Gone(c.snap.at)
    BY <1>3 DEF Gone, Closing
  <2>4. \A c \in Calls' : c \in Calls \/ CallCovered(c)'
    BY <1>3
  <2>5. QED
    BY <2>1, <2>2, <2>3, <2>4, SameLedgerCoverage
<1>6. QED
  BY <1>2, <1>4, <1>5

LEMMA LateCoverage ==
    ASSUME CoordinationTypeOK, CoordinationTypeOK', Backing, Backing', Coverage,
           NEW c \in late, ServeLate(c)
    PROVE  Coverage'
<1>1. c \in Calls /\ Calls' \subseteq Calls
  BY DEF ServeLate, Calls, clientVars
<1>2. Live' = Live
  BY DEF ServeLate, Live, InFlight, clientVars
<1>3. PICK now \in Captured : Perform(now, c) \/ UNCHANGED ledgerVars
  BY DEF ServeLate
<1>4. CASE Perform(now, c)
  <2>1. clock' = clock
    BY <1>1, <1>4, PerformKeepsFlights
  <2>2. QED
    BY <1>1, <1>2, <1>4, <2>1, PerformCoverage
<1>5. CASE UNCHANGED ledgerVars
  <2>1. UNCHANGED <<snapshot, reservations>> /\ clock' \in {clock, clock + 1}
    BY <1>5 DEF ledgerVars
  <2>2. \A d \in Calls : d.snap # None => Gone(d.snap.at)' \subseteq Gone(d.snap.at)
    BY <1>1 DEF Gone, Closing
  <2>3. \A d \in Calls' : d \in Calls \/ CallCovered(d)'
    BY <1>1
  <2>4. QED
    BY <1>2, <2>1, <2>2, <2>3, SameLedgerCoverage
<1>6. QED
  BY <1>3, <1>4, <1>5

\* A scan sees the orders filled now; every other live order is in flight and
\* therefore safe.
LEMMA ScanCovers ==
    ASSUME CoordinationTypeOK, Backing, NEW i \in Instance
    PROVE  RiskOf(Live \ (Safe \ Ending(i))) <= BrokerRisk
<1> DEFINE rest == Live \ (Safe \ Ending(i))
           filled == OrdersIn({"filled"})
<1>1. ASSUME NEW k \in Live, order[k] # "filled" PROVE k \in Safe \ Ending(i)
  <2>1. k \in Key /\ InFlight(k)
    BY <1>1 DEF Live
  <2>2. k \in Counted(clock + Skew)
    BY <2>1 DEF Backing, FlightsBacked, Counted
  <2>3. \A c \in Calls : k \notin Closes(c)
    BY <2>1, ClosingIsDecided DEF Closes
  <2>4. ASSUME phase[i] \in {"release", "settle"}, key[i] = k PROVE FALSE
    <3>1. order[k] \notin Undecided
      BY <2>4 DEF Backing, Stage
    <3>2. PICK j \in Instance : phase[j] = "send" /\ key[j] = k
      BY <2>1, <3>1 DEF InFlight
    <3>3. j = i
      BY <2>4, <3>2, OwnKeys DEF Attempting
    <3>4. QED
      BY <2>4, <3>2, <3>3
  <2>5. QED
    BY <2>2, <2>3, <2>4 DEF Safe, Ending
<1>2. rest \in SUBSET filled /\ filled \in SUBSET Key
  BY <1>1 DEF Live, OrdersIn
<1> HIDE DEF rest, filled
<1>3. RiskOf(rest) <= RiskOf(filled)
  BY <1>2, StakeSums
<1>4. QED
  BY <1>3 DEF BrokerRisk, rest, filled

\* A snapshot is posted: its exposure covers what is not safe, and the snapshots
\* under way lose nothing by it.
LEMMA PublishCoverage ==
    ASSUME CoordinationTypeOK, Backing, Coverage, Seen, ScansInOrder,
           ClockError + Drift <= Skew, NEW i \in Instance, Publish(i)
    PROVE  Coverage'
<1>1. PICK at \in 1 .. Horizon + Skew, c \in Call :
        /\ c = Posted(i, at) /\ wire' = [wire EXCEPT ![i] = c]
        /\ c.snap \in Snapshot /\ at <= clock + ClockError + Drift
  BY StampIsNear
<1>2. /\ c.snap.at = at /\ c.snap.equity = AccountEquity /\ c.key = key[i]
      /\ c.snap.risk = (IF ScanGap THEN seen[i] ELSE BrokerRisk)
      /\ c.op = Op[phase[i]] /\ c.snap # None /\ c # None
  BY <1>1, LedgerConstants, CoordinationConstants DEF Posted
<1>3. /\ UNCHANGED <<ledgerVars, phase, key, mutex, late, order>>
      /\ wire \in [Instance -> Call \union {None}] /\ wire[i] = None
      /\ phase[i] \in {"off", "refresh", "entry", "release", "settle"}
      /\ ScanGap => seen[i] # None
  BY DEF Publish, CoordinationTypeOK
<1>4. Live' = Live /\ UNCHANGED <<snapshot, reservations>> /\ clock' = clock
  BY <1>3 DEF Live, InFlight, ledgerVars
<1>5. Calls' \subseteq Calls \union {c}
  BY <1>1, <1>3 DEF Calls
<1>6. ASSUME NEW d \in Calls, d.snap # None
      PROVE  Gone(d.snap.at)' \subseteq Gone(d.snap.at)
  <2>1. d.snap.at \in Int /\ at \in Int
    BY <1>6, CallsTyped, SnapshotNumbers, LedgerConstants DEF Call
  <2>2. Closing(c) => d.snap.at <= at
    <3>1. wire'[i] = c
      BY <1>1, <1>3
    <3>2. QED
      BY <1>2, <1>3, <1>6, <3>1 DEF ScansInOrder
  <2>3. ~ (Closing(c) /\ c.snap.at < d.snap.at)
    BY <1>2, <2>1, <2>2
  <2>4. QED
    BY <1>5, <2>3 DEF Gone, Closing
<1>7. at <= clock + Skew
  <2>1. clock \in Nat /\ ClockError \in Nat /\ Drift \in Nat /\ Skew \in Nat /\ at \in Int
    BY CoordinationConstants, LedgerConstants DEF CoordinationTypeOK, TypeOK
  <2>2. QED
    BY <1>1, <2>1
<1>8. Closes(c) = Ending(i)
  BY <1>2, <1>3 DEF Closes, Closing, Op, Ending
<1>9. RiskOf(Live \ (Safe \ Ending(i))) <= c.snap.risk
  <2>1. CASE ScanGap
    BY <1>2, <1>3, <2>1 DEF Seen, SeenCovered
  <2>2. CASE ~ ScanGap
    BY <1>2, <2>2, ScanCovers
  <2>3. QED
    BY <2>1, <2>2
<1>10. CallCovered(c)'
  <2> DEFINE new == Live' \ (Kept(c.snap.at)' \ Closes(c))
             old == Live \ (Safe \ Ending(i))
  <2>1. ASSUME NEW k \in Safe, k \notin Closes(c) PROVE k \in Kept(c.snap.at)'
    <3>1. k \in Active' /\ reservations'[k].expires > at
      <4>1. k \in Active /\ reservations[k].expires > clock + Skew
        BY DEF Safe, Counted
      <4>2. /\ reservations[k].expires \in Nat /\ clock \in Nat /\ Skew \in Nat
            /\ at \in Int
        BY <4>1, LedgerConstants
           DEF CoordinationTypeOK, TypeOK, Active, ActiveIn, Reservation
      <4>3. QED
        BY <1>4, <1>7, <4>1, <4>2 DEF Active, ActiveIn
    <3>2. \A d \in Calls' : ~ (Closing(d) /\ d.key = k)
      BY <1>5, <2>1 DEF Safe, Closes
    <3>3. k \notin Gone(at)'
      BY <3>2 DEF Gone, Closing
    <3>4. QED
      BY <1>2, <3>1, <3>3 DEF Kept, Counted
  <2>2. new \in SUBSET old /\ old \in SUBSET Key
    BY <1>4, <1>8, <2>1 DEF Live
  <2>3. c.snap.risk \in Nat
    BY <1>1, SnapshotNumbers
  <2> HIDE DEF new, old
  <2>4. RiskOf(new) <= RiskOf(old) /\ RiskOf(new) \in Nat /\ RiskOf(old) \in Nat
    BY <2>2, StakeSums
  <2>5. RiskOf(new) <= c.snap.risk
    BY <1>9, <2>3, <2>4 DEF old
  <2>6. QED
    BY <1>2, <1>4, <1>7, <2>5 DEF CallCovered, new, Closes, Closing
<1>11. \A d \in Calls' : d \in Calls \/ CallCovered(d)'
  BY <1>5, <1>10
<1>12. QED
  BY <1>4, <1>6, <1>11, SameLedgerCoverage

\* Every other step leaves the ledger alone, makes nothing live and posts no
\* snapshot.
LEMMA OtherStepsShrink ==
    ASSUME CoordinationTypeOK, Backing,
           \/ \E i \in Instance :
                \/ Scan(i) \/ ScanFails(i) \/ Ask(i) \/ Send(i) \/ TimeOut(i) \/ Refresh(i)
                \/ IntentFails(i) \/ Confirmed(i) \/ Rejected(i) \/ Unconfirmed(i)
                \/ \E k \in Key : Attempt(i, k)
           \/ \E k \in Key : Place(k) \/ Fill(k) \/ Reject(k) \/ CloseOut(k)
           \/ \E t \in Terminal : Crash(t)
           \/ Time \/ UNCHANGED vars
    PROVE  /\ Live' \subseteq Live
           /\ UNCHANGED <<snapshot, reservations>> /\ clock' \in {clock, clock + 1}
           /\ \A c \in Calls' : c \in Calls \/ (c.snap = None /\ ~ Closing(c))
<1>1. /\ wire \in [Instance -> Call \union {None}]
      /\ phase \in [Instance -> Attempting \union {"off", "idle", "refresh"}]
      /\ key \in [Instance -> Key \union {None}]
      /\ order \in [Key -> {"none", "asked", "sent", "placed", "filled",
                            "rejected", "closed"}]
      /\ "idle" \notin Attempting /\ "off" \notin Attempting /\ "refresh" \notin Attempting
  BY DEF CoordinationTypeOK, Attempting
<1> DEFINE Shrinks == /\ Live' \subseteq Live
                      /\ UNCHANGED <<snapshot, reservations>>
                      /\ clock' \in {clock, clock + 1}
                      /\ \A c \in Calls' : c \in Calls \/ (c.snap = None /\ ~ Closing(c))
<1>2. ASSUME NEW i \in Instance, Scan(i) PROVE Shrinks
  BY <1>2 DEF Scan, Live, InFlight, ledgerVars, Calls
<1>3. ASSUME NEW i \in Instance, ScanFails(i) PROVE Shrinks
  <2>1. OnlyDecides
    BY <1>1, <1>3 DEF ScanFails, EndAttempt, DefensiveClose, Own, OnlyDecides, Undecided
  <2>2. StaysOrLeaves
    BY <1>1, <1>3 DEF ScanFails, EndAttempt, Leave, StaysOrLeaves
  <2>3. Live' \subseteq Live
    BY <2>1, <2>2, QuietLive
  <2>4. QED
    BY <1>3, <2>3 DEF ScanFails, Calls, ledgerVars
<1>4. ASSUME NEW i \in Instance, Ask(i) PROVE Shrinks
  <2>1. /\ UNCHANGED <<ledgerVars, phase, key, late>> /\ key[i] \in Key
        /\ order' = [order EXCEPT ![key[i]] = "asked"]
    BY <1>4, OwnKeys DEF Ask, Attempting
  <2>2. Live' \subseteq Live
    BY <1>1, <2>1 DEF Live, InFlight, Undecided
  <2>3. PICK c : /\ c = [op |-> "reserve", from |-> i, key |-> key[i], snap |-> None]
                 /\ wire' = [wire EXCEPT ![i] = c]
    BY <1>4 DEF Ask
  <2>4. c.snap = None /\ ~ Closing(c)
    BY <2>3 DEF Closing
  <2>5. Calls' \subseteq Calls \union {c}
    BY <1>1, <2>1, <2>3 DEF Calls
  <2>6. QED
    BY <2>1, <2>2, <2>4, <2>5 DEF ledgerVars
<1>5. ASSUME NEW i \in Instance, Send(i) PROVE Shrinks
  <2>1. /\ UNCHANGED <<ledgerVars, key, wire, late>> /\ key[i] \in Key
        /\ order' = [order EXCEPT ![key[i]] = "sent"]
        /\ phase[i] = "send" /\ phase' = [phase EXCEPT ![i] = "sending"]
    BY <1>5, OwnKeys DEF Send, Goto, Attempting
  <2>2. Live' \subseteq Live
    BY <1>1, <2>1 DEF Live, InFlight, Undecided
  <2>3. QED
    BY <2>1, <2>2 DEF ledgerVars, Calls
<1>6. ASSUME NEW i \in Instance,
             IntentFails(i) \/ Confirmed(i) \/ Rejected(i) \/ Unconfirmed(i)
      PROVE  Shrinks
  <2>1. /\ \E p \in {"release", "settle"} : phase' = [phase EXCEPT ![i] = p]
        /\ UNCHANGED <<ledgerVars, key, wire, late, order>>
    BY <1>6 DEF IntentFails, Confirmed, Rejected, Unconfirmed, Goto
  <2>2. Live' \subseteq Live
    BY <1>1, <2>1 DEF Live, InFlight
  <2>3. QED
    BY <2>1, <2>2 DEF ledgerVars, Calls
<1>7. ASSUME NEW i \in Instance, TimeOut(i) PROVE Shrinks
  <2>1. Return(i, FALSE) /\ UNCHANGED ledgerVars /\ wire[i] # None
    BY <1>7 DEF TimeOut
  <2>2. Live' \subseteq Live
    BY <2>1, ReturnLive
  <2>3. wire' = [wire EXCEPT ![i] = None] /\ late' \subseteq late \union {wire[i]}
    BY <1>7 DEF TimeOut, Return
  <2>4. Calls' \subseteq Calls
    BY <1>1, <2>1, <2>3 DEF Calls
  <2>5. QED
    BY <2>1, <2>2, <2>4 DEF ledgerVars
<1>8. ASSUME NEW i \in Instance, Refresh(i) PROVE Shrinks
  BY <1>1, <1>8 DEF Refresh, Rested, Goto, Live, InFlight, ledgerVars, Calls
<1>9. ASSUME NEW i \in Instance, NEW k \in Key, Attempt(i, k) PROVE Shrinks
  <2>1. /\ phase' = [phase EXCEPT ![i] = "entry"] /\ key' = [key EXCEPT ![i] = k]
        /\ UNCHANGED <<ledgerVars, wire, late, order>>
    BY <1>9 DEF Attempt
  <2>2. Live' \subseteq Live
    BY <1>1, <2>1 DEF Live, InFlight
  <2>3. QED
    BY <2>1, <2>2 DEF ledgerVars, Calls
<1>10. ASSUME NEW k \in Key, Place(k) \/ Fill(k) \/ Reject(k) \/ CloseOut(k)
       PROVE  Shrinks
  <2>1. OnlyDecides
    BY <1>1, <1>10
       DEF Place, Fill, Reject, CloseOut, BrokerMoves, OnlyDecides, Undecided
  <2>2. StaysOrLeaves /\ UNCHANGED ledgerVars /\ Calls' = Calls
    BY <1>10 DEF Place, Fill, Reject, CloseOut, BrokerMoves, Calls, clientVars,
                 StaysOrLeaves
  <2>3. Live' \subseteq Live
    BY <2>1, <2>2, QuietLive
  <2>4. QED
    BY <2>2, <2>3 DEF ledgerVars
<1>11. ASSUME NEW t \in Terminal, Crash(t) PROVE Shrinks
  <2> DEFINE gone == {i \in Instance : Home[i] = t}
  <2>1. \A i \in Instance :
          /\ phase'[i] = IF i \in gone THEN "off" ELSE phase[i]
          /\ key'[i] = IF i \in gone THEN None ELSE key[i]
          /\ wire'[i] = IF i \in gone THEN None ELSE wire[i]
    BY <1>11 DEF Crash
  <2>2. StaysOrLeaves
    BY <1>1, <2>1 DEF StaysOrLeaves
  <2>3. OnlyDecides /\ UNCHANGED ledgerVars
    BY <1>11 DEF Crash, OnlyDecides
  <2>4. Live' \subseteq Live
    BY <2>2, <2>3, QuietLive
  <2>5. Calls' \subseteq Calls
    <3>1. PICK lost \in SUBSET {wire[i] : i \in {j \in gone : wire[j] # None}} :
            late' = late \union lost
      BY <1>11 DEF Crash
    <3>2. lost \subseteq Calls
      BY <3>1 DEF Calls
    <3>3. QED
      BY <2>1, <3>1, <3>2 DEF Calls
  <2>6. QED
    BY <2>3, <2>4, <2>5 DEF ledgerVars
<1>12. ASSUME Time \/ UNCHANGED vars PROVE Shrinks
  BY <1>12 DEF Time, Tick, vars, clientVars, ledgerVars, Live, InFlight, Calls
<1> HIDE DEF Shrinks
<1>13. Shrinks
  BY <1>2, <1>3, <1>4, <1>5, <1>6, <1>7, <1>8, <1>9, <1>10, <1>11, <1>12
<1>14. QED
  BY <1>13 DEF Shrinks

LEMMA CoverageStep ==
    ASSUME CoordinationTypeOK, Backing, Coverage, Seen, Timely,
           ClockError + Drift <= Skew, [CoordinationNext /\ ScansInOrder]_vars
    PROVE  Coverage'
<1>1. CoordinationTypeOK' /\ Backing'
  BY CoordinationTypeStep, BackingStep
<1>2. CASE ScansInOrder /\ \E i \in Instance : Publish(i)
  BY <1>2, PublishCoverage
<1>3. CASE \E i \in Instance : Serve(i) \/ AnswerLost(i)
  BY <1>1, <1>3, ServeCoverage
<1>4. CASE \E c \in late : ServeLate(c)
  BY <1>1, <1>4, LateCoverage
<1>5. CASE \/ \E i \in Instance :
                \/ Scan(i) \/ ScanFails(i) \/ Ask(i) \/ Send(i) \/ TimeOut(i) \/ Refresh(i)
                \/ IntentFails(i) \/ Confirmed(i) \/ Rejected(i) \/ Unconfirmed(i)
                \/ \E k \in Key : Attempt(i, k)
           \/ \E k \in Key : Place(k) \/ Fill(k) \/ Reject(k) \/ CloseOut(k)
           \/ \E t \in Terminal : Crash(t)
           \/ Time \/ UNCHANGED vars
  <2>1. /\ Live' \subseteq Live
        /\ UNCHANGED <<snapshot, reservations>> /\ clock' \in {clock, clock + 1}
        /\ \A c \in Calls' : c \in Calls \/ (c.snap = None /\ ~ Closing(c))
    BY <1>5, OtherStepsShrink
  <2>2. \A c \in Calls : c.snap # None => Gone(c.snap.at)' \subseteq Gone(c.snap.at)
    BY <2>1 DEF Gone, Closing
  <2>3. \A c \in Calls' : c \in Calls \/ CallCovered(c)'
    BY <2>1 DEF CallCovered
  <2>4. QED
    BY <2>1, <2>2, <2>3, SameLedgerCoverage
<1>6. QED
  BY <1>2, <1>3, <1>4, <1>5 DEF CoordinationNext, Client

\* A scan stays covered while its chart waits, when nothing becomes live but what
\* is safe, and nothing stops being safe.
LEMMA SeenStays ==
    ASSUME Seen, NEW i \in Instance, CoordinationTypeOK,
           seen'[i] = seen[i], phase'[i] = phase[i], key'[i] = key[i], wire'[i] = wire[i],
           Safe \subseteq Safe',
           \A k \in Live' : k \in Live \/ (k \in Safe' /\ k \notin Ending(i))
    PROVE  SeenCovered(i)'
<1> SUFFICES ASSUME seen[i] # None PROVE SeenCovered(i)'
  BY DEF SeenCovered
<1> DEFINE old == Live \ (Safe \ Ending(i))
           new == Live' \ (Safe' \ Ending(i))
<1>1. new \in SUBSET old /\ old \in SUBSET Key
  BY DEF Live
<1>2. /\ wire[i] = None /\ phase[i] \in {"off", "refresh", "entry", "release", "settle"}
      /\ RiskOf(old) <= seen[i]
  BY DEF Seen, SeenCovered
<1>3. seen[i] \in Nat
  <2>1. \A m \in Exposure : m \in Nat
    BY LedgerConstants
  <2>2. QED
    BY <2>1 DEF CoordinationTypeOK
<1> HIDE DEF old, new
<1>4. RiskOf(new) <= RiskOf(old) /\ RiskOf(new) \in Nat /\ RiskOf(old) \in Nat
  BY <1>1, StakeSums
<1>5. RiskOf(new) <= seen[i]
  BY <1>2, <1>3, <1>4
<1>6. QED
  BY <1>2, <1>5 DEF SeenCovered, new, Ending

\* Serving a call leaves what is safe counted.
LEMMA PerformKeepsSafe ==
    ASSUME CoordinationTypeOK, NEW c \in Calls, NEW now \in Captured, Perform(now, c),
           clock' = clock, Calls' \subseteq Calls
    PROVE  Safe \subseteq Safe'
<1>1. c \in Call /\ clock \in Nat /\ Skew \in Nat
  BY CallsTyped, LedgerConstants DEF CoordinationTypeOK, TypeOK
<1> SUFFICES ASSUME NEW k \in Safe PROVE k \in Safe'
  OBVIOUS
<1>2. /\ k \in Active /\ reservations[k].expires > clock + Skew
      /\ \A d \in Calls : k \notin Closes(d)
  BY DEF Safe, Counted
<1>3. /\ k \in Key /\ reservations[k] # None /\ reservations[k].expires \in Nat
      /\ reservations \in [Key -> Reservation \union {None}]
  BY <1>2 DEF Active, ActiveIn, CoordinationTypeOK, TypeOK, Reservation
<1>4. reservations'[k] = reservations[k]
  <2>1. CASE c.op = "reconcile" /\ Reconcile(now, c.snap)
    <3>1. c.snap.at <= clock + Skew /\ c.snap.at \in Int
      <4>1. c.snap.at \in Int /\ now \in Int /\ now <= clock
        BY <1>1, <2>1, SnapshotNumbers DEF Call, Captured
      <4>2. c.snap.at <= now + Skew
        BY <2>1 DEF Reconcile, MayReconcile, Fresh
      <4>3. QED
        BY <1>1, <4>1, <4>2
    <3>2. ~ (reservations[k].expires <= c.snap.at)
      BY <1>1, <1>2, <1>3, <3>1
    <3>3. QED
      BY <1>3, <2>1, <3>2 DEF Reconcile, Close
  <2>2. CASE c.op = "reserve" /\ Reserve(now, c.from, c.key, Amount[c.key])
    BY <1>3, <2>2 DEF Reserve, MayReserve
  <2>3. CASE Closing(c) /\ (Release(now, c.from, c.key, c.snap)
                              \/ Settle(now, c.from, c.key, c.snap))
    BY <1>2, <1>3, <2>3 DEF Release, Settle, Close, Closes
  <2>4. QED
    BY <2>1, <2>2, <2>3 DEF Perform, Closing
<1>5. k \in Counted(clock + Skew)'
  BY <1>2, <1>3, <1>4 DEF Counted, Active, ActiveIn
<1>6. \A d \in Calls' : k \notin Closes(d)'
  BY <1>2 DEF Closes, Closing
<1>7. QED
  BY <1>5, <1>6 DEF Safe

\* What is safe stays safe when the ledger and the clock stand still and no call
\* is posted that closes a reservation.
LEMMA SafeStays ==
    ASSUME UNCHANGED <<clock, reservations>>,
           \A c \in Calls' : c \in Calls \/ ~ Closing(c)
    PROVE  Safe \subseteq Safe'
  BY DEF Safe, Counted, Active, ActiveIn, Closes, Closing

\* A chart that holds a scan waits for nobody: the other steps are not its own.
LEMMA HoldersWait ==
    ASSUME CoordinationTypeOK, Seen,
           \/ \E i \in Instance :
                \/ ScanFails(i) \/ Ask(i) \/ Send(i) \/ TimeOut(i) \/ Refresh(i)
                \/ IntentFails(i) \/ Confirmed(i) \/ Rejected(i) \/ Unconfirmed(i)
                \/ Serve(i) \/ AnswerLost(i)
                \/ \E k \in Key : Attempt(i, k)
           \/ \E c \in late : ServeLate(c)
           \/ \E k \in Key : Place(k) \/ Fill(k) \/ Reject(k) \/ CloseOut(k)
           \/ \E t \in Terminal : Crash(t)
           \/ Time \/ UNCHANGED vars,
           NEW i \in Instance, seen'[i] # None
    PROVE  /\ seen'[i] = seen[i] /\ phase'[i] = phase[i]
           /\ key'[i] = key[i] /\ wire'[i] = wire[i]
<1>1. /\ wire \in [Instance -> Call \union {None}]
      /\ phase \in [Instance -> Attempting \union {"off", "idle", "refresh"}]
      /\ key \in [Instance -> Key \union {None}]
  BY DEF CoordinationTypeOK
<1> DEFINE Waits == /\ seen'[i] = seen[i] /\ phase'[i] = phase[i]
                    /\ key'[i] = key[i] /\ wire'[i] = wire[i]
<1>2. seen[i] # None => /\ wire[i] = None
                        /\ phase[i] \in {"off", "refresh", "entry", "release", "settle"}
  BY DEF Seen, SeenCovered
<1>3. ASSUME NEW j \in Instance, Serve(j) \/ AnswerLost(j) \/ TimeOut(j) PROVE Waits
  <2>1. wire[j] # None /\ \E ok \in BOOLEAN : Return(j, ok)
    BY <1>3 DEF Serve, AnswerLost, TimeOut
  <2>2. seen' = seen /\ wire' = [wire EXCEPT ![j] = None]
    BY <2>1 DEF Return
  <2>3. i # j
    BY <1>2, <2>1, <2>2
  <2>4. phase'[i] = phase[i] /\ key'[i] = key[i]
    BY <1>1, <2>1, <2>3 DEF Return, EndAttempt, Leave, Started, Goto
  <2>5. QED
    BY <1>1, <2>2, <2>3, <2>4
<1>4. ASSUME NEW j \in Instance, ScanFails(j) PROVE Waits
  <2>1. i # j
    BY <1>4 DEF ScanFails, Quiet
  <2>2. QED
    BY <1>1, <1>4, <2>1 DEF ScanFails, EndAttempt, Leave
<1>5. ASSUME NEW j \in Instance, Refresh(j) \/ \E k \in Key : Attempt(j, k) PROVE Waits
  <2>1. i # j
    BY <1>2, <1>5 DEF Refresh, Attempt, Rested
  <2>2. QED
    BY <1>1, <1>5, <2>1 DEF Refresh, Attempt, Goto
<1>6. ASSUME NEW j \in Instance,
             \/ Ask(j) \/ Send(j)
             \/ IntentFails(j) \/ Confirmed(j) \/ Rejected(j) \/ Unconfirmed(j)
      PROVE Waits
  <2>1. i # j
    BY <1>2, <1>6 DEF Ask, Send, IntentFails, Confirmed, Rejected, Unconfirmed
  <2>2. QED
    BY <1>1, <1>6, <2>1 DEF Ask, Send, IntentFails, Confirmed, Rejected, Unconfirmed, Goto
<1>7. ASSUME \/ \E c \in late : ServeLate(c)
             \/ \E k \in Key : Place(k) \/ Fill(k) \/ Reject(k) \/ CloseOut(k)
             \/ Time \/ UNCHANGED vars
      PROVE  Waits
  BY <1>7 DEF ServeLate, Place, Fill, Reject, CloseOut, BrokerMoves, Time, clientVars, vars
<1>8. ASSUME NEW t \in Terminal, Crash(t) PROVE Waits
  <2>1. Home[i] # t
    BY <1>8 DEF Crash
  <2>2. QED
    BY <1>8, <2>1 DEF Crash
<1> HIDE DEF Waits
<1>9. Waits
  BY <1>3, <1>4, <1>5, <1>6, <1>7, <1>8
<1>10. QED
  BY <1>9 DEF Waits

LEMMA ServeSeen ==
    ASSUME CoordinationTypeOK, CoordinationTypeOK', Backing, Backing', Seen,
           NEW j \in Instance, Serve(j) \/ AnswerLost(j)
    PROVE  Seen'
<1> SUFFICES ASSUME NEW i \in Instance, seen'[i] # None PROVE SeenCovered(i)'
  BY DEF Seen, SeenCovered
<1>1. /\ wire[j] # None /\ wire[j] \in Calls /\ late' = late
      /\ wire \in [Instance -> Call \union {None}]
  BY DEF Serve, AnswerLost, Calls, CoordinationTypeOK
<1>2. PICK now \in Captured, ok \in BOOLEAN :
        /\ Return(j, ok)
        /\ Perform(now, wire[j]) \/ (UNCHANGED ledgerVars /\ ~ ok)
  BY DEF Serve, AnswerLost
<1>3. /\ seen'[i] = seen[i] /\ phase'[i] = phase[i]
      /\ key'[i] = key[i] /\ wire'[i] = wire[i]
  BY HoldersWait
<1>4. Calls' \subseteq Calls
  BY <1>1, <1>2 DEF Return, Calls
<1>5. clock' = clock
  BY <1>1, <1>2, PerformKeepsFlights DEF ledgerVars
<1>6. Safe \subseteq Safe'
  <2>1. CASE Perform(now, wire[j])
    BY <1>1, <1>4, <1>5, <2>1, PerformKeepsSafe
  <2>2. CASE UNCHANGED ledgerVars
    BY <1>4, <1>5, <2>2, SafeStays DEF ledgerVars
  <2>3. QED
    BY <1>2, <2>1, <2>2
<1>7. ASSUME NEW k \in Live', k \notin Live PROVE k \in Safe' /\ k \notin Ending(i)
  <2>1. /\ InFlight(k)' /\ phase[j] = "reserve" /\ k = key[j] /\ k \in Key
        /\ \A d \in Calls : k \notin Closes(d)
    BY <1>2, <1>7, ReturnLive DEF Live
  <2>2. k \in Counted(clock + Skew)'
    BY <2>1 DEF Backing, FlightsBacked, Counted
  <2>3. \A d \in Calls' : k \notin Closes(d)'
    BY <1>4, <2>1 DEF Closes, Closing
  <2>4. k \notin Ending(i)
    BY <2>1, OwnKeys DEF Ending, Attempting
  <2>5. QED
    BY <2>2, <2>3, <2>4 DEF Safe
<1>8. QED
  BY <1>3, <1>6, <1>7, SeenStays

LEMMA SeenStep ==
    ASSUME CoordinationTypeOK, Backing, Seen, Timely,
           [CoordinationNext /\ ScansInOrder]_vars
    PROVE  Seen'
<1>1. CoordinationTypeOK' /\ Backing'
  BY CoordinationTypeStep, BackingStep
<1>2. CASE \E i \in Instance : Serve(i) \/ AnswerLost(i)
  BY <1>1, <1>2, ServeSeen
<1>3. ASSUME NEW j \in Instance, Publish(j), ScansInOrder PROVE Seen'
  <2> SUFFICES ASSUME NEW i \in Instance, seen'[i] # None PROVE SeenCovered(i)'
    BY DEF Seen, SeenCovered
  <2>1. PICK at \in 1 .. Horizon + Skew, c \in Call :
          c = Posted(j, at) /\ wire' = [wire EXCEPT ![j] = c]
    BY <1>3, StampIsNear
  <2>2. /\ UNCHANGED <<ledgerVars, phase, key, late, order>>
        /\ wire \in [Instance -> Call \union {None}] /\ wire[j] = None
        /\ seen' = [seen EXCEPT ![j] = None] /\ c # None
        /\ seen \in [Instance -> Exposure \union {None}]
    BY <1>3, CoordinationConstants DEF Publish, CoordinationTypeOK
  <2>3. i # j /\ seen'[i] = seen[i]
    BY <2>2
  <2>4. ~ Closing(c)
    BY <1>3, <2>1, <2>2, <2>3 DEF ScansInOrder
  <2>5. Calls' \subseteq Calls \union {c}
    BY <2>1, <2>2 DEF Calls
  <2>6. Safe \subseteq Safe'
    BY <2>2, <2>4, <2>5, SafeStays DEF ledgerVars
  <2>7. Live' = Live
    BY <2>2 DEF Live, InFlight
  <2>8. wire'[i] = wire[i]
    BY <2>1, <2>2, <2>3
  <2>9. QED
    BY <2>2, <2>3, <2>6, <2>7, <2>8, SeenStays
<1>4. ASSUME NEW j \in Instance, Scan(j) PROVE Seen'
  <2>1. /\ UNCHANGED <<ledgerVars, phase, key, wire, late, order>>
        /\ seen' = [seen EXCEPT ![j] = BrokerRisk] /\ wire[j] = None
        /\ phase[j] \in {"off", "refresh", "entry", "release", "settle"}
        /\ seen \in [Instance -> Exposure \union {None}]
    BY <1>4 DEF Scan, Quiet, CoordinationTypeOK
  <2>2. Live' = Live /\ Safe' = Safe
    BY <2>1 DEF Live, InFlight, Safe, Counted, Active, ActiveIn, Calls, Closes, Closing,
                ledgerVars
  <2>3. ASSUME NEW i \in Instance, i # j PROVE SeenCovered(i)'
    BY <2>1, <2>2, <2>3, SeenStays
  <2>4. SeenCovered(j)'
    BY <2>1, <2>2, ScanCovers DEF SeenCovered, Ending
  <2>5. QED
    BY <2>3, <2>4 DEF Seen
<1>5. CASE \E c \in late : ServeLate(c)
  <2> SUFFICES ASSUME NEW i \in Instance, seen'[i] # None PROVE SeenCovered(i)'
    BY DEF Seen, SeenCovered
  <2>1. PICK c \in late : ServeLate(c)
    BY <1>5
  <2>2. c \in Calls /\ Calls' \subseteq Calls /\ Live' = Live
    BY <2>1 DEF ServeLate, Calls, Live, InFlight, clientVars
  <2>3. PICK now \in Captured : Perform(now, c) \/ UNCHANGED ledgerVars
    BY <2>1 DEF ServeLate
  <2>4. clock' = clock
    BY <2>2, <2>3, PerformKeepsFlights DEF ledgerVars
  <2>5. Safe \subseteq Safe'
    <3>1. CASE Perform(now, c)
      BY <2>2, <2>4, <3>1, PerformKeepsSafe
    <3>2. CASE UNCHANGED ledgerVars
      BY <2>2, <2>4, <3>2, SafeStays DEF ledgerVars
    <3>3. QED
      BY <2>3, <3>1, <3>2
  <2>6. /\ seen'[i] = seen[i] /\ phase'[i] = phase[i]
        /\ key'[i] = key[i] /\ wire'[i] = wire[i]
    BY <1>5, HoldersWait
  <2>7. QED
    BY <2>2, <2>5, <2>6, SeenStays
<1>6. CASE Time
  <2> SUFFICES ASSUME NEW i \in Instance, seen'[i] # None PROVE SeenCovered(i)'
    BY DEF Seen, SeenCovered
  <2>1. /\ clock' = clock + 1 /\ clock \in Nat /\ Skew \in Nat
        /\ UNCHANGED <<snapshot, reservations, clientVars, late, order>>
        /\ reservations \in [Key -> Reservation \union {None}]
    BY <1>6, LedgerConstants DEF Time, Tick, CoordinationTypeOK, TypeOK
  <2>2. Live' = Live /\ Calls' = Calls
    BY <2>1 DEF Live, InFlight, Calls, clientVars
  <2>3. seen[i] # None
    BY <2>1 DEF clientVars
  <2>4. ASSUME NEW k \in Safe PROVE k \in Safe'
    <3>1. /\ k \in Active /\ reservations[k].expires > clock + Skew
          /\ \A d \in Calls : k \notin Closes(d)
      BY DEF Safe, Counted
    <3>2. k \in Key /\ reservations[k] # None /\ reservations[k].expires \in Nat
      BY <2>1, <3>1 DEF Active, ActiveIn, Reservation
    <3>3. reservations[k].expires # clock' + Skew
      BY <1>6, <2>3, <3>2 DEF Time, Timely
    <3>4. reservations[k].expires > clock' + Skew
      BY <2>1, <3>1, <3>2, <3>3
    <3>5. k \in Counted(clock + Skew)'
      BY <2>1, <3>1, <3>4 DEF Counted, Active, ActiveIn
    <3>6. QED
      BY <2>2, <3>1, <3>5 DEF Safe, Closes, Closing
  <2>5. /\ seen'[i] = seen[i] /\ phase'[i] = phase[i]
        /\ key'[i] = key[i] /\ wire'[i] = wire[i]
    BY <2>1 DEF clientVars
  <2>6. QED
    BY <2>2, <2>4, <2>5, SeenStays
<1>7. CASE \/ \E i \in Instance :
                \/ ScanFails(i) \/ Ask(i) \/ Send(i) \/ TimeOut(i) \/ Refresh(i)
                \/ IntentFails(i) \/ Confirmed(i) \/ Rejected(i) \/ Unconfirmed(i)
                \/ \E k \in Key : Attempt(i, k)
           \/ \E k \in Key : Place(k) \/ Fill(k) \/ Reject(k) \/ CloseOut(k)
           \/ \E t \in Terminal : Crash(t)
           \/ UNCHANGED vars
  <2> SUFFICES ASSUME NEW i \in Instance, seen'[i] # None PROVE SeenCovered(i)'
    BY DEF Seen, SeenCovered
  <2>1. /\ Live' \subseteq Live /\ UNCHANGED <<snapshot, reservations>>
        /\ \A c \in Calls' : c \in Calls \/ (c.snap = None /\ ~ Closing(c))
    BY <1>7, OtherStepsShrink
  <2>2. clock' = clock
    BY <1>7 DEF ScanFails, Ask, Send, TimeOut, Refresh, IntentFails, Confirmed, Rejected,
                Unconfirmed, Attempt, Place, Fill, Reject, CloseOut, BrokerMoves, Crash,
                vars, ledgerVars
  <2>3. Safe \subseteq Safe'
    BY <2>1, <2>2, SafeStays
  <2>4. /\ seen'[i] = seen[i] /\ phase'[i] = phase[i]
        /\ key'[i] = key[i] /\ wire'[i] = wire[i]
    BY <1>7, HoldersWait
  <2>5. QED
    BY <2>1, <2>3, <2>4, SeenStays
<1>8. QED
  BY <1>2, <1>3, <1>4, <1>5, <1>6, <1>7 DEF CoordinationNext, Client

LEMMA CoverageInit == CoordinationInit => Coverage /\ Seen
<1> SUFFICES ASSUME CoordinationInit PROVE Coverage /\ Seen
  OBVIOUS
<1>1. snapshot = None /\ \A k \in Key : reservations[k] = None
  BY DEF CoordinationInit, Init
<1>2. Calls = {}
  BY DEF CoordinationInit, Calls
<1>3. Seen
  BY DEF CoordinationInit, Seen, SeenCovered
<1>4. QED
  BY <1>1, <1>2, <1>3 DEF Coverage, StoredCovered, RowsAreStakes

\* The three parts of the argument hold together.
LEMMA CoverageHolds ==
    ASSUME Timely, ClockError + Drift <= Skew
    PROVE  OrderedCoordination => [](CoordinationTypeOK /\ Backing /\ Coverage)
<1> DEFINE Held == CoordinationTypeOK /\ Backing /\ Coverage /\ Seen
<1>1. CoordinationInit => Held
  BY CoordinationTypeInit, BackingInit, CoverageInit
<1>2. Held /\ [CoordinationNext /\ ScansInOrder]_vars => Held'
  <2> SUFFICES ASSUME Held, [CoordinationNext /\ ScansInOrder]_vars PROVE Held'
    OBVIOUS
  <2>1. [CoordinationNext]_vars
    OBVIOUS
  <2>2. CoordinationTypeOK' /\ Backing'
    BY <2>1, CoordinationTypeStep, BackingStep
  <2>3. Coverage'
    BY CoverageStep
  <2>4. Seen'
    BY SeenStep
  <2>5. QED
    BY <2>2, <2>3, <2>4
<1>3. Held => CoordinationTypeOK /\ Backing /\ Coverage
  OBVIOUS
<1> HIDE DEF Held
<1>4. QED
  BY <1>1, <1>2, <1>3, PTL DEF OrderedCoordination

\* The ledger never underestimates the account: the stored exposure and the
\* active reservations cover everything filled, under way or about to be sent,
\* on every terminal, however long after its scan a snapshot is stamped, however
\* wrong the stamps are within the tolerated skew, and whatever arrives late or
\* twice (risk-ledger.js:143, 204-263), as long as no reservation is given back
\* between the scan and the stamp of another chart.
THEOREM LedgerCovers ==
    ASSUME Timely, ClockError + Drift <= Skew
    PROVE  OrderedCoordination => []LedgerCoversBroker
<1>1. CoordinationTypeOK /\ Coverage => LedgerCoversBroker
  <2> SUFFICES ASSUME CoordinationTypeOK, Coverage, snapshot # None
               PROVE  RiskOf(OrdersIn(Undecided \union {"filled"}))
                        <= snapshot.risk + Reserved(Active)
    BY DEF LedgerCoversBroker
  <2>1. OrdersIn(Undecided \union {"filled"}) \in SUBSET Live /\ Live \in SUBSET Key
    BY DEF OrdersIn, Live, InFlight
  <2>2. /\ RiskOf(OrdersIn(Undecided \union {"filled"})) <= RiskOf(Live)
        /\ RiskOf(OrdersIn(Undecided \union {"filled"})) \in Nat
    BY <2>1, StakeSums
  <2>3. QED
    BY <2>2, CoverCounts
<1>2. OrderedCoordination => [](CoordinationTypeOK /\ Backing /\ Coverage)
  BY CoverageHolds
<1>3. QED
  BY <1>1, <1>2, PTL

-----------------------------------------------------------------------------
(* The ceiling.  Orders become live one by one, each by a grant that counts *)
(* everything the ledger covers.                                            *)

LiveWithinCap == WithinCap(RiskOf(Live), AccountEquity)

LEMMA LiveWithinCapStep ==
    ASSUME CoordinationTypeOK, Backing, Coverage, LiveWithinCap,
           [CoordinationNext]_vars
    PROVE  LiveWithinCap'
<1>1. AccountEquity \in Nat /\ Live \in SUBSET Key /\ Live' \in SUBSET Key
  <2>1. \A e \in Equity : e \in Nat
    BY LedgerConstants
  <2>2. QED
    BY <2>1, CoordinationConstants DEF Live
<1>2. ASSUME Live' \subseteq Live PROVE LiveWithinCap'
  <2>1. RiskOf(Live') <= RiskOf(Live) /\ RiskOf(Live') \in Nat /\ RiskOf(Live) \in Nat
    BY <1>1, <1>2, StakeSums
  <2>2. QED
    BY <1>1, <2>1 DEF LiveWithinCap, WithinCap, Tolerance
<1>3. ASSUME NEW i \in Instance, Serve(i) \/ AnswerLost(i), ~ (Live' \subseteq Live)
      PROVE  LiveWithinCap'
  <2>1. /\ wire[i] # None /\ wire[i] \in Calls /\ clock \in Nat
    BY <1>3 DEF Serve, AnswerLost, Calls, CoordinationTypeOK, TypeOK
  <2>2. PICK now \in Captured, ok \in BOOLEAN :
          /\ Return(i, ok)
          /\ Perform(now, wire[i]) \/ (UNCHANGED ledgerVars /\ ~ ok)
    BY <1>3 DEF Serve, AnswerLost
  <2>3. \A k \in Live' : k \in Live \/ (ok /\ phase[i] = "reserve" /\ k = key[i])
    BY <2>2, ReturnLive
  <2>4. ok /\ phase[i] = "reserve" /\ key[i] \notin Live
    BY <1>3, <2>3
  <2> DEFINE k == key[i]
             all == Live \union {k}
  <2>5. k \in Key /\ wire[i].op = "reserve" /\ wire[i].key = k
    BY <2>1, <2>4, OwnKeys DEF Backing, Stage, Attempting
  <2>6. MayReserve(now, k, Amount[k])
    BY <2>2, <2>4, <2>5 DEF Perform, Reserve
  <2> HIDE DEF k
  <2>7. /\ snapshot # None /\ Active = Pending(now)
        /\ WithinCap(snapshot.risk + Reserved(Active) + Amount[k], snapshot.equity)
    BY <2>6 DEF MayReserve
  <2>8. /\ RiskOf(Live) <= snapshot.risk + Reserved(Active)
        /\ snapshot.risk \in Nat /\ Reserved(Active) \in Nat /\ RiskOf(Live) \in Nat
    BY <2>7, CoverCounts
  <2>9. snapshot.equity = AccountEquity /\ Amount[k] \in Nat
    BY <2>5, <2>7, StakesAreNatural DEF Coverage, StoredCovered
  <2>10. RiskOf(all) = Amount[k] + RiskOf(Live)
    BY <1>1, <2>4, <2>5, StakeOfOne DEF k
  <2>11. Live' \in SUBSET all /\ all \in SUBSET Key
    BY <1>1, <2>3, <2>5 DEF k
  <2> HIDE DEF all
  <2>12. RiskOf(Live') <= RiskOf(all) /\ RiskOf(Live') \in Nat
    BY <2>11, StakeSums
  <2>13. QED
    BY <1>1, <2>7, <2>8, <2>9, <2>10, <2>12 DEF LiveWithinCap, WithinCap, Tolerance
<1>4. CASE \E i \in Instance : Serve(i) \/ AnswerLost(i)
  BY <1>2, <1>3, <1>4
<1>5. CASE \/ \E i \in Instance :
                \/ Scan(i) \/ ScanFails(i) \/ Ask(i) \/ Send(i) \/ TimeOut(i) \/ Refresh(i)
                \/ IntentFails(i) \/ Confirmed(i) \/ Rejected(i) \/ Unconfirmed(i)
                \/ \E k \in Key : Attempt(i, k)
           \/ \E k \in Key : Place(k) \/ Fill(k) \/ Reject(k) \/ CloseOut(k)
           \/ \E t \in Terminal : Crash(t)
           \/ Time \/ UNCHANGED vars
  BY <1>2, <1>5, OtherStepsShrink
<1>6. CASE \/ \E i \in Instance : Publish(i)
           \/ \E c \in late : ServeLate(c)
  BY <1>2, <1>6 DEF Publish, ServeLate, Live, InFlight, clientVars
<1>7. QED
  BY <1>4, <1>5, <1>6 DEF CoordinationNext, Client

\* The account-wide ceiling: what all charts of all terminals hold and have on
\* the way to the broker is within 2% of equity, because every order becomes
\* live by a grant of the ledger that covers all that is live (mq5:1284-1333
\* with risk-ledger.js:160-201).  Without ScansInOrder it is not.
THEOREM CeilingHolds ==
    ASSUME Timely, ClockError + Drift <= Skew
    PROVE  OrderedCoordination => []CommittedWithinCap
<1>1. LiveWithinCap => CommittedWithinCap
  <2> SUFFICES ASSUME LiveWithinCap PROVE CommittedWithinCap
    OBVIOUS
  <2> DEFINE sent == OrdersIn(Undecided \union {"filled"})
  <2>1. sent \in SUBSET Live /\ Live \in SUBSET Key
    BY DEF OrdersIn, Live, InFlight
  <2> HIDE DEF sent
  <2>2. RiskOf(sent) <= RiskOf(Live) /\ RiskOf(sent) \in Nat /\ RiskOf(Live) \in Nat
    BY <2>1, StakeSums
  <2>3. \A e \in Equity : e \in Nat
    BY LedgerConstants
  <2>4. WithinCap(RiskOf(sent), AccountEquity)
    BY <2>2, <2>3, CoordinationConstants DEF LiveWithinCap, WithinCap, Tolerance
  <2>5. QED
    BY <2>4 DEF CommittedWithinCap, sent
<1>2. CoordinationInit => LiveWithinCap
  <2> SUFFICES ASSUME CoordinationInit PROVE LiveWithinCap
    OBVIOUS
  <2>1. Live = {}
    BY DEF CoordinationInit, Live, InFlight, Undecided
  <2>2. RiskOf(Live) = 0
    BY <2>1, SumEmpty DEF RiskOf
  <2>3. \A e \in Equity : e \in Nat
    BY LedgerConstants
  <2>4. QED
    BY <2>2, <2>3, CoordinationConstants DEF LiveWithinCap, WithinCap, Tolerance
<1>3. OrderedCoordination => [](CoordinationTypeOK /\ Backing /\ Coverage)
  BY CoverageHolds
<1>4. CoordinationTypeOK /\ Backing /\ Coverage /\ LiveWithinCap
        /\ [CoordinationNext /\ ScansInOrder]_vars => LiveWithinCap'
  <2> SUFFICES ASSUME CoordinationTypeOK, Backing, Coverage, LiveWithinCap,
                      [CoordinationNext /\ ScansInOrder]_vars
               PROVE  LiveWithinCap'
    OBVIOUS
  <2>1. [CoordinationNext]_vars
    OBVIOUS
  <2>2. QED
    BY <2>1, LiveWithinCapStep
<1>5. QED
  BY <1>1, <1>2, <1>3, <1>4, PTL DEF OrderedCoordination

-----------------------------------------------------------------------------
(* One terminal.  With gaps, drifting clocks and old calls the ledger may    *)
(* count too little; what the charts of one terminal enter is then bounded   *)
(* by the local evaluation alone, until the terminal dies.                   *)

\* One terminal that does not die, and orders that are decided in time.
Undisturbed == Prompt /\ MaxCrashes = 0 /\ \A s, t \in Terminal : s = t

Filled == OrdersIn({"filled"})
Committed == OrdersIn(Undecided \union {"filled"})

\* Only a phase that calls waits for a call.
CallsHaveCallers ==
    \A i \in Instance : wire[i] # None => phase[i] \notin {"idle", "send", "sending"}

\* Whoever sent an order that is not decided is still in OpenMarket.
SendersWait ==
    \A k \in Key : order[k] \in Undecided => \E i \in Instance : phase[i] = "sending" /\ key[i] = k

\* What an attempt found to fit when it began still fits.
EntriesStillFit ==
    \A i \in Instance : phase[i] \in {"entry", "reserve", "send"} =>
        WithinCap(RiskOf(Filled) + Amount[key[i]], AccountEquity)

UndisturbedInv ==
    HoldsMutex /\ crashes = 0 /\ CallsHaveCallers /\ SendersWait /\ EntriesStillFit /\ CommittedWithinCap

\* The caps are computed from a natural equity.
LEMMA EquityIsNatural == AccountEquity \in Nat
  BY LedgerConstants, CoordinationConstants

\* What fits next to a set of orders fits next to fewer.
LEMMA LessFits ==
    ASSUME NEW L \in SUBSET Key, NEW K \in SUBSET L, NEW m \in Nat,
           WithinCap(RiskOf(L) + m, AccountEquity)
    PROVE  WithinCap(RiskOf(K) + m, AccountEquity)
<1>1. RiskOf(K) \in Nat /\ RiskOf(L) \in Nat /\ RiskOf(K) <= RiskOf(L)
  BY StakeSums
<1> QED
  BY <1>1, EquityIsNatural DEF WithinCap, Tolerance

\* One attempt at a time in the terminal.
LEMMA OneAttempt ==
    ASSUME CoordinationTypeOK, HoldsMutex, Undisturbed, NEW i \in Instance, NEW j \in Instance,
           phase[i] \in Attempting, phase[j] \in Attempting
    PROVE  i = j
<1>1. Home[i] \in Terminal /\ Home[j] \in Terminal
  BY CoordinationConstants
<1>2. Home[i] = Home[j]
  BY <1>1 DEF Undisturbed
<1> QED
  BY <1>2 DEF HoldsMutex

\* How an instance may move without an order: it stays, leaves a phase in which
\* it waits for no order, or goes on with its attempt.
Walks(i) ==
    \/ phase'[i] = phase[i] /\ key'[i] = key[i]
    \/ phase'[i] \notin {"entry", "reserve", "send"} /\ (phase[i] = "sending" => order[key[i]] \notin Undecided)
    \/ phase[i] \in {"entry", "reserve"} /\ key'[i] = key[i]

\* A step that sends, fills and attempts nothing.
LEMMA UndisturbedWalk ==
    ASSUME CoordinationTypeOK, UndisturbedInv, \A i \in Instance : Walks(i),
           HoldsMutex', crashes' = 0, CallsHaveCallers',
           \A k \in Key : order'[k] \in Undecided => order[k] \in Undecided,
           \A k \in Key : order'[k] = "filled" => order[k] = "filled"
    PROVE  UndisturbedInv'
<1>1. Filled' \in SUBSET Filled /\ Filled \in SUBSET Key
  BY DEF Filled, OrdersIn
<1>2. Committed' \in SUBSET Committed /\ Committed \in SUBSET Key
  BY DEF Committed, OrdersIn
<1>3. SendersWait'
  <2> SUFFICES ASSUME NEW k \in Key, order'[k] \in Undecided
               PROVE  \E i \in Instance : phase'[i] = "sending" /\ key'[i] = k
    BY DEF SendersWait
  <2>1. order[k] \in Undecided
    OBVIOUS
  <2>2. PICK i \in Instance : phase[i] = "sending" /\ key[i] = k
    BY <2>1 DEF UndisturbedInv, SendersWait
  <2>3. phase'[i] = phase[i] /\ key'[i] = key[i]
    BY <2>1, <2>2 DEF Walks
  <2> QED
    BY <2>2, <2>3
<1>4. EntriesStillFit'
  <2> SUFFICES ASSUME NEW i \in Instance, phase'[i] \in {"entry", "reserve", "send"}
               PROVE  WithinCap(RiskOf(Filled') + Amount[key'[i]], AccountEquity)
    BY DEF EntriesStillFit
  <2>1. key'[i] = key[i] /\ phase[i] \in {"entry", "reserve", "send"}
    BY DEF Walks
  <2>2. key[i] \in Key
    BY <2>1, OwnKeys DEF Attempting
  <2>3. WithinCap(RiskOf(Filled) + Amount[key[i]], AccountEquity)
    BY <2>1 DEF UndisturbedInv, EntriesStillFit
  <2> QED
    BY <1>1, <2>1, <2>2, <2>3, LessFits, StakesAreNatural
<1>5. CommittedWithinCap'
  <2>1. WithinCap(RiskOf(Committed), AccountEquity)
    BY DEF UndisturbedInv, CommittedWithinCap, Committed
  <2>2. RiskOf(Committed') \in Nat /\ RiskOf(Committed) \in Nat /\ RiskOf(Committed') <= RiskOf(Committed)
    BY <1>2, StakeSums
  <2>3. WithinCap(RiskOf(Committed'), AccountEquity)
    BY <2>1, <2>2, EquityIsNatural DEF WithinCap, Tolerance
  <2> QED
    BY <2>3 DEF CommittedWithinCap, Committed
<1> QED
  BY <1>3, <1>4, <1>5 DEF UndisturbedInv

\* The orders of a step that sends and fills none.
OrdersOnlyEnd ==
    \A k \in Key :
        /\ order'[k] \in Undecided => order[k] \in Undecided
        /\ order'[k] = "filled" => order[k] = "filled"

\* The answer of a call ends an attempt or takes it on, and sends no order.
LEMMA ReturnWalks ==
    ASSUME CoordinationTypeOK, UndisturbedInv, NEW i \in Instance, NEW ok \in BOOLEAN,
           wire[i] # None, Return(i, ok)
    PROVE  /\ \A j \in Instance : Walks(j)
           /\ CallsHaveCallers' /\ crashes' = crashes /\ OrdersOnlyEnd
<1>1. /\ wire \in [Instance -> Call \union {None}]
      /\ phase \in [Instance -> Attempting \union {"off", "idle", "refresh"}]
      /\ key \in [Instance -> Key \union {None}]
      /\ order \in [Key -> {"none", "asked", "sent", "placed", "filled", "rejected", "closed"}]
      /\ wire' = [wire EXCEPT ![i] = None]
      /\ crashes' = crashes
  BY DEF CoordinationTypeOK, Return
<1>2. phase[i] \notin {"idle", "send", "sending"}
  BY DEF UndisturbedInv, CallsHaveCallers
<1>3. \/ UNCHANGED <<phase, key>>
      \/ \E p \in {"idle", "reserve", "send"} :
            /\ phase' = [phase EXCEPT ![i] = p]
            /\ p # "idle" => phase[i] \in {"entry", "reserve"} /\ key' = key
            /\ key' = key \/ key' = [key EXCEPT ![i] = None]
  <2>1. CASE Started(i)
    BY <2>1 DEF Started
  <2>2. CASE phase[i] \in DOMAIN Granted /\ Goto(i, Granted[phase[i]])
    <3>1. phase[i] \in {"entry", "reserve"} /\ key' = key /\ phase' = [phase EXCEPT ![i] = Granted[phase[i]]]
      BY <2>2 DEF Granted, Goto
    <3>2. Granted[phase[i]] \in {"reserve", "send"}
      BY <3>1 DEF Granted
    <3> QED
      BY <3>1, <3>2
  <2>3. CASE Leave(i)
    BY <2>3 DEF Leave
  <2>4. CASE UNCHANGED <<phase, key>>
    BY <2>4
  <2> HIDE DEF Started, Goto, Leave
  <2>5. Started(i) \/ UNCHANGED <<phase, key>> \/ (phase[i] \in DOMAIN Granted /\ Goto(i, Granted[phase[i]])) \/ Leave(i)
    BY Zenon DEF Return, EndAttempt
  <2> QED
    BY <2>1, <2>2, <2>3, <2>4, <2>5
<1>4. \A j \in Instance : Walks(j)
  BY <1>1, <1>2, <1>3 DEF Walks
<1>5. CallsHaveCallers'
  <2> SUFFICES ASSUME NEW j \in Instance, wire'[j] # None PROVE phase'[j] \notin {"idle", "send", "sending"}
    BY DEF CallsHaveCallers
  <2>1. j # i /\ wire[j] # None
    BY <1>1
  <2>2. phase'[j] = phase[j]
    BY <1>1, <1>3, <2>1
  <2> QED
    BY <2>1, <2>2 DEF UndisturbedInv, CallsHaveCallers
<1>6. OrdersOnlyEnd
  <2>1. CASE UNCHANGED order
    BY <2>1 DEF OrdersOnlyEnd
  <2>2. CASE DefensiveClose(i)
    BY <1>1, <2>2 DEF DefensiveClose, Own, OrdersOnlyEnd, Undecided
  <2> QED
    BY <2>1, <2>2 DEF Return, Started, EndAttempt
<1> QED
  BY <1>1, <1>4, <1>5, <1>6

\* An attempt begins when its order fits what is filled.
LEMMA UndisturbedAttempt ==
    ASSUME CoordinationTypeOK, UndisturbedInv, HoldsMutex', NEW i \in Instance, NEW k \in Key, Attempt(i, k)
    PROVE  UndisturbedInv'
<1>1. /\ phase' = [phase EXCEPT ![i] = "entry"] /\ phase[i] = "idle"
      /\ key' = [key EXCEPT ![i] = k]
      /\ UNCHANGED <<wire, order, crashes>>
      /\ phase \in [Instance -> Attempting \union {"off", "idle", "refresh"}]
      /\ key \in [Instance -> Key \union {None}]
      /\ WithinCap(RiskOf(Filled) + Amount[k], AccountEquity)
  BY DEF Attempt, Rested, CoordinationTypeOK, BrokerRisk, Filled
<1>2. Filled' = Filled /\ CommittedWithinCap'
  <2>1. OrdersIn({"filled"})' = OrdersIn({"filled"})
        /\ OrdersIn(Undecided \union {"filled"})' = OrdersIn(Undecided \union {"filled"})
    BY <1>1 DEF OrdersIn
  <2> QED
    BY <2>1 DEF UndisturbedInv, CommittedWithinCap, Filled
<1>3. CallsHaveCallers'
  BY <1>1 DEF UndisturbedInv, CallsHaveCallers
<1>4. SendersWait'
  <2> SUFFICES ASSUME NEW l \in Key, order'[l] \in Undecided
               PROVE  \E j \in Instance : phase'[j] = "sending" /\ key'[j] = l
    BY DEF SendersWait
  <2>1. PICK j \in Instance : phase[j] = "sending" /\ key[j] = l
    BY <1>1 DEF UndisturbedInv, SendersWait
  <2> QED
    BY <1>1, <2>1
<1>5. EntriesStillFit'
  <2> SUFFICES ASSUME NEW j \in Instance, phase'[j] \in {"entry", "reserve", "send"}
               PROVE  WithinCap(RiskOf(Filled') + Amount[key'[j]], AccountEquity)
    BY DEF EntriesStillFit
  <2>1. CASE j = i
    BY <1>1, <1>2, <2>1
  <2>2. CASE j # i
    BY <1>1, <1>2, <2>2 DEF UndisturbedInv, EntriesStillFit
  <2> QED
    BY <2>1, <2>2
<1> QED
  BY <1>1, <1>2, <1>3, <1>4, <1>5 DEF UndisturbedInv

\* An order leaves when nothing else is under way, and it still fits.
LEMMA UndisturbedSend ==
    ASSUME CoordinationTypeOK, UndisturbedInv, Undisturbed, HoldsMutex', NEW i \in Instance, Send(i)
    PROVE  UndisturbedInv'
<1> DEFINE k == key[i]
<1>1. /\ phase[i] = "send" /\ phase' = [phase EXCEPT ![i] = "sending"] /\ key' = key
      /\ order' = [order EXCEPT ![k] = "sent"]
      /\ UNCHANGED <<wire, crashes>>
      /\ phase \in [Instance -> Attempting \union {"off", "idle", "refresh"}]
      /\ order \in [Key -> {"none", "asked", "sent", "placed", "filled", "rejected", "closed"}]
  BY DEF Send, Goto, CoordinationTypeOK
<1>2. k \in Key
  BY <1>1, OwnKeys DEF Attempting
<1>3. \A j \in Instance : phase[j] \in Attempting => j = i
  <2>1. phase[i] \in Attempting
    BY <1>1 DEF Attempting
  <2> QED
    BY <2>1, OneAttempt DEF UndisturbedInv
<1>4. \A l \in Key : order[l] \notin Undecided
  BY <1>1, <1>3 DEF UndisturbedInv, SendersWait, Attempting
<1>5. SendersWait'
  BY <1>1, <1>2, <1>4 DEF SendersWait
<1>6. EntriesStillFit'
  BY <1>1, <1>3 DEF EntriesStillFit, Attempting
<1>7. CallsHaveCallers'
  BY <1>1 DEF UndisturbedInv, CallsHaveCallers
<1>8. CommittedWithinCap'
  <2>1. Filled \in SUBSET Key /\ Committed' \in SUBSET (Filled \union {k})
    BY <1>1, <1>2, <1>4 DEF Filled, Committed, OrdersIn
  <2>2. WithinCap(RiskOf(Filled) + Amount[k], AccountEquity) /\ Amount[k] \in Nat
    BY <1>1, <1>2, StakesAreNatural DEF UndisturbedInv, EntriesStillFit
  <2>3. RiskOf(Filled \union {k}) <= RiskOf(Filled) + Amount[k] /\ RiskOf(Filled) \in Nat
    <3>1. RiskOf(Filled) \in Nat
      BY <2>1, StakeSums
    <3>2. CASE k \in Filled
      <4>1. RiskOf(Filled \union {k}) = RiskOf(Filled)
        <5>1. Filled \union {k} = Filled
          BY <3>2
        <5> QED
          BY <5>1
      <4> QED
        BY <2>2, <3>1, <4>1
    <3>3. CASE k \notin Filled
      <4>1. RiskOf(Filled \union {k}) = Amount[k] + RiskOf(Filled)
        BY <1>2, <2>1, <3>3, StakeOfOne
      <4> QED
        BY <2>2, <3>1, <4>1
    <3> QED
      BY <3>1, <3>2, <3>3
  <2>4. /\ RiskOf(Committed') <= RiskOf(Filled \union {k})
        /\ RiskOf(Committed') \in Nat /\ RiskOf(Filled \union {k}) \in Nat
    <3>1. Filled \union {k} \in SUBSET Key
      BY <1>2, <2>1
    <3> QED
      BY <2>1, <3>1, StakeSums
  <2> HIDE DEF k
  <2>5. WithinCap(RiskOf(Committed'), AccountEquity)
    BY <2>2, <2>3, <2>4, EquityIsNatural DEF WithinCap, Tolerance
  <2> QED
    BY <2>5 DEF CommittedWithinCap, Committed
<1> QED
  BY <1>1, <1>5, <1>6, <1>7, <1>8 DEF UndisturbedInv

\* An order fills while its sender is the only one in an attempt.
LEMMA UndisturbedFill ==
    ASSUME CoordinationTypeOK, UndisturbedInv, Undisturbed, HoldsMutex', NEW k \in Key, Fill(k)
    PROVE  UndisturbedInv'
<1>1. /\ order[k] \in Undecided /\ order' = [order EXCEPT ![k] = "filled"]
      /\ UNCHANGED <<phase, key, wire, crashes>>
      /\ order \in [Key -> {"none", "asked", "sent", "placed", "filled", "rejected", "closed"}]
  BY DEF Fill, BrokerMoves, clientVars, CoordinationTypeOK
<1>2. PICK i \in Instance : phase[i] = "sending" /\ key[i] = k
  BY <1>1 DEF UndisturbedInv, SendersWait
<1>3. \A j \in Instance : phase[j] \in Attempting => j = i
  <2>1. phase[i] \in Attempting
    BY <1>2 DEF Attempting
  <2> QED
    BY <2>1, OneAttempt DEF UndisturbedInv
<1>4. EntriesStillFit'
  BY <1>1, <1>2, <1>3 DEF EntriesStillFit, Attempting
<1>5. CallsHaveCallers'
  BY <1>1 DEF UndisturbedInv, CallsHaveCallers
<1>6. SendersWait'
  BY <1>1 DEF UndisturbedInv, SendersWait, Undecided
<1>7. CommittedWithinCap'
  <2>1. Committed' = Committed
    BY <1>1 DEF Committed, OrdersIn, Undecided
  <2> QED
    BY <2>1 DEF UndisturbedInv, CommittedWithinCap, Committed
<1> QED
  BY <1>1, <1>4, <1>5, <1>6, <1>7 DEF UndisturbedInv

\* Every step of the coordination keeps the invariant.
LEMMA UndisturbedStep ==
    ASSUME CoordinationTypeOK, UndisturbedInv, Undisturbed, [CoordinationNext]_vars
    PROVE  UndisturbedInv'
<1>0. HoldsMutex' /\ HoldsMutex /\ crashes = 0
  BY HoldsMutexStep DEF UndisturbedInv
<1>1. /\ wire \in [Instance -> Call \union {None}]
      /\ phase \in [Instance -> Attempting \union {"off", "idle", "refresh"}]
      /\ key \in [Instance -> Key \union {None}]
      /\ order \in [Key -> {"none", "asked", "sent", "placed", "filled", "rejected", "closed"}]
      /\ \A i \in Instance : wire[i] # None => phase[i] \notin {"idle", "send", "sending"}
  BY DEF CoordinationTypeOK, UndisturbedInv, CallsHaveCallers
<1>2. ASSUME \A i \in Instance : Walks(i), CallsHaveCallers', crashes' = crashes, OrdersOnlyEnd
      PROVE  UndisturbedInv'
  BY <1>0, <1>2, UndisturbedWalk DEF OrdersOnlyEnd
<1>3. ASSUME UNCHANGED <<phase, key, order, crashes>>, CallsHaveCallers' PROVE UndisturbedInv'
  BY <1>2, <1>3 DEF Walks, OrdersOnlyEnd
<1>4. ASSUME NEW i \in Instance, Scan(i) \/ Publish(i) PROVE UndisturbedInv'
  <2>1. UNCHANGED <<phase, key, order, crashes>>
    BY <1>4 DEF Scan, Publish
  <2>2. CallsHaveCallers'
    <3>1. CASE Scan(i)
      BY <1>1, <3>1 DEF Scan, CallsHaveCallers
    <3>2. CASE Publish(i)
      <4>1. phase[i] \notin {"idle", "send", "sending"} /\ \E c : wire' = [wire EXCEPT ![i] = c]
        BY <3>2, Zenon DEF Publish
      <4> QED
        BY <1>1, <2>1, <4>1 DEF CallsHaveCallers
    <3> QED
      BY <1>4, <3>1, <3>2
  <2> QED
    BY <1>3, <2>1, <2>2
<1>5. ASSUME NEW i \in Instance, Ask(i) PROVE UndisturbedInv'
  <2>1. /\ phase[i] = "reserve" /\ UNCHANGED <<phase, key, crashes>>
        /\ order' = [order EXCEPT ![key[i]] = "asked"]
        /\ \E c : wire' = [wire EXCEPT ![i] = c]
    BY <1>5, Zenon DEF Ask
  <2>2. CallsHaveCallers' /\ OrdersOnlyEnd
    BY <1>1, <2>1 DEF CallsHaveCallers, OrdersOnlyEnd, Undecided
  <2> QED
    BY <1>2, <2>1, <2>2 DEF Walks
<1>6. ASSUME NEW i \in Instance, ScanFails(i) PROVE UndisturbedInv'
  <2>1. /\ phase[i] \in {"refresh", "entry", "release", "settle"} /\ wire[i] = None
        /\ phase' = [phase EXCEPT ![i] = "idle"] /\ key' = [key EXCEPT ![i] = None]
        /\ DefensiveClose(i) \/ UNCHANGED order
        /\ wire' = wire /\ crashes' = crashes
    BY <1>6 DEF ScanFails, EndAttempt, Leave, Quiet
  <2>2. OrdersOnlyEnd
    BY <1>1, <2>1 DEF DefensiveClose, Own, OrdersOnlyEnd, Undecided
  <2>3. CallsHaveCallers' /\ \A j \in Instance : Walks(j)
    BY <1>1, <2>1 DEF CallsHaveCallers, Walks
  <2> QED
    BY <1>2, <2>1, <2>2, <2>3
<1>7. ASSUME NEW i \in Instance, IntentFails(i) \/ Confirmed(i) \/ Rejected(i) \/ Unconfirmed(i)
      PROVE  UndisturbedInv'
  <2>1. /\ phase[i] \in {"send", "sending"} /\ phase[i] = "sending" => order[key[i]] \notin Undecided
        /\ \E p \in {"release", "settle"} : phase' = [phase EXCEPT ![i] = p]
        /\ UNCHANGED <<key, wire, order, crashes>>
    BY <1>7 DEF IntentFails, Confirmed, Rejected, Unconfirmed, Goto, Undisturbed, Undecided
  <2>2. OrdersOnlyEnd /\ CallsHaveCallers' /\ \A j \in Instance : Walks(j)
    BY <1>1, <2>1 DEF OrdersOnlyEnd, CallsHaveCallers, Walks
  <2> QED
    BY <1>2, <2>1, <2>2
<1>8. ASSUME NEW i \in Instance, TimeOut(i) \/ Serve(i) \/ AnswerLost(i) PROVE UndisturbedInv'
  <2>1. PICK ok \in BOOLEAN : wire[i] # None /\ Return(i, ok)
    BY <1>8 DEF TimeOut, Serve, AnswerLost
  <2> QED
    BY <1>2, <2>1, ReturnWalks
<1>9. ASSUME NEW i \in Instance, Refresh(i) PROVE UndisturbedInv'
  <2>1. /\ phase[i] = "idle" /\ phase' = [phase EXCEPT ![i] = "refresh"]
        /\ UNCHANGED <<key, wire, order, crashes>>
    BY <1>9 DEF Refresh, Rested, Goto
  <2>2. OrdersOnlyEnd /\ CallsHaveCallers' /\ \A j \in Instance : Walks(j)
    BY <1>1, <2>1 DEF OrdersOnlyEnd, CallsHaveCallers, Walks
  <2> QED
    BY <1>2, <2>1, <2>2
<1>10. ASSUME NEW k \in Key, Place(k) \/ Reject(k) \/ CloseOut(k) PROVE UndisturbedInv'
  <2>1. UNCHANGED <<phase, key, wire, crashes>>
    BY <1>10 DEF Place, Reject, CloseOut, BrokerMoves, clientVars
  <2>2. OrdersOnlyEnd
    BY <1>1, <1>10 DEF Place, Reject, CloseOut, BrokerMoves, OrdersOnlyEnd, Undecided
  <2>3. CallsHaveCallers' /\ \A j \in Instance : Walks(j)
    BY <1>1, <2>1 DEF CallsHaveCallers, Walks
  <2> QED
    BY <1>2, <2>1, <2>2, <2>3
<1>11. ASSUME NEW t \in Terminal, Crash(t) PROVE FALSE
  BY <1>0, <1>11 DEF Crash, Undisturbed
<1>12. CASE Time \/ (\E c \in late : ServeLate(c)) \/ UNCHANGED vars
  <2>1. UNCHANGED <<phase, key, wire, order, crashes>>
    BY <1>12 DEF Time, ServeLate, vars, clientVars
  <2>2. CallsHaveCallers'
    BY <1>1, <2>1 DEF CallsHaveCallers
  <2> QED
    BY <1>3, <2>1, <2>2
<1>13. ASSUME NEW i \in Instance, NEW k \in Key, Attempt(i, k) PROVE UndisturbedInv'
  BY <1>0, <1>13, UndisturbedAttempt
<1>14. ASSUME NEW i \in Instance, Send(i) PROVE UndisturbedInv'
  BY <1>0, <1>14, UndisturbedSend
<1>15. ASSUME NEW k \in Key, Fill(k) PROVE UndisturbedInv'
  BY <1>0, <1>15, UndisturbedFill
<1> QED
  BY <1>4, <1>5, <1>6, <1>7, <1>8, <1>9, <1>10, <1>11, <1>12, <1>13, <1>14, <1>15
     DEF CoordinationNext, Client

\* The ceiling inside one terminal needs no ledger: the mutex and the local
\* evaluation of the whole account under it (CAccountRiskCoordinator.TryAcquire
\* and Evaluate in AxAttemptEntry) keep it, whatever the clocks, the scans, lost
\* calls and old snapshots do to the ledger, until the terminal dies.
THEOREM CeilingInOneTerminal ==
    ASSUME Undisturbed PROVE Coordination => []CommittedWithinCap
<1>1. CoordinationInit => UndisturbedInv
  <2> SUFFICES ASSUME CoordinationInit PROVE UndisturbedInv
    OBVIOUS
  <2>1. /\ \A i \in Instance : phase[i] = "off" /\ wire[i] = None
        /\ \A k \in Key : order[k] = "none"
        /\ crashes = 0
    BY DEF CoordinationInit
  <2>2. HoldsMutex /\ CallsHaveCallers /\ SendersWait /\ EntriesStillFit
    BY <2>1 DEF HoldsMutex, CallsHaveCallers, SendersWait, EntriesStillFit, Attempting, Undecided
  <2>3. OrdersIn(Undecided \union {"filled"}) = {}
    BY <2>1 DEF OrdersIn, Undecided
  <2>4. RiskOf(OrdersIn(Undecided \union {"filled"})) = 0
    BY <2>3, SumEmpty DEF RiskOf
  <2>5. CommittedWithinCap
    BY <2>4, EquityIsNatural DEF CommittedWithinCap, WithinCap, Tolerance
  <2> QED
    BY <2>1, <2>2, <2>5 DEF UndisturbedInv
<1>2. CoordinationTypeOK /\ UndisturbedInv /\ [CoordinationNext]_vars => UndisturbedInv'
  BY UndisturbedStep
<1>3. UndisturbedInv => CommittedWithinCap
  BY DEF UndisturbedInv
<1>4. QED
  BY <1>1, <1>2, <1>3, CoordinationTypeCorrect, PTL DEF Coordination
=============================================================================
