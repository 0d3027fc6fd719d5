-------------------------- MODULE RiskCoordination --------------------------
(***************************************************************************)
(* The entry protocol of the live EA around the risk ledger: every chart   *)
(* (instance) of every terminal trades one account through one broker, and *)
(* asks the ledger before each order.                                      *)
(*                                                                         *)
(*   AxAttemptEntry   terminal mutex, local Evaluate, Scan + reconcile,    *)
(*                    reserve, OpenMarket, then Scan + settle or Scan +    *)
(*                    release, mutex                                       *)
(*   OnTick           Scan + reconcile after any account transaction,      *)
(*                    without the mutex                                    *)
(*   OnInit           Scan + reconcile; entries stay off without it        *)
(*                                                                         *)
(* A call is one WebRequest: it is posted, served by the ledger at a later *)
(* time, and answered; the answer may be lost, the client may stop waiting *)
(* first, and an abandoned call may still be served much later.  The       *)
(* client sends each call once and reads any failure as a refusal.         *)
(*                                                                         *)
(* A key belongs to the instance whose identifier it starts with           *)
(* (Reserve, DistributedRiskCoordinator.mqh) and stands for one attempt.   *)
(***************************************************************************)
EXTENDS RiskLedger, FiniteSets

CONSTANTS
    Terminal,      \* MT5 terminals
    Home,          \* the terminal each instance runs in
    Owner,         \* the instance each key is generated by
    Amount,        \* the stop risk of the order sent under a key
    AccountEquity, \* ACCOUNT_EQUITY, which does not move here
    ScanGap,       \* TRUE: other events may fall between a scan and its stamp
    Prompt,        \* TRUE: orders and scans are over in time, see Time and Unconfirmed
    ClockError,    \* how far an instance's clock may be from the ledger's
    Drift,         \* bound: how far ++m_lastSnapshotMs may run ahead of a clock
    MaxLate,       \* bound on abandoned calls that are still under way
    MaxCrashes     \* bound on terminal crashes

RiskOf(K) == SumFunctionOnSet(Amount, K)

\* A WebRequest: what it asks for, who sends it, the reservation it is about and
\* the snapshot it posts.
Call ==
    [op : {"reconcile"}, from : Instance, key : Key \union {None}, snap : Snapshot]
    \union [op : {"reserve"}, from : Instance, key : Key, snap : {None}]
    \union [op : {"release", "settle"}, from : Instance, key : Key, snap : Snapshot]

ASSUME CoordinationConstants ==
    /\ Home \in [Instance -> Terminal]
    /\ Owner \in [Key -> Instance]
    /\ Amount \in [Key -> RiskAmount]
    /\ AccountEquity \in Equity
    /\ ScanGap \in BOOLEAN /\ Prompt \in BOOLEAN
    /\ ClockError \in Nat /\ Drift \in Nat /\ MaxLate \in Nat /\ MaxCrashes \in Nat
    /\ None \notin Instance \union Key \union Exposure \union Call
    /\ IsFiniteSet(Key)
    /\ \A K \in SUBSET Key : RiskOf(K) \in Exposure
    /\ Instance \X (1 .. Horizon + Skew) \subseteq SnapshotId

VARIABLES
    phase,         \* where each instance is in OnInit, OnTick or AxAttemptEntry
    key,           \* the reservation of its attempt, distributedReservationId
    seen,          \* the exposure it scanned and has not posted yet
    lastStamp,     \* m_lastSnapshotMs
    ready,         \* g_recoveryReady
    wire,          \* the call it is waiting for
    late,          \* calls nobody waits for any more
    mutex,         \* the terminal-global mutex of AccountRiskCalculator.mqh
    order,         \* the broker's view of the order of each key
    crashes

clientVars == <<phase, key, seen, lastStamp, ready, wire, mutex>>
vars == <<ledgerVars, clientVars, late, order, crashes>>

\* What a call for each purpose posts; the other phases call nothing.
Op == [off |-> "reconcile", refresh |-> "reconcile", entry |-> "reconcile",
       reserve |-> "reserve", release |-> "release", settle |-> "settle"]

\* Where a granted call leads; every other answer ends what it was part of.
Granted == [entry |-> "reserve", reserve |-> "send"]

Attempting == {"entry", "reserve", "send", "sending", "release", "settle"}

Undecided == {"sent", "placed"}

CoordinationInit ==
    /\ Init
    /\ phase = [i \in Instance |-> "off"]
    /\ key = [i \in Instance |-> None]
    /\ seen = [i \in Instance |-> None]
    /\ lastStamp = [i \in Instance |-> 0]
    /\ ready = [i \in Instance |-> FALSE]
    /\ wire = [i \in Instance |-> None]
    /\ mutex = [t \in Terminal |-> None]
    /\ late = {}
    /\ order = [k \in Key |-> "none"]
    /\ crashes = 0

-----------------------------------------------------------------------------
(* The broker.  "sent": on its way, in no list of the account yet;         *)
(* "placed": in OrdersTotal; "asked": the key is used, no order was sent.  *)

OrdersIn(states) == {k \in Key : order[k] \in states}

BrokerRisk == RiskOf(OrdersIn({"filled"}))

\* A market order still in the order list has no risk Scan can value.
ScanSucceeds == OrdersIn({"placed"}) = {}

BrokerMoves(k, from, to) ==
    /\ order[k] \in from
    /\ order' = [order EXCEPT ![k] = to]
    /\ UNCHANGED <<ledgerVars, clientVars, late, crashes>>

Place(k) == BrokerMoves(k, {"sent"}, "placed")
Fill(k) == BrokerMoves(k, Undecided, "filled")
Reject(k) == BrokerMoves(k, Undecided, "rejected")
CloseOut(k) == BrokerMoves(k, {"filled"}, "closed")

-----------------------------------------------------------------------------
(* The instance's side.                                                    *)

Own(i) == {k \in Key : Owner[k] = i}

Leave_KeepsMutex(i) ==
    /\ phase' = [phase EXCEPT ![i] = "idle"]
    /\ key' = [key EXCEPT ![i] = None]
    /\ UNCHANGED mutex

\* AxAttemptEntry leaves: the mutex is given back, the attempt is over.
Leave(i) ==
    /\ phase' = [phase EXCEPT ![i] = "idle"]
    /\ key' = [key EXCEPT ![i] = None]
    /\ mutex' = [t \in Terminal |-> IF mutex[t] = i THEN None ELSE mutex[t]]

Goto(i, p) ==
    /\ phase' = [phase EXCEPT ![i] = p]
    /\ UNCHANGED <<key, mutex>>

Quiet(i) == wire[i] = None /\ seen[i] = None

\* Bound: a refresh or an attempt starts when the last stamp is not ahead.
Rested(i) == phase[i] = "idle" /\ lastStamp[i] <= clock

\* g_accountRiskReconciliationPending on a tick.
Refresh(i) ==
    /\ Rested(i)
    /\ Goto(i, "refresh")
    /\ UNCHANGED <<ledgerVars, seen, lastStamp, ready, wire, late, order, crashes>>

TryAcquire_Overwrites(i) == mutex' = [mutex EXCEPT ![Home[i]] = i]

\* GlobalVariableSetOnCondition from free to this instance's token.
TryAcquire(i) ==
    /\ mutex[Home[i]] = None
    /\ mutex' = [mutex EXCEPT ![Home[i]] = i]

\* A flat instance that is ready to enter, with no intent whose order it cannot
\* find (HasUnresolvedIntent), takes the mutex and its local evaluation of the
\* whole account approves the order.
Attempt(i, k) ==
    /\ Rested(i)
    /\ ready[i]
    /\ Owner[k] = i /\ order[k] = "none"
    /\ \A own \in Own(i) : order[own] \notin {"sent", "filled"}
    /\ TryAcquire(i)
    /\ ScanSucceeds
    /\ WithinCap(BrokerRisk + Amount[k], AccountEquity)
    /\ phase' = [phase EXCEPT ![i] = "entry"]
    /\ key' = [key EXCEPT ![i] = k]
    /\ UNCHANGED <<ledgerVars, seen, lastStamp, ready, wire, late, order, crashes>>

\* Scan before a snapshot is posted.
Scan(i) ==
    /\ ScanGap
    /\ phase[i] \in {"off", "refresh", "entry", "release", "settle"}
    /\ Quiet(i)
    /\ ScanSucceeds
    /\ seen' = [seen EXCEPT ![i] = BrokerRisk]
    /\ UNCHANGED <<ledgerVars, phase, key, lastStamp, ready, wire, mutex, late, order, crashes>>

\* AxCloseAndRecord of a fill that is unknown, over the cap or not settled (Settle
\* sets withinCap = false first); the close may itself fail.
DefensiveClose(i) ==
    \E k \in Own(i) : k = key[i] /\ \E to \in {order[k], "closed"} :
        order' = [order EXCEPT ![k] = IF order[k] = "filled" THEN to ELSE order[k]]

EndAttempt_RepeatsSettle(i, good) ==
    IF phase[i] = "settle" THEN UNCHANGED <<phase, key, mutex, order>>
    ELSE Leave(i) /\ UNCHANGED order

\* What happens to the attempt when its scan fails or its call is answered.
EndAttempt(i, good) ==
    /\ Leave(i)
    /\ IF phase[i] = "settle" /\ ~good THEN DefensiveClose(i) ELSE UNCHANGED order

ScanFails(i) ==
    /\ phase[i] \in {"refresh", "entry", "release", "settle"}
    /\ Quiet(i)
    /\ ~ScanSucceeds
    /\ EndAttempt(i, FALSE)
    /\ UNCHANGED <<ledgerVars, seen, lastStamp, ready, wire, late, crashes>>

\* The clock of an instance, and NextSnapshotTimeMs.
Readings == {r \in 1 .. clock + ClockError : clock <= r + ClockError}

NextSnapshotTime(i, reading) ==
    IF reading <= lastStamp[i] THEN lastStamp[i] + 1 ELSE reading

\* The snapshot is stamped and posted.
Publish(i) ==
    /\ phase[i] \in {"off", "refresh", "entry", "release", "settle"}
    /\ wire[i] = None
    /\ IF ScanGap THEN seen[i] # None ELSE ScanSucceeds
    /\ \E reading \in Readings :
         LET at == NextSnapshotTime(i, reading)
         IN  /\ at <= reading + Drift
             /\ at <= Horizon + Skew
             /\ lastStamp' = [lastStamp EXCEPT ![i] = at]
             /\ wire' = [wire EXCEPT ![i] =
                  [op |-> Op[phase[i]], from |-> i, key |-> key[i],
                   snap |-> [at |-> at, id |-> <<i, at>>, equity |-> AccountEquity,
                             risk |-> IF ScanGap THEN seen[i] ELSE BrokerRisk]]]
    /\ seen' = [seen EXCEPT ![i] = None]
    /\ UNCHANGED <<ledgerVars, phase, key, ready, mutex, late, order, crashes>>

\* The reservation is asked for; its key is used up.
Ask(i) ==
    /\ phase[i] = "reserve"
    /\ wire[i] = None
    /\ order' = [order EXCEPT ![key[i]] = "asked"]
    /\ wire' = [wire EXCEPT ![i] =
         [op |-> "reserve", from |-> i, key |-> key[i], snap |-> None]]
    /\ UNCHANGED <<ledgerVars, phase, key, seen, lastStamp, ready, mutex, late, crashes>>

\* CreateIntent and the order request.
Send(i) ==
    /\ phase[i] = "send"
    /\ order' = [order EXCEPT ![key[i]] = "sent"]
    /\ Goto(i, "sending")
    /\ UNCHANGED <<ledgerVars, seen, lastStamp, ready, wire, late, crashes>>

\* CreateIntent fails: no order is sent and the reservation is given back.
IntentFails(i) ==
    /\ phase[i] = "send"
    /\ ready' = [ready EXCEPT ![i] = FALSE]
    /\ Goto(i, "release")
    /\ UNCHANGED <<ledgerVars, seen, lastStamp, wire, late, order, crashes>>

\* OpenMarket returns with the position confirmed ...
Confirmed(i) ==
    /\ phase[i] = "sending"
    /\ order[key[i]] = "filled"
    /\ Goto(i, "settle")
    /\ UNCHANGED <<ledgerVars, seen, lastStamp, ready, wire, late, order, crashes>>

\* ... with a definitive rejection ...
Rejected(i) ==
    /\ phase[i] = "sending"
    /\ order[key[i]] = "rejected"
    /\ Goto(i, "release")
    /\ UNCHANGED <<ledgerVars, seen, lastStamp, ready, wire, late, order, crashes>>

\* ... or without either: a timeout, or a position it cannot see.
Unconfirmed(i) ==
    /\ phase[i] = "sending"
    /\ Prompt => order[key[i]] \notin Undecided
    /\ ready' = [ready EXCEPT ![i] = FALSE]
    /\ Goto(i, "release")
    /\ UNCHANGED <<ledgerVars, seen, lastStamp, wire, late, order, crashes>>

-----------------------------------------------------------------------------
(* The calls.                                                              *)

May(now, c) ==
    /\ c.op = "reconcile" => MayReconcile(now, c.snap)
    /\ c.op = "reserve" => MayReserve(now, c.key, Amount[c.key])
    /\ c.op = "release" => MayRelease(now, c.from, c.key, c.snap)
    /\ c.op = "settle" => MaySettle(now, c.from, c.key, c.snap)

Perform(now, c) ==
    \/ c.op = "reconcile" /\ Reconcile(now, c.snap)
    \/ c.op = "reserve" /\ Reserve(now, c.from, c.key, Amount[c.key])
    \/ c.op = "release" /\ Release(now, c.from, c.key, c.snap)
    \/ c.op = "settle" /\ Settle(now, c.from, c.key, c.snap)

OverCap(c) == c.snap # None /\ ~WithinCap(c.snap.risk, c.snap.equity)

\* OnInit ends: entries are allowed.
Started(i) ==
    /\ phase' = [phase EXCEPT ![i] = "idle"]
    /\ ready' = [ready EXCEPT ![i] = TRUE]
    /\ UNCHANGED <<key, mutex, order>>

Good_NoAnswerIsGrant(i, ok) == (ok \/ phase[i] = "reserve") /\ ~OverCap(wire[i])

Good(i, ok) == ok /\ ~OverCap(wire[i])

\* The instance acts on the answer: ok, or a refusal, or no answer at all.  An
\* EA whose OnInit fails is unloaded and forgets its last stamp.
Return(i, ok) ==
    /\ wire' = [wire EXCEPT ![i] = None]
    /\ \/ phase[i] = "off" /\ Good(i, ok) /\ Started(i)
       \/ /\ phase[i] = "off" /\ ~Good(i, ok)
          /\ UNCHANGED <<phase, key, ready, mutex, order>>
       \/ /\ phase[i] \in DOMAIN Granted /\ Good(i, ok)
          /\ Goto(i, Granted[phase[i]])
          /\ UNCHANGED <<ready, order>>
       \/ /\ phase[i] # "off" /\ ~(phase[i] \in DOMAIN Granted /\ Good(i, ok))
          /\ EndAttempt(i, Good(i, ok))
          /\ UNCHANGED ready
    /\ lastStamp' = [lastStamp EXCEPT ![i] = IF phase'[i] = "off" THEN 0 ELSE lastStamp[i]]
    /\ UNCHANGED <<seen, crashes>>

Serve(i) ==
    /\ wire[i] # None
    /\ \E now \in Captured :
         \/ May(now, wire[i]) /\ Perform(now, wire[i]) /\ Return(i, TRUE)
         \/ ~May(now, wire[i]) /\ UNCHANGED ledgerVars /\ Return(i, FALSE)
    /\ UNCHANGED late

\* The ledger commits and the answer is lost.
AnswerLost(i) ==
    /\ wire[i] # None
    /\ \E now \in Captured : May(now, wire[i]) /\ Perform(now, wire[i])
    /\ Return(i, FALSE)
    /\ UNCHANGED late

\* The client's timeout: the call is lost, or still on its way.
TimeOut(i) ==
    /\ wire[i] # None
    /\ \E rest \in {late, late \union {wire[i]}} :
         Cardinality(rest) <= MaxLate /\ late' = rest
    /\ Return(i, FALSE)
    /\ UNCHANGED ledgerVars

ServeLate(c) ==
    /\ \E now \in Captured :
         \/ May(now, c) /\ Perform(now, c)
         \/ ~May(now, c) /\ UNCHANGED ledgerVars
    /\ late' = late \ {c}
    /\ UNCHANGED <<clientVars, order, crashes>>

-----------------------------------------------------------------------------
\* A terminal dies with all its instances; its mutex and their memory go, the
\* ledger and the broker stay, calls already posted may still arrive.
Crash(t) ==
    /\ crashes < MaxCrashes
    /\ crashes' = crashes + 1
    /\ LET gone == {i \in Instance : Home[i] = t}
       IN  /\ phase' = [i \in Instance |-> IF i \in gone THEN "off" ELSE phase[i]]
           /\ key' = [i \in Instance |-> IF i \in gone THEN None ELSE key[i]]
           /\ seen' = [i \in Instance |-> IF i \in gone THEN None ELSE seen[i]]
           /\ lastStamp' = [i \in Instance |-> IF i \in gone THEN 0 ELSE lastStamp[i]]
           /\ ready' = [i \in Instance |-> ready[i] /\ i \notin gone]
           /\ wire' = [i \in Instance |-> IF i \in gone THEN None ELSE wire[i]]
           /\ \E lost \in SUBSET {wire[i] : i \in {j \in gone : wire[j] # None}} :
                /\ late' = late \union lost
                /\ Cardinality(late') <= MaxLate
    /\ mutex' = [mutex EXCEPT ![t] = None]
    /\ UNCHANGED <<ledgerVars, order>>

\* An order that was sent, or is about to be, and is not decided.
InFlight(k) ==
    \/ order[k] \in Undecided
    \/ \E i \in Instance : phase[i] = "send" /\ key[i] = k

\* When all is prompt, orders are decided and scans, which may have missed an
\* order, are posted Skew before a reservation expires: the ledger takes stamps
\* that are Skew ahead of its clock, and settles by them.
Time ==
    /\ Tick
    /\ Prompt => \A k \in Key :
         reservations[k] # None /\ reservations[k].expires = clock' + Skew =>
             ~InFlight(k) /\ \A i \in Instance : seen[i] = None
    /\ UNCHANGED <<clientVars, late, order, crashes>>

Client(i) ==
    \/ Scan(i) \/ ScanFails(i) \/ Publish(i) \/ Ask(i)
    \/ Send(i) \/ IntentFails(i)
    \/ Confirmed(i) \/ Rejected(i) \/ Unconfirmed(i)
    \/ TimeOut(i)

CoordinationNext ==
    \/ Time
    \/ \E i \in Instance :
         \/ Client(i) \/ Refresh(i) \/ Serve(i) \/ AnswerLost(i)
         \/ \E k \in Key : Attempt(i, k)
    \/ \E c \in late : ServeLate(c)
    \/ \E k \in Key : Place(k) \/ Fill(k) \/ Reject(k) \/ CloseOut(k)
    \/ \E t \in Terminal : Crash(t)

Coordination == CoordinationInit /\ [][CoordinationNext]_vars

\* The calls that may still be served, and those that end a reservation.
Calls == {wire[i] : i \in {j \in Instance : wire[j] # None}} \union late
Closing(c) == c.op \in {"release", "settle"}

\* What the code does not see to: while one chart gives a reservation back, no
\* other chart holds a scan it has not posted, and no call under way bears a
\* later stamp; such a scan may have missed the order and outlive its reservation.
ScansInOrder ==
    \A i \in Instance :
        wire[i] = None /\ wire'[i] # None /\ Closing(wire'[i]) =>
            /\ \A j \in Instance \ {i} : seen[j] = None
            /\ \A c \in Calls : c.snap # None => c.snap.at <= wire'[i].snap.at

OrderedCoordination == CoordinationInit /\ [][CoordinationNext /\ ScansInOrder]_vars

\* The scheduling the code provides: an instance that is in the middle of
\* OnInit, OnTick or AxAttemptEntry goes on, a WebRequest ends (timeout), and
\* the broker decides an order.
FairCoordination ==
    /\ Coordination
    /\ \A i \in Instance : WF_vars(Client(i))
    /\ \A k \in Key : WF_vars(Fill(k) \/ Reject(k))

-----------------------------------------------------------------------------
(* Properties.                                                             *)

\* The values of the variables; an instance names a key of its own exactly
\* while it is in an attempt.
CoordinationTypeOK ==
    /\ TypeOK
    /\ phase \in [Instance -> Attempting \union {"off", "idle", "refresh"}]
    /\ key \in [Instance -> Key \union {None}]
    /\ \A i \in Instance :
         key[i] \in (IF phase[i] \in Attempting THEN Own(i) ELSE {None})
    /\ seen \in [Instance -> Exposure \union {None}]
    /\ lastStamp \in [Instance -> Nat]
    /\ ready \in [Instance -> BOOLEAN]
    /\ wire \in [Instance -> Call \union {None}]
    /\ late \subseteq Call
    /\ mutex \in [Terminal -> Instance \union {None}]
    /\ order \in [Key -> {"none", "asked", "sent", "placed", "filled", "rejected", "closed"}]
    /\ crashes \in Nat

\* One terminal has at most one instance between its local evaluation and the
\* end of its attempt, and that one owns the mutex (CAccountRiskCoordinator).
OneAttemptPerTerminal ==
    \A i, j \in Instance :
        phase[i] \in Attempting /\ phase[j] \in Attempting /\ Home[i] = Home[j] => i = j

\* The account-wide ceiling of 2%: what the broker holds and what is on its
\* way to the broker, from all instances together, is within the cap.
CommittedWithinCap ==
    WithinCap(RiskOf(OrdersIn(Undecided \union {"filled"})), AccountEquity)

\* An order at the broker that is neither filled nor refused is backed by a
\* reservation the ledger still counts, whatever crashed or got lost since.
OrdersInFlightAreReserved ==
    \A k \in Key : order[k] \in Undecided => k \in Active

\* The ledger never underestimates the account: the exposure it stores and the
\* reservations it counts cover all that is filled or in flight, although the
\* snapshots arrive late, lost, repeated and from different terminals.
LedgerCoversBroker ==
    snapshot # None =>
        RiskOf(OrdersIn(Undecided \union {"filled"})) <= snapshot.risk + Reserved(Active)

\* A reservation is released only when its order is decided: the snapshot was
\* "to prove the order was not filled" (risk-ledger.js:227).
ReleasedIsDecided ==
    \A k \in Key : reservations[k] # None /\ reservations[k].status = "released" =>
        order[k] \notin Undecided

\* A reservation consumed by an exposure snapshot has its order's risk in it
\* (risk-ledger.js:143, server/README.md:96): the order is decided by then.
ConsumedIsDecided ==
    \A k \in Key : reservations[k] # None /\ reservations[k].status = "settled" =>
        order[k] \notin Undecided

\* Every attempt and every refresh ends, whatever calls and answers are lost.
EveryAttemptEnds ==
    \A i \in Instance : phase[i] \notin {"idle", "off"} ~> phase[i] \in {"idle", "off"}

\* No path through AxAttemptEntry keeps the terminal's mutex for ever.
MutexComesFree == \A t \in Terminal : []<>(mutex[t] = None)
=============================================================================
