------------------------- MODULE TrafficReportProofs -------------------------
(***************************************************************************)
(* Proofs about TrafficReport, for any inbounds, users, connections and    *)
(* panels and any number of failures.                                      *)
(*                                                                         *)
(* The argument is a ledger kept per cell.  `Sent' is the part of the      *)
(* snapshot being pushed that its panel has already billed: it is in       *)
(* `billed' and still in `total - committed' until Commit moves it.  So    *)
(*                                                                         *)
(*     used + Sent + resent <= billed + Pending + orphaned                 *)
(*     billed + Pending <= used + Sent + resent                            *)
(*                                                                         *)
(* (nothing forgotten, and nothing twice).  A push that fails turns what   *)
(* is sent into what is resent.  Only the Syncer goroutine snapshots,      *)
(* commits and deletes, so the snapshot is never more than what is pending *)
(* and only of storages that are still in the map.                         *)
(***************************************************************************)
EXTENDS TrafficReport, TLAPS

Sent(x) == IF x \in Billable /\ PanelOf[x[1]] < panel THEN delta[x] ELSE 0

\* A snapshot exists only while it is pushed, of storages in the map.
DeltaInv ==
    /\ \A x \in Cells : committed[x] + delta[x] <= total[x]
    /\ \A x \in Cells : delta[x] > 0 => x \in live
    /\ pc \notin {"push", "exited"} => delta = None /\ panel = 1

\* What RemoveAbsent is about to delete is settled, up to what its
\* connections carried since it compared the counters.
VictimInv ==
    /\ pc \notin {"delete", "exited"} => victim = {}
    /\ \A x \in victim : x \in Billable => used[x] + resent[x] <= billed[x] + orphaned[x]

NothingForgotten ==
    \A x \in Billable :
        used[x] + Sent(x) + resent[x] + committed[x] <= billed[x] + total[x] + orphaned[x]

NothingTwice ==
    \A x \in Cells : billed[x] + total[x] <= used[x] + Sent(x) + resent[x] + committed[x]

-----------------------------------------------------------------------------
(* Type correctness.                                                       *)

\* The typing of what is not a flag.
CoreTypeOK ==
    /\ live \in SUBSET Cells
    /\ total \in [Cells -> Nat]
    /\ committed \in [Cells -> Nat]
    /\ cst \in [Conns -> {"closed", "resolved", "attached", "orphan"}]
    /\ ccell \in [Conns -> Cells]
    /\ active \in SUBSET Users
    /\ pc \in {"wait", "remove", "delete", "flush", "push", "stopped", "exited"}
    /\ toCheck \in SUBSET Cells
    /\ victim \in SUBSET Cells
    /\ delta \in [Cells -> Nat]
    /\ panel \in 1..(NPanels + 1)
    /\ used \in [Cells -> Nat]
    /\ orphaned \in [Cells -> Nat]
    /\ billed \in [Cells -> Nat]
    /\ resent \in [Cells -> Nat]
    /\ failures \in 0..MaxFailures
    /\ units \in 0..MaxUnits

Flags == ctxDone \in BOOLEAN /\ final \in BOOLEAN

LedgerInv ==
    /\ CoreTypeOK /\ Flags
    /\ DeltaInv /\ VictimInv
    /\ NothingForgotten /\ NothingTwice

\* The agent starts with an empty ledger.
LEMMA LedgerInit == Init => LedgerInv
<1> SUFFICES ASSUME Init
             PROVE  LedgerInv
  OBVIOUS
<1>1. AnyCell \in Cells
  BY ReportAssumption DEF AnyCell
<1>2. CoreTypeOK
  BY <1>1, ReportAssumption DEF Init, CoreTypeOK, None
<1>3. Flags
  BY DEF Init, Flags
<1>4. DeltaInv /\ VictimInv
  BY DEF Init, DeltaInv, VictimInv, None
<1>5. NothingForgotten /\ NothingTwice
  BY DEF Init, NothingForgotten, NothingTwice, Sent, None, Billable
<1> QED
  BY <1>2, <1>3, <1>4, <1>5 DEF LedgerInv

\* Every step keeps the flags Boolean.
LEMMA FlagsNext == Flags /\ [Next]_vars => Flags'
BY DEF Flags, Next, vars, cellVars, connVars, syncVars, tally, Resolve, GetCounter, Carry,
       Close, Sync, ApplyUsers, UsersFail, CheckAbsent, DeleteAbsent, RemoveDone,
       SnapshotDelta, FlushEnds, PushOK, PushRejected, PushReplyLost, PushFails, Commit,
       Terminate, FinalFlush, Exit

\* Every step keeps the other variables well typed.
LEMMA CoreTypeNext == LedgerInv /\ [Next]_vars => CoreTypeOK'
<1> SUFFICES ASSUME LedgerInv, [Next]_vars
             PROVE  CoreTypeOK'
  OBVIOUS
<1>0. CoreTypeOK /\ DeltaInv
  BY DEF LedgerInv
<1> USE <1>0, ReportAssumption
<1>1. ASSUME NEW c \in Conns, NEW x \in Cells, Resolve(c, x)
      PROVE  CoreTypeOK'
  BY <1>1 DEF CoreTypeOK, Resolve, cellVars, syncVars, tally
<1>13. ASSUME NEW c \in Conns, GetCounter(c)
       PROVE  CoreTypeOK'
  BY <1>13 DEF CoreTypeOK, GetCounter, syncVars, tally
<1>2. ASSUME NEW c \in Conns, Carry(c)
      PROVE  CoreTypeOK'
  <2>1. /\ total' \in [Cells -> Nat] /\ used' \in [Cells -> Nat]
        /\ orphaned' \in [Cells -> Nat]
    BY <1>2 DEF CoreTypeOK, Carry
  <2>2. units' \in 0..MaxUnits
    BY <1>2 DEF CoreTypeOK, Carry
  <2> QED
    BY <1>2, <2>1, <2>2 DEF CoreTypeOK, Carry, connVars, syncVars
<1>3. ASSUME NEW c \in Conns, Close(c)
      PROVE  CoreTypeOK'
  <2>1. AnyCell \in Cells
    BY DEF AnyCell
  <2> QED
    BY <1>3, <2>1 DEF CoreTypeOK, Close, cellVars, syncVars, tally
<1>4. CASE ApplyUsers \/ UsersFail
  BY <1>4 DEF CoreTypeOK, ApplyUsers, UsersFail, cellVars, connVars, syncVars, tally
<1>5. ASSUME NEW x \in Cells, CheckAbsent(x)
      PROVE  CoreTypeOK'
  BY <1>5 DEF CoreTypeOK, CheckAbsent, cellVars, connVars, tally
<1>6. CASE DeleteAbsent
  BY <1>6 DEF CoreTypeOK, DeleteAbsent, tally
<1>7. CASE RemoveDone \/ FinalFlush \/ Terminate \/ Exit
  BY <1>7
     DEF CoreTypeOK, RemoveDone, FinalFlush, Terminate, Exit, cellVars, connVars, syncVars, tally
<1>8. CASE SnapshotDelta
  <2>1. None \in [Cells -> Nat]
    BY DEF None
  <2>2. \A x \in Cells : Pending(x) \in Nat
    BY DEF CoreTypeOK, DeltaInv, Pending
  <2>3. delta' \in [Cells -> Nat] /\ panel' \in 1..(NPanels + 1)
    BY <1>8, <2>1, <2>2 DEF CoreTypeOK, SnapshotDelta, FlushEnds
  <2>4. pc' \in {"wait", "push", "stopped"}
    BY <1>8 DEF SnapshotDelta, FlushEnds
  <2> QED
    BY <1>8, <2>3, <2>4 DEF CoreTypeOK, SnapshotDelta, cellVars, connVars, tally
<1>9. CASE PushOK
  <2>1. billed' \in [Cells -> Nat]
    BY <1>9 DEF CoreTypeOK, PushOK, Bill
  <2> QED
    BY <1>9, <2>1 DEF CoreTypeOK, PushOK, cellVars, connVars
<1>10. CASE PushRejected \/ PushReplyLost
  <2>1. billed' \in [Cells -> Nat]
    <3>1. billed' = billed \/ Bill(panel)
      BY <1>10 DEF PushRejected, PushReplyLost
    <3> QED
      BY <3>1 DEF CoreTypeOK, Bill
  <2>2. PushFails
    BY <1>10 DEF PushRejected, PushReplyLost
  <2>3. PICK P : Resend(P)
    BY <1>10 DEF PushRejected, PushReplyLost
  <2>4. resent' \in [Cells -> Nat]
    BY <2>3 DEF CoreTypeOK, Resend
  <2> QED
    BY <2>1, <2>2, <2>4 DEF CoreTypeOK, PushFails, FlushEnds, None, cellVars, connVars
<1>11. CASE Commit
  BY <1>11 DEF CoreTypeOK, Commit, FlushEnds, None, connVars, tally
<1>12. CASE UNCHANGED vars
  BY <1>12 DEF CoreTypeOK, vars, cellVars, connVars, syncVars, tally
<1> QED
  BY <1>1, <1>2, <1>3, <1>4, <1>5, <1>6, <1>7, <1>8, <1>9, <1>10, <1>11, <1>12,
     <1>13 DEF Next, Sync

-----------------------------------------------------------------------------
(* The ledger.                                                             *)

\* Every cell has a panel number, 0 for none; billable ones have a panel.
LEMMA PanelOfCell ==
    /\ \A x \in Cells : PanelOf[x[1]] \in 0..NPanels
    /\ \A x \in Billable : x \in Cells /\ IsNumericUser(x) /\ PanelOf[x[1]] \in 1..NPanels
BY ReportAssumption DEF Billable

\* Steps that leave the ledger alone: connections come and go, and the Syncer
\* moves on without a snapshot.
LEMMA LedgerUntouched ==
    ASSUME LedgerInv,
           UNCHANGED <<total, committed, delta, panel, used, orphaned, billed, resent>>,
           live \subseteq live',
           \/ UNCHANGED <<victim, pc>>
           \/ UNCHANGED victim /\ pc' = "exited"
           \/ /\ victim = {} /\ pc \notin {"push", "exited"}
              /\ \/ victim' = {}
                 \/ /\ pc' = "delete"
                    /\ \A x \in victim' : x \in Cells /\ total[x] = committed[x]
    PROVE  (DeltaInv /\ VictimInv /\ NothingForgotten /\ NothingTwice)'
<1>0. CoreTypeOK /\ DeltaInv /\ VictimInv /\ NothingForgotten /\ NothingTwice
  BY DEF LedgerInv
<1>1. DeltaInv'
  BY <1>0 DEF DeltaInv
<1>2. \A x \in Billable : Sent(x)' = Sent(x)
  BY DEF Sent
<1>3. \A x \in Cells : Sent(x)' = Sent(x)
  BY DEF Sent
<1>4. NothingForgotten' /\ NothingTwice'
  BY <1>0, <1>2, <1>3 DEF NothingForgotten, NothingTwice
<1>5. \A x \in Billable : total[x] = committed[x] => used[x] + resent[x] <= billed[x] + orphaned[x]
  BY <1>0, PanelOfCell DEF NothingForgotten, CoreTypeOK, Sent
<1>6. VictimInv'
  BY <1>0, <1>5 DEF VictimInv
<1> QED
  BY <1>1, <1>4, <1>6

\* A connection carries a unit.
LEMMA LedgerCarry ==
    ASSUME LedgerInv, NEW c \in Conns, Carry(c)
    PROVE  (DeltaInv /\ VictimInv /\ NothingForgotten /\ NothingTwice)'
<1>0. CoreTypeOK /\ DeltaInv /\ VictimInv /\ NothingForgotten /\ NothingTwice
  BY DEF LedgerInv
<1>1. /\ UNCHANGED <<live, committed, delta, panel, billed, resent, victim, pc>>
      /\ ccell[c] \in Cells
  BY <1>0 DEF Carry, syncVars, CoreTypeOK
<1>2. \A x \in Cells :
        /\ x # ccell[c] => /\ total'[x] = total[x] /\ used'[x] = used[x]
                           /\ orphaned'[x] = orphaned[x]
        /\ x = ccell[c] => /\ used'[x] = used[x] + 1
                           /\ total'[x] \in {total[x], total[x] + 1}
                           /\ orphaned'[x] \in {orphaned[x], orphaned[x] + 1}
                           /\ total'[x] = total[x] => orphaned'[x] = orphaned[x] + 1
                           /\ x \in victim => orphaned'[x] = orphaned[x] + 1
  BY <1>0, <1>1 DEF Carry, CoreTypeOK
<1>3. \A x \in Cells : Sent(x)' = Sent(x) /\ Sent(x) \in Nat
  BY <1>0, <1>1 DEF Sent, CoreTypeOK
<1>4. DeltaInv'
  BY <1>0, <1>1, <1>2 DEF DeltaInv, CoreTypeOK
<1>5. VictimInv'
  <2>1. pc' \notin {"delete", "exited"} => victim' = {}
    BY <1>0, <1>1 DEF VictimInv
  <2>2. ASSUME NEW x \in victim', x \in Billable
        PROVE  used'[x] + resent'[x] <= billed'[x] + orphaned'[x]
    <3>1. x \in Cells /\ x \in victim /\ used[x] + resent[x] <= billed[x] + orphaned[x]
      BY <1>0, <1>1, <2>2, PanelOfCell DEF VictimInv
    <3> QED
      BY <1>0, <1>1, <1>2, <3>1 DEF CoreTypeOK
  <2> QED
    BY <2>1, <2>2 DEF VictimInv, Billable
<1>6. NothingForgotten'
  BY <1>0, <1>1, <1>2, <1>3, PanelOfCell DEF NothingForgotten, CoreTypeOK, Billable
<1>7. NothingTwice'
  BY <1>0, <1>1, <1>2, <1>3 DEF NothingTwice, CoreTypeOK
<1> QED
  BY <1>4, <1>5, <1>6, <1>7

\* RemoveAbsent deletes a storage whose counters it found committed.
LEMMA LedgerDelete ==
    ASSUME LedgerInv, DeleteAbsent
    PROVE  (DeltaInv /\ VictimInv /\ NothingForgotten /\ NothingTwice)'
<1>0. CoreTypeOK /\ DeltaInv /\ VictimInv /\ NothingForgotten /\ NothingTwice
  BY DEF LedgerInv
<1>1. /\ UNCHANGED <<delta, panel, used, orphaned, billed, resent>>
      /\ delta = None /\ panel = 1 /\ victim' = {} /\ pc' = "remove"
  BY <1>0 DEF DeleteAbsent, DeltaInv, tally
<1>2. \A x \in Cells :
        /\ x \in victim => total'[x] = 0 /\ committed'[x] = 0
        /\ x \notin victim => total'[x] = total[x] /\ committed'[x] = committed[x]
  BY DEF DeleteAbsent
<1>3. \A x \in Cells : Sent(x) = 0 /\ Sent(x)' = 0 /\ delta[x] = 0
  BY <1>1 DEF Sent, None
<1>4. DeltaInv'
  BY <1>0, <1>1, <1>2, <1>3 DEF DeltaInv, CoreTypeOK
<1>5. VictimInv'
  BY <1>1 DEF VictimInv
<1>6. NothingForgotten'
  <2> SUFFICES ASSUME NEW x \in Billable
               PROVE  used'[x] + Sent(x)' + resent'[x] + committed'[x]
                         <= billed'[x] + total'[x] + orphaned'[x]
    BY DEF NothingForgotten, Billable
  <2>1. x \in Cells
    BY PanelOfCell
  <2>2. CASE x \in victim
    BY <1>0, <1>1, <1>2, <1>3, <2>1, <2>2 DEF VictimInv, CoreTypeOK
  <2>3. CASE x \notin victim
    BY <1>0, <1>1, <1>2, <1>3, <2>1, <2>3 DEF NothingForgotten, CoreTypeOK
  <2> QED
    BY <2>2, <2>3
<1>7. NothingTwice'
  BY <1>0, <1>1, <1>2, <1>3 DEF NothingTwice, DeltaInv, CoreTypeOK
<1> QED
  BY <1>4, <1>5, <1>6, <1>7

\* The snapshot is taken: it is all that is pending and none of it is sent.
LEMMA LedgerSnapshot ==
    ASSUME LedgerInv, SnapshotDelta
    PROVE  (DeltaInv /\ VictimInv /\ NothingForgotten /\ NothingTwice)'
<1>0. CoreTypeOK /\ DeltaInv /\ VictimInv /\ NothingForgotten /\ NothingTwice
  BY DEF LedgerInv
<1>1. /\ UNCHANGED <<live, total, committed, victim, used, orphaned, billed, resent>>
      /\ panel = 1 /\ panel' = 1 /\ victim = {}
  BY <1>0 DEF SnapshotDelta, FlushEnds, DeltaInv, VictimInv, cellVars, tally
<1>2. \/ delta' = None
      \/ /\ pc' = "push"
         /\ delta' = [x \in Cells |-> IF x \in live THEN Pending(x) ELSE 0]
  BY DEF SnapshotDelta, FlushEnds
<1>3. \A x \in Cells : committed[x] <= total[x]
  BY <1>0 DEF DeltaInv, CoreTypeOK
<1>4. DeltaInv'
  BY <1>0, <1>1, <1>2, <1>3 DEF DeltaInv, Pending, None, CoreTypeOK
<1>5. \A x \in Cells : Sent(x) = 0 /\ Sent(x)' = 0
  BY <1>1, PanelOfCell DEF Sent
<1>6. VictimInv'
  BY <1>1 DEF VictimInv
<1>7. NothingForgotten' /\ NothingTwice'
  BY <1>0, <1>1, <1>5, PanelOfCell DEF NothingForgotten, NothingTwice, Billable
<1> QED
  BY <1>4, <1>6, <1>7

\* A panel takes its part of the snapshot: that part is now billed and sent.
LEMMA LedgerPushOK ==
    ASSUME LedgerInv, PushOK
    PROVE  (DeltaInv /\ VictimInv /\ NothingForgotten /\ NothingTwice)'
<1>0. CoreTypeOK /\ DeltaInv /\ VictimInv /\ NothingForgotten /\ NothingTwice
  BY DEF LedgerInv
<1>1. /\ UNCHANGED <<live, total, committed, delta, pc, victim, used, orphaned, resent>>
      /\ pc = "push" /\ victim = {} /\ panel \in 1..NPanels /\ panel' = panel + 1
  BY <1>0, ReportAssumption DEF PushOK, VictimInv, CoreTypeOK, cellVars
<1>2. \A x \in Cells : billed'[x] = IF x \in Payload(panel) THEN billed[x] + delta[x]
                                                           ELSE billed[x]
  BY DEF PushOK, Bill
<1>3. \A x \in Cells : x \in Payload(panel) =>
        /\ Sent(x) = 0 /\ Sent(x)' = delta[x] /\ x \in Billable
  BY <1>0, <1>1, ReportAssumption
     DEF Payload, MatchesInbound, Sent, Billable, CoreTypeOK
<1>4. ASSUME NEW x \in Cells, x \notin Payload(panel)
      PROVE  Sent(x)' = Sent(x)
  <2>1. CASE x \in Billable /\ PanelOf[x[1]] = panel
    <3>1. delta[x] = 0
      BY <1>0, <1>4, <2>1, PanelOfCell DEF Payload, MatchesInbound, CoreTypeOK
    <3> QED
      BY <1>1, <3>1 DEF Sent, Billable
  <2>2. CASE ~(x \in Billable /\ PanelOf[x[1]] = panel)
    <3>1. x \in Billable => (PanelOf[x[1]] < panel + 1 <=> PanelOf[x[1]] < panel)
      BY <1>1, <2>2, PanelOfCell, ReportAssumption
    <3> QED
      BY <1>1, <3>1 DEF Sent, Billable
  <2> QED
    BY <2>1, <2>2
<1>5. \A x \in Cells : Sent(x) \in Nat
  BY <1>0 DEF Sent, CoreTypeOK
<1>6. DeltaInv' /\ VictimInv'
  BY <1>0, <1>1 DEF DeltaInv, VictimInv
<1>7. NothingForgotten'
  <2> SUFFICES ASSUME NEW x \in Billable
               PROVE  used'[x] + Sent(x)' + resent'[x] + committed'[x]
                         <= billed'[x] + total'[x] + orphaned'[x]
    BY DEF NothingForgotten, Billable
  <2>1. x \in Cells
    BY PanelOfCell
  <2> QED
    BY <1>0, <1>1, <1>2, <1>3, <1>4, <1>5, <2>1 DEF NothingForgotten, CoreTypeOK
<1>8. NothingTwice'
  BY <1>0, <1>1, <1>2, <1>3, <1>4, <1>5 DEF NothingTwice, CoreTypeOK
<1> QED
  BY <1>6, <1>7, <1>8

\* A push fails: the snapshot is dropped, and what was sent of it is resent.
LEMMA LedgerPushFails ==
    ASSUME LedgerInv, PushRejected \/ PushReplyLost
    PROVE  (DeltaInv /\ VictimInv /\ NothingForgotten /\ NothingTwice)'
<1>0. CoreTypeOK /\ DeltaInv /\ VictimInv /\ NothingForgotten /\ NothingTwice
  BY DEF LedgerInv
<1>1. /\ UNCHANGED <<live, total, committed, victim, used, orphaned>>
      /\ delta' = None /\ panel' = 1 /\ victim = {} /\ pc' # "delete"
      /\ panel \in 1..NPanels
  BY <1>0, ReportAssumption
     DEF PushRejected, PushReplyLost, PushFails, FlushEnds, VictimInv, CoreTypeOK, cellVars
<1>2. \A x \in Cells : Sent(x)' = 0 /\ Sent(x) \in Nat /\ delta'[x] = 0
  BY <1>0, <1>1, PanelOfCell DEF Sent, None, CoreTypeOK
<1>3. ASSUME NEW x \in Cells
      PROVE  /\ billed'[x] \in Nat /\ resent'[x] \in Nat
             /\ billed'[x] + resent[x] + Sent(x) = billed[x] + resent'[x]
  <2>1. /\ billed[x] \in Nat /\ resent[x] \in Nat /\ delta[x] \in Nat
        /\ PanelOf[x[1]] \in 0..NPanels /\ NPanels \in Nat
    BY <1>0, PanelOfCell, ReportAssumption DEF CoreTypeOK
  <2>2. \A p \in 1..NPanels :
          x \in Payload(p) <=> PanelOf[x[1]] = p /\ IsNumericUser(x) /\ delta[x] > 0
    BY DEF Payload, MatchesInbound
  <2>3. x \in Billable <=> IsNumericUser(x) /\ PanelOf[x[1]] # 0
    BY DEF Billable
  <2>4. CASE PushRejected
    <3>1. /\ billed'[x] = billed[x]
          /\ resent'[x] = IF \E p \in 1..(panel - 1) : x \in Payload(p)
                          THEN resent[x] + delta[x] ELSE resent[x]
      BY <2>4 DEF PushRejected, Resend
    <3>2. (\E p \in 1..(panel - 1) : x \in Payload(p))
            <=> x \in Billable /\ PanelOf[x[1]] < panel /\ delta[x] > 0
      BY <1>1, <2>1, <2>2, <2>3
    <3> QED
      BY <2>1, <3>1, <3>2 DEF Sent
  <2>5. CASE PushReplyLost
    <3>1. /\ billed'[x] = IF x \in Payload(panel) THEN billed[x] + delta[x] ELSE billed[x]
          /\ resent'[x] = IF \E p \in 1..panel : x \in Payload(p)
                          THEN resent[x] + delta[x] ELSE resent[x]
      BY <2>5 DEF PushReplyLost, Bill, Resend
    <3>2. (\E p \in 1..panel : x \in Payload(p))
            <=> x \in Billable /\ PanelOf[x[1]] <= panel /\ delta[x] > 0
      BY <1>1, <2>1, <2>2, <2>3
    <3>3. x \in Payload(panel) <=> x \in Billable /\ PanelOf[x[1]] = panel /\ delta[x] > 0
      BY <1>1, <2>1, <2>2, <2>3
    <3> QED
      BY <1>1, <2>1, <3>1, <3>2, <3>3 DEF Sent
  <2> QED
    BY <2>4, <2>5
<1>4. DeltaInv' /\ VictimInv'
  BY <1>0, <1>1, <1>2 DEF DeltaInv, VictimInv, CoreTypeOK
<1>5. NothingForgotten'
  BY <1>0, <1>1, <1>2, <1>3, PanelOfCell DEF NothingForgotten, CoreTypeOK, Billable
<1>6. NothingTwice'
  BY <1>0, <1>1, <1>2, <1>3 DEF NothingTwice, CoreTypeOK
<1> QED
  BY <1>4, <1>5, <1>6

\* Every panel took its part: what was sent is committed.
LEMMA LedgerCommit ==
    ASSUME LedgerInv, Commit
    PROVE  (DeltaInv /\ VictimInv /\ NothingForgotten /\ NothingTwice)'
<1>0. CoreTypeOK /\ DeltaInv /\ VictimInv /\ NothingForgotten /\ NothingTwice
  BY DEF LedgerInv
<1>1. /\ UNCHANGED <<live, total, victim, used, orphaned, billed, resent>>
      /\ delta' = None /\ panel' = 1 /\ victim = {} /\ pc' # "delete"
      /\ panel > NPanels
  BY <1>0 DEF Commit, FlushEnds, VictimInv, tally
<1>2. \A x \in Cells :
        /\ Sent(x)' = 0 /\ delta'[x] = 0
        /\ Sent(x) = IF x \in Billable THEN delta[x] ELSE 0
  BY <1>0, <1>1, PanelOfCell, ReportAssumption DEF Sent, None, CoreTypeOK
<1>3. \A x \in Cells :
        committed'[x] = IF IsNumericUser(x) THEN committed[x] + delta[x] ELSE committed[x]
  BY <1>0 DEF Commit, DeltaInv, CoreTypeOK
<1>4. DeltaInv' /\ VictimInv'
  BY <1>0, <1>1, <1>2, <1>3 DEF DeltaInv, VictimInv, CoreTypeOK
<1>5. NothingForgotten'
  <2> SUFFICES ASSUME NEW x \in Billable
               PROVE  used'[x] + Sent(x)' + resent'[x] + committed'[x]
                         <= billed'[x] + total'[x] + orphaned'[x]
    BY DEF NothingForgotten, Billable
  <2> QED
    BY <1>0, <1>1, <1>2, <1>3, PanelOfCell DEF NothingForgotten, CoreTypeOK
<1>6. NothingTwice'
  BY <1>0, <1>1, <1>2, <1>3, PanelOfCell DEF NothingTwice, CoreTypeOK
<1> QED
  BY <1>4, <1>5, <1>6

\* Every step keeps the ledger.
LEMMA LedgerNext == LedgerInv /\ [Next]_vars => LedgerInv'
<1> SUFFICES ASSUME LedgerInv, [Next]_vars
             PROVE  (DeltaInv /\ VictimInv /\ NothingForgotten /\ NothingTwice)'
  BY CoreTypeNext, FlagsNext DEF LedgerInv
<1>0. DeltaInv /\ VictimInv
  BY DEF LedgerInv
<1>1. ASSUME NEW c \in Conns, NEW x \in Cells, Resolve(c, x)
      PROVE  (DeltaInv /\ VictimInv /\ NothingForgotten /\ NothingTwice)'
  BY <1>1, LedgerUntouched DEF Resolve, cellVars, syncVars, tally
<1>2. ASSUME NEW c \in Conns, GetCounter(c) \/ Close(c)
      PROVE  (DeltaInv /\ VictimInv /\ NothingForgotten /\ NothingTwice)'
  BY <1>2, LedgerUntouched DEF GetCounter, Close, cellVars, syncVars, tally
<1>3. ASSUME NEW c \in Conns, Carry(c)
      PROVE  (DeltaInv /\ VictimInv /\ NothingForgotten /\ NothingTwice)'
  BY <1>3, LedgerCarry
<1>4. CASE ApplyUsers \/ UsersFail \/ RemoveDone \/ FinalFlush
  BY <1>0, <1>4, LedgerUntouched
     DEF ApplyUsers, UsersFail, RemoveDone, FinalFlush, cellVars, syncVars, tally, VictimInv
<1>5. ASSUME NEW x \in Cells, CheckAbsent(x)
      PROVE  (DeltaInv /\ VictimInv /\ NothingForgotten /\ NothingTwice)'
  <2>1. victim = {} /\ pc = "remove"
    BY <1>0, <1>5 DEF CheckAbsent, VictimInv
  <2>2. \/ victim' = {}
        \/ pc' = "delete" /\ victim' = {x} /\ total[x] = committed[x]
    BY <1>5, <2>1 DEF CheckAbsent
  <2>3. UNCHANGED <<live, total, committed, delta, panel, used, orphaned, billed, resent>>
    BY <1>5 DEF CheckAbsent, cellVars, tally
  <2> QED
    BY <2>1, <2>2, <2>3, LedgerUntouched
<1>6. CASE DeleteAbsent
  BY <1>6, LedgerDelete
<1>7. CASE SnapshotDelta
  BY <1>7, LedgerSnapshot
<1>8. CASE PushOK
  BY <1>8, LedgerPushOK
<1>9. CASE PushRejected \/ PushReplyLost
  BY <1>9, LedgerPushFails
<1>10. CASE Commit
  BY <1>10, LedgerCommit
<1>11. CASE Terminate \/ Exit \/ UNCHANGED vars
  BY <1>11, LedgerUntouched DEF Terminate, Exit, vars, cellVars, syncVars, tally
<1> QED
  BY <1>1, <1>2, <1>3, <1>4, <1>5, <1>6, <1>7, <1>8, <1>9, <1>10, <1>11 DEF Next, Sync

\* The inductive invariant holds in every reachable state.
LEMMA LedgerHolds == Spec => []LedgerInv
BY LedgerInit, LedgerNext, PTL DEF Spec

-----------------------------------------------------------------------------
(* The results.                                                            *)

\* The variables of TrafficReport keep their types.
THEOREM TypeCorrect == Spec => []TypeOK
<1>1. LedgerInv => TypeOK
  BY DEF LedgerInv, CoreTypeOK, Flags, TypeOK
<1> QED
  BY <1>1, LedgerHolds, PTL

(***************************************************************************)
(* Whatever pushes fail, users come and go and connections do: traffic     *)
(* that passed through a storage in the map is billed, beside what is      *)
(* billed a second time, or still pending.                                 *)
(***************************************************************************)
THEOREM UsageNeverForgotten == Spec => []NoUsageForgotten
<1>1. LedgerInv => NoUsageForgotten
  <2> SUFFICES ASSUME LedgerInv, NEW x \in Billable
               PROVE  used[x] <= billed[x] - resent[x] + Pending(x) + orphaned[x]
    BY DEF NoUsageForgotten
  <2>1. x \in Cells /\ Sent(x) \in Nat
    BY PanelOfCell DEF LedgerInv, CoreTypeOK, Sent
  <2> QED
    BY <2>1 DEF LedgerInv, CoreTypeOK, NothingForgotten, Pending
<1> QED
  BY <1>1, LedgerHolds, PTL

(***************************************************************************)
(* CommitSnapshot never commits more than was counted: no RemoveAbsent     *)
(* comes between a snapshot and its commit.                                *)
(***************************************************************************)
THEOREM NeverOverCommitted == Spec => []CommittedWithinCounted
<1>1. LedgerInv => CommittedWithinCounted
  BY DEF LedgerInv, CoreTypeOK, DeltaInv, CommittedWithinCounted
<1> QED
  BY <1>1, LedgerHolds, PTL

(***************************************************************************)
(* For any number of panels and of failed pushes, a panel bills at most    *)
(* what was used and what failed pushes make it be sent again.             *)
(***************************************************************************)
THEOREM BilledOnce == Spec => []NoDoubleBilling
<1>1. LedgerInv => NoDoubleBilling
  <2> SUFFICES ASSUME LedgerInv, NEW x \in Cells
               PROVE  billed[x] <= used[x] + resent[x]
    BY DEF NoDoubleBilling
  <2>1. Sent(x) \in Nat /\ Sent(x) <= delta[x]
    BY DEF LedgerInv, CoreTypeOK, Sent
  <2> QED
    BY <2>1 DEF LedgerInv, CoreTypeOK, DeltaInv, NothingTwice
<1> QED
  BY <1>1, LedgerHolds, PTL
=============================================================================
