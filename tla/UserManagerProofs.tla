-------------------------- MODULE UserManagerProofs --------------------------
(***************************************************************************)
(* Proofs about UserManager for any users, credentials, inbounds and       *)
(* connections and any number of calls of ApplyBox and of failures.        *)
(***************************************************************************)
EXTENDS UserManager, TLAPS

-----------------------------------------------------------------------------
(* The inductive invariant.                                                *)

\* The pairs a list of users is admitted by.
Pairs(l) == {<<l[i].cred, i>> : i \in {j \in Ids : l[j] # Nothing}}

\* The pairs that DelUsers leaves.
Kept == {p \in Pairs(users) : p[1] \notin DelUsers}

\* ApplyBox goes through the inbounds one at a time.
LoopInv ==
    /\ ~applying => todo = {}
    /\ \A a, b \in half : a = b

\* Until a call fails, what an inbound admits is known at every step of it.
AcceptInv ==
    failures = 0 => \A b \in Inbounds : accepts[b] =
        IF ~applying \/ b \in todo \ half THEN Pairs(users)
        ELSE IF b \in half THEN Kept
        ELSE Pairs(next)

\* A limiter runs only while it is in the map, and one in the map runs.
LimiterInv ==
    /\ \A i \in Ids : limiters[i] # Nothing =>
          limiters[i][1] = i /\ limiters[i][2] <= applies /\ rate[limiters[i]] > 0
    /\ \A m \in Limiters : rate[m] > 0 => limiters[m[1]] = m

\* The limiters are those of list l.
Limited(l) ==
    \A i \in Ids : l[i] # Nothing =>
        IF l[i].speed > 0 THEN limiters[i] # Nothing /\ rate[limiters[i]] = l[i].speed
        ELSE limiters[i] = Nothing

\* The limiters run ahead of the list: ApplyBox changes them first.
ForceInv ==
    /\ applying => Limited(next)
    /\ ~applying /\ settled => Limited(users)

\* A connection holds a limiter that was made, and if that one still runs its
\* user is active and stays so.
HeldInv ==
    \A c \in Conns : LET m == conn[c].lim IN m # Nothing =>
        /\ m[2] <= applies
        /\ rate[m] > 0 => users[m[1]] # Nothing /\ (applying => next[m[1]] # Nothing)

Inv == TypeOK /\ LoopInv /\ AcceptInv /\ LimiterInv /\ ForceInv /\ HeldInv

-----------------------------------------------------------------------------
(* Lemmas about the operators.                                             *)

\* A user of a list has a credential and a speed, and nobody else has that
\* credential.
LEMMA ListFacts ==
    ASSUME NEW l \in Lists, NEW i \in Ids, l[i] # Nothing
    PROVE  /\ l[i] \in UserRec
           /\ l[i].cred \in Creds /\ l[i].speed \in Nat
           /\ \A j \in Ids : l[j] # Nothing /\ l[j].cred = l[i].cred => j = i
BY UserAssumption DEF Lists, UserRec

\* The empty list is a list.
LEMMA NoUsersIsList == NoUsers \in Lists
BY DEF NoUsers, Lists

\* Deleting DelUsers and adding AddUsers turns the pairs of the old list into
\* those of the new one, also when credentials move between users.
LEMMA DeltasAddUp ==
    ASSUME users \in Lists, next \in Lists
    PROVE  Pairs(next) = Kept \cup AddUsers
<1>1. ASSUME NEW p \in Pairs(next)
      PROVE  p \in Kept \cup AddUsers
  <2>1. PICK i \in Ids : next[i] # Nothing /\ p = <<next[i].cred, i>>
    BY DEF Pairs
  <2>2. CASE next[i] # users[i]
    BY <2>1, <2>2 DEF AddUsers
  <2>3. CASE next[i] = users[i]
    <3>1. p \in Pairs(users)
      BY <2>1, <2>3 DEF Pairs
    <3>2. p[1] \notin DelUsers
      <4> SUFFICES ASSUME p[1] \in DelUsers
                   PROVE  FALSE
        OBVIOUS
      <4>1. PICK j \in Ids : /\ users[j] # Nothing
                             /\ next[j] = Nothing \/ next[j].cred # users[j].cred
                             /\ p[1] = users[j].cred
        BY DEF DelUsers
      <4>2. users[j].cred = users[i].cred
        BY <2>1, <2>3, <4>1
      <4>3. j = i
        BY <2>1, <2>3, <4>1, <4>2, ListFacts
      <4> QED
        BY <2>1, <2>3, <4>1, <4>3
    <3> QED
      BY <3>1, <3>2 DEF Kept
  <2> QED
    BY <2>2, <2>3
<1>2. ASSUME NEW p \in Kept
      PROVE  p \in Pairs(next)
  <2>1. PICK i \in Ids : users[i] # Nothing /\ p = <<users[i].cred, i>>
    BY DEF Kept, Pairs
  <2>2. next[i] # Nothing /\ next[i].cred = users[i].cred
    BY <2>1 DEF Kept, DelUsers
  <2> QED
    BY <2>1, <2>2 DEF Pairs
<1>3. AddUsers \subseteq Pairs(next)
  BY DEF AddUsers, Pairs
<1> QED
  BY <1>1, <1>2, <1>3

\* The pairs of a list are credentials with ids.
LEMMA PairsType ==
    ASSUME NEW l \in Lists
    PROVE  Pairs(l) \subseteq Creds \X Ids
BY ListFacts DEF Pairs

\* BySecret finds an active user or nobody.
LEMMA BySecretFinds ==
    ASSUME NEW u, BySecret(u) # Nothing
    PROVE  BySecret(u) \in Ids /\ users[BySecret(u)] # Nothing
BY DEF BySecret

\* The map of limiters and their rates after a call: typed, and every limiter
\* in it was made for the id it is under.
LEMMA NextLimiterType ==
    ASSUME TypeOK, LimiterInv, applies < MaxApplies, NEW l \in Lists, NEW i \in Ids
    PROVE  /\ NextLimiter(l, i) \in Limiters \cup {Nothing}
           /\ NextLimiter(l, i) # Nothing =>
                NextLimiter(l, i)[1] = i /\ NextLimiter(l, i)[2] <= applies + 1
           /\ NeedsLimiter(l, i) => NextLimiter(l, i) # Nothing
<1>1. limiters[i] \in Limiters \cup {Nothing} /\ applies \in Nat /\ MaxApplies \in Nat
  BY UserAssumption DEF TypeOK
<1>2. limiters[i] # Nothing => limiters[i][1] = i /\ limiters[i][2] <= applies
  BY DEF LimiterInv
<1>3. <<i, applies + 1>> \in Limiters
  BY <1>1 DEF Limiters
<1>4. limiters[i] # Nothing => limiters[i][2] \in Nat
  BY <1>1 DEF Limiters
<1>5. Nothing \notin Limiters
  BY UserAssumption DEF Limiters
<1> QED
  BY <1>1, <1>2, <1>3, <1>4, <1>5 DEF NextLimiter
-----------------------------------------------------------------------------
(* Every step keeps the invariant.                                         *)

\* What a step of connection c does to everything else: nothing.
Connect(c) ==
    \/ \E b \in Inbounds, p \in Creds \X Ids : Authenticate(c, b, p)
    \/ DirectionalLimiters(c) \/ Resolve(c) \/ Close(c)

managed == <<users, limiters, rate, accepts, next, todo, half, applying, settled,
             applies, failures>>

\* Connections leave the users, the inbounds and the limiters alone.
LEMMA ConnectKeeps ==
    ASSUME NEW c \in Conns, Connect(c)
    PROVE  UNCHANGED managed
BY DEF Connect, Authenticate, DirectionalLimiters, Resolve, Close, SetConn, managed

\* The steps of ApplyBox, those of connections and stuttering are all steps.
LEMMA NextCases ==
    ASSUME [Next]_vars
    PROVE  \/ \E l \in Lists : BeginApply(l)
           \/ \E b \in Inbounds : DeleteFrom(b)
           \/ \E b \in Inbounds : AddTo(b)
           \/ ApplyFails
           \/ EndApply
           \/ \E c \in Conns : Connect(c)
           \/ UNCHANGED vars
BY DEF Next, Connect

\* The initial state satisfies the invariant.
LEMMA InvInit == Init => Inv
<1> SUFFICES ASSUME Init
             PROVE  Inv
  OBVIOUS
<1>1. NoConn \in ConnRec
  BY DEF NoConn, ConnRec
<1>2. 0 \in 0..MaxApplies /\ 0 \in 0..MaxFailures
  BY UserAssumption
<1>3. TypeOK
  BY <1>1, <1>2, NoUsersIsList DEF Init, TypeOK
<1>4. LoopInv /\ LimiterInv
  BY DEF Init, LoopInv, LimiterInv
<1>5. AcceptInv
  BY DEF Init, AcceptInv, Pairs, NoUsers
<1>6. ForceInv
  BY DEF Init, ForceInv, Limited, NoUsers
<1>7. HeldInv
  BY DEF Init, HeldInv, NoConn
<1> QED
  BY <1>3, <1>4, <1>5, <1>6, <1>7 DEF Inv

\* A connection's record stays well typed.
LEMMA ConnType ==
    ASSUME TypeOK, NEW c \in Conns, Connect(c)
    PROVE  conn' \in [Conns -> ConnRec]
<1>1. conn[c] \in ConnRec /\ NoConn \in ConnRec /\ conn \in [Conns -> ConnRec]
  BY DEF TypeOK, NoConn, ConnRec
<1>2. \A u : BySecret(u) \in Ids \cup {Nothing}
  BY BySecretFinds
<1>3. ASSUME NEW b \in Inbounds, NEW p \in Creds \X Ids, Authenticate(c, b, p)
      PROVE  conn' \in [Conns -> ConnRec]
  BY <1>1, <1>3 DEF Authenticate, SetConn, ConnRec, NoConn
<1>4. CASE DirectionalLimiters(c)
  <2>1. \A i \in Ids : limiters[i] \in Limiters \cup {Nothing}
    BY DEF TypeOK
  <2> QED
    BY <1>1, <1>2, <1>4, <2>1 DEF DirectionalLimiters, SetConn, ConnRec
<1>5. CASE Resolve(c)
  BY <1>1, <1>2, <1>5 DEF Resolve, SetConn, ConnRec
<1>6. CASE Close(c)
  BY <1>1, <1>6 DEF Close, SetConn
<1> QED
  BY <1>3, <1>4, <1>5, <1>6 DEF Connect

\* Every step is well typed.
LEMMA TypeStep == Inv /\ [Next]_vars => TypeOK'
<1> SUFFICES ASSUME Inv, [Next]_vars
             PROVE  TypeOK'
  OBVIOUS
<1>0. TypeOK /\ LoopInv /\ LimiterInv
  BY DEF Inv
<1>1. ASSUME NEW l \in Lists, BeginApply(l)
      PROVE  TypeOK'
  <2>1. limiters' \in [Ids -> Limiters \cup {Nothing}]
    BY <1>0, <1>1, NextLimiterType DEF BeginApply
  <2>2. rate' \in [Limiters -> Nat]
    <3>1. ASSUME NEW m \in Limiters
          PROVE  rate'[m] \in Nat
      <4>1. m[1] \in Ids
        BY DEF Limiters
      <4>2. NeedsLimiter(l, m[1]) => l[m[1]].speed \in Nat
        BY <4>1, ListFacts DEF NeedsLimiter
      <4> QED
        BY <1>0, <1>1, <4>2 DEF BeginApply, TypeOK
    <3> QED
      BY <1>1, <3>1 DEF BeginApply
  <2>3. applies' \in 0..MaxApplies
    BY <1>0, <1>1, UserAssumption DEF BeginApply, TypeOK
  <2> QED
    BY <1>0, <1>1, <2>1, <2>2, <2>3 DEF BeginApply, TypeOK, LoopInv
<1>2. ASSUME NEW b \in Inbounds, DeleteFrom(b)
      PROVE  TypeOK'
  BY <1>0, <1>2 DEF DeleteFrom, TypeOK
<1>3. ASSUME NEW b \in Inbounds, AddTo(b)
      PROVE  TypeOK'
  <2>1. AddUsers \subseteq Creds \X Ids
    BY <1>0, DeltasAddUp, PairsType DEF TypeOK
  <2> QED
    BY <1>0, <1>3, <2>1 DEF AddTo, TypeOK
<1>4. CASE ApplyFails
  <2>1. failures' \in 0..MaxFailures
    BY <1>0, <1>4, UserAssumption DEF ApplyFails, TypeOK
  <2> QED
    BY <1>0, <1>4, <2>1, NoUsersIsList DEF ApplyFails, TypeOK
<1>5. CASE EndApply
  BY <1>0, <1>5, NoUsersIsList DEF EndApply, TypeOK
<1>6. ASSUME NEW c \in Conns, Connect(c)
      PROVE  TypeOK'
  BY <1>0, <1>6, ConnectKeeps, ConnType DEF managed, TypeOK
<1>7. CASE UNCHANGED vars
  BY <1>0, <1>7 DEF vars, TypeOK
<1> QED
  BY <1>1, <1>2, <1>3, <1>4, <1>5, <1>6, <1>7, NextCases

\* ApplyBox stays in its loop over the inbounds.
LEMMA LoopStep == Inv /\ [Next]_vars => LoopInv'
<1> SUFFICES ASSUME Inv, [Next]_vars
             PROVE  LoopInv'
  OBVIOUS
<1>0. TypeOK /\ LoopInv
  BY DEF Inv
<1>1. ASSUME NEW l \in Lists, BeginApply(l)
      PROVE  LoopInv'
  BY <1>0, <1>1 DEF BeginApply, LoopInv
<1>2. ASSUME NEW b \in Inbounds, DeleteFrom(b) \/ AddTo(b)
      PROVE  LoopInv'
  BY <1>0, <1>2 DEF DeleteFrom, AddTo, LoopInv
<1>3. CASE ApplyFails \/ EndApply
  BY <1>0, <1>3 DEF ApplyFails, EndApply, LoopInv
<1>4. ASSUME NEW c \in Conns, Connect(c)
      PROVE  LoopInv'
  BY <1>0, <1>4, ConnectKeeps DEF managed, LoopInv
<1>5. CASE UNCHANGED vars
  BY <1>0, <1>5 DEF vars, LoopInv
<1> QED
  BY <1>1, <1>2, <1>3, <1>4, <1>5, NextCases

\* What an inbound is said to admit by AcceptInv.
Admits(b) ==
    IF ~applying \/ b \in todo \ half THEN Pairs(users)
    ELSE IF b \in half THEN Kept
    ELSE Pairs(next)

\* An inbound admits what the steps of ApplyBox so far leave it.
LEMMA AcceptStep == Inv /\ [Next]_vars => AcceptInv'
<1> SUFFICES ASSUME Inv, [Next]_vars, failures' = 0, NEW a \in Inbounds
             PROVE  accepts'[a] = Admits(a)'
  BY DEF AcceptInv, Admits
<1>0. TypeOK /\ LoopInv
  BY DEF Inv
<1>1. failures = 0 => accepts[a] = Admits(a)
  BY DEF Inv, AcceptInv, Admits
<1>2. ASSUME NEW l \in Lists, BeginApply(l)
      PROVE  accepts'[a] = Admits(a)'
  <2>1. half' = {} /\ todo' = Inbounds /\ users' = users
    BY <1>0, <1>2 DEF BeginApply, TypeOK, LoopInv
  <2>2. Pairs(users)' = Pairs(users)
    BY <2>1 DEF Pairs
  <2> QED
    BY <1>1, <1>2, <2>1, <2>2 DEF BeginApply, Admits
<1>3. ASSUME NEW b \in Inbounds, DeleteFrom(b)
      PROVE  accepts'[a] = Admits(a)'
  <2>1. Pairs(users)' = Pairs(users) /\ Pairs(next)' = Pairs(next) /\ Kept' = Kept
    BY <1>3 DEF DeleteFrom, Pairs, Kept, DelUsers
  <2>2. CASE a = b
    <3>1. accepts'[a] = {p \in Pairs(users) : p[1] \notin DelUsers}
      BY <1>0, <1>1, <1>3, <2>2 DEF DeleteFrom, Admits, TypeOK
    <3>2. Admits(a)' = Kept'
      BY <1>3, <2>2 DEF DeleteFrom, Admits
    <3> QED
      BY <2>1, <3>1, <3>2 DEF Kept
  <2>3. CASE a # b
    <3>1. accepts'[a] = accepts[a]
      BY <1>0, <1>3, <2>3 DEF DeleteFrom, TypeOK
    <3> QED
      BY <1>1, <1>3, <2>1, <2>3, <3>1 DEF DeleteFrom, Admits
  <2> QED
    BY <2>2, <2>3
<1>4. ASSUME NEW b \in Inbounds, AddTo(b)
      PROVE  accepts'[a] = Admits(a)'
  <2>1. Pairs(users)' = Pairs(users) /\ Pairs(next)' = Pairs(next)
    BY <1>4 DEF AddTo, Pairs
  <2>2. applying /\ half = {b} /\ b \in todo
    BY <1>0, <1>4 DEF AddTo, LoopInv, TypeOK
  <2>3. CASE a = b
    <3>1. accepts'[a] = Kept \cup AddUsers
      BY <1>0, <1>1, <1>4, <2>2, <2>3 DEF AddTo, Admits, TypeOK
    <3>2. Admits(a)' = Pairs(next)'
      BY <1>4, <2>2, <2>3 DEF AddTo, Admits
    <3>3. Pairs(next) = Kept \cup AddUsers
      BY <1>0, DeltasAddUp DEF TypeOK
    <3> QED
      BY <2>1, <3>1, <3>2, <3>3
  <2>4. CASE a # b
    <3>1. accepts'[a] = accepts[a]
      BY <1>0, <1>4, <2>4 DEF AddTo, TypeOK
    <3> QED
      BY <1>1, <1>4, <2>1, <2>2, <2>4, <3>1 DEF AddTo, Admits
  <2> QED
    BY <2>3, <2>4
<1>5. CASE ApplyFails
  <2>1. failures' # 0
    BY <1>0, <1>5 DEF ApplyFails, TypeOK
  <2> QED
    BY <2>1
<1>6. CASE EndApply
  <2>1. Pairs(users)' = Pairs(next)
    BY <1>6 DEF EndApply, Pairs
  <2>2. half = {}
    BY <1>0, <1>6 DEF EndApply, TypeOK
  <2> QED
    BY <1>1, <1>6, <2>1, <2>2 DEF EndApply, Admits
<1>7. ASSUME UNCHANGED managed
      PROVE  accepts'[a] = Admits(a)'
  BY <1>1, <1>7 DEF managed, Admits, Pairs, Kept, DelUsers
<1>8. UNCHANGED vars => UNCHANGED managed
  BY DEF vars, managed
<1> QED
  BY <1>2, <1>3, <1>4, <1>5, <1>6, <1>7, <1>8, ConnectKeeps, NextCases
-----------------------------------------------------------------------------
(* The limiters.  Only BeginApply changes them.                            *)

\* The rate of a limiter after BeginApply: the one of the list if it is in the
\* map for a user with a limit, 0 if it is not in the map any more.
LEMMA BeginApplyRates ==
    ASSUME Inv, NEW l \in Lists, BeginApply(l), NEW m \in Limiters
    PROVE  /\ NeedsLimiter(l, m[1]) /\ limiters'[m[1]] = m => rate'[m] = l[m[1]].speed
           /\ limiters'[m[1]] # m => rate'[m] = 0
           /\ ~NeedsLimiter(l, m[1]) /\ limiters'[m[1]] = m => rate'[m] = rate[m]
<1>1. m[1] \in Ids /\ rate[m] \in Nat
  BY DEF Inv, TypeOK, Limiters
<1>2. limiters'[m[1]] = NextLimiter(l, m[1])
  BY <1>1 DEF BeginApply
<1>3. rate'[m] = IF NeedsLimiter(l, m[1]) /\ NextLimiter(l, m[1]) = m THEN l[m[1]].speed
                 ELSE IF DropsLimiter(l, m[1]) /\ limiters[m[1]] = m THEN 0
                 ELSE rate[m]
  BY DEF BeginApply
<1>4. rate[m] > 0 => limiters[m[1]] = m
  BY DEF Inv, LimiterInv
<1>5. m # Nothing
  BY UserAssumption DEF Limiters
<1>6. limiters'[m[1]] # m => rate'[m] = 0
  <2> SUFFICES ASSUME NextLimiter(l, m[1]) # m, rate'[m] # 0
               PROVE  FALSE
    BY <1>2
  <2>1. rate'[m] = rate[m] /\ ~(DropsLimiter(l, m[1]) /\ limiters[m[1]] = m)
    BY <1>3
  <2>2. limiters[m[1]] = m
    BY <1>1, <1>4, <2>1
  <2> QED
    BY <1>5, <2>1, <2>2 DEF NextLimiter
<1>7. ~NeedsLimiter(l, m[1]) /\ limiters'[m[1]] = m => rate'[m] = rate[m]
  BY <1>2, <1>3, <1>5 DEF NextLimiter
<1> QED
  BY <1>2, <1>3, <1>6, <1>7

\* After BeginApply the limiters are those of the new list.
LEMMA BeginApplyLimits ==
    ASSUME Inv, NEW l \in Lists, BeginApply(l)
    PROVE  Limited(l)'
<1> SUFFICES ASSUME NEW i \in Ids, l[i] # Nothing
             PROVE  IF l[i].speed > 0
                    THEN limiters'[i] # Nothing /\ rate'[limiters'[i]] = l[i].speed
                    ELSE limiters'[i] = Nothing
  BY DEF Limited
<1>1. limiters'[i] = NextLimiter(l, i) /\ applies < MaxApplies
  BY DEF BeginApply
<1>2. CASE l[i].speed > 0
  <2>1. NeedsLimiter(l, i)
    BY <1>2 DEF NeedsLimiter
  <2>2. limiters'[i] # Nothing /\ limiters'[i] \in Limiters /\ limiters'[i][1] = i
    BY <1>1, <2>1, NextLimiterType DEF Inv
  <2> QED
    BY <1>2, <2>1, <2>2, BeginApplyRates
<1>3. CASE ~(l[i].speed > 0)
  <2>1. l[i].speed = 0
    BY <1>3, ListFacts
  <2> QED
    BY <1>1, <1>3, <2>1 DEF NextLimiter, NeedsLimiter, DropsLimiter
<1> QED
  BY <1>2, <1>3

\* The limiters that run are the ones in the map.
LEMMA LimiterStep == Inv /\ [Next]_vars => LimiterInv'
<1> SUFFICES ASSUME Inv, [Next]_vars
             PROVE  LimiterInv'
  OBVIOUS
<1>0. TypeOK /\ LimiterInv
  BY DEF Inv
<1>1. ASSUME NEW l \in Lists, BeginApply(l)
      PROVE  LimiterInv'
  <2>1. ASSUME NEW m \in Limiters, rate'[m] > 0
        PROVE  limiters'[m[1]] = m
    BY <1>1, <2>1, BeginApplyRates
  <2>2. ASSUME NEW i \in Ids, limiters'[i] # Nothing
        PROVE  /\ limiters'[i][1] = i /\ limiters'[i][2] <= applies'
               /\ rate'[limiters'[i]] > 0
    <3> DEFINE m == NextLimiter(l, i)
    <3>1. limiters'[i] = m /\ applies' = applies + 1 /\ applies < MaxApplies
      BY <1>1 DEF BeginApply
    <3>2. m \in Limiters /\ m[1] = i /\ m[2] <= applies + 1
      BY <1>0, <2>2, <3>1, NextLimiterType
    <3>3. CASE NeedsLimiter(l, i)
      <4>1. rate'[m] = l[i].speed
        BY <1>1, <3>1, <3>2, <3>3, BeginApplyRates
      <4> QED
        BY <3>1, <3>2, <3>3, <4>1 DEF NeedsLimiter
    <3>4. CASE ~NeedsLimiter(l, i)
      <4>1. m = limiters[i] /\ limiters[i] # Nothing
        BY <2>2, <3>1, <3>4 DEF NextLimiter
      <4>2. rate'[m] = rate[m]
        BY <1>1, <3>1, <3>2, <3>4, BeginApplyRates
      <4> QED
        BY <1>0, <3>1, <3>2, <4>1, <4>2 DEF LimiterInv
    <3> QED
      BY <3>3, <3>4
  <2> QED
    BY <2>1, <2>2 DEF LimiterInv
<1>2. ASSUME UNCHANGED <<limiters, rate, applies>>
      PROVE  LimiterInv'
  BY <1>0, <1>2 DEF LimiterInv
<1>3. ASSUME NEW b \in Inbounds, DeleteFrom(b) \/ AddTo(b)
      PROVE  UNCHANGED <<limiters, rate, applies>>
  BY <1>3 DEF DeleteFrom, AddTo
<1>4. ApplyFails \/ EndApply => UNCHANGED <<limiters, rate, applies>>
  BY DEF ApplyFails, EndApply
<1>5. ASSUME NEW c \in Conns, Connect(c)
      PROVE  UNCHANGED <<limiters, rate, applies>>
  BY <1>5, ConnectKeeps DEF managed
<1>6. UNCHANGED vars => UNCHANGED <<limiters, rate, applies>>
  BY DEF vars
<1> QED
  BY <1>1, <1>2, <1>3, <1>4, <1>5, <1>6, NextCases

\* The limiters are those of the list that is applied, then of the active one.
LEMMA ForceStep == Inv /\ [Next]_vars => ForceInv'
<1> SUFFICES ASSUME Inv, [Next]_vars
             PROVE  ForceInv'
  OBVIOUS
<1>0. ForceInv
  BY DEF Inv
<1>1. ASSUME NEW l \in Lists, BeginApply(l)
      PROVE  ForceInv'
  <2>1. Limited(l)' /\ next' = l /\ applying'
    BY <1>1, BeginApplyLimits DEF BeginApply
  <2> QED
    BY <2>1 DEF ForceInv, Limited
<1>2. ASSUME NEW b \in Inbounds, DeleteFrom(b) \/ AddTo(b)
      PROVE  ForceInv'
  BY <1>0, <1>2 DEF DeleteFrom, AddTo, ForceInv, Limited
<1>3. CASE ApplyFails
  BY <1>3 DEF ApplyFails, ForceInv
<1>4. CASE EndApply
  BY <1>0, <1>4 DEF EndApply, ForceInv, Limited
<1>5. ASSUME NEW c \in Conns, Connect(c)
      PROVE  ForceInv'
  BY <1>0, <1>5, ConnectKeeps DEF managed, ForceInv, Limited
<1>6. CASE UNCHANGED vars
  BY <1>0, <1>6 DEF vars, ForceInv, Limited
<1> QED
  BY <1>1, <1>2, <1>3, <1>4, <1>5, <1>6, NextCases

\* A limiter that a connection holds and that runs belongs to an active user.
LEMMA HeldStep == Inv /\ [Next]_vars => HeldInv'
<1> SUFFICES ASSUME Inv, [Next]_vars, NEW c \in Conns, conn'[c].lim # Nothing
             PROVE  /\ conn'[c].lim[2] <= applies'
                    /\ rate'[conn'[c].lim] > 0 =>
                         /\ users'[conn'[c].lim[1]] # Nothing
                         /\ applying' => next'[conn'[c].lim[1]] # Nothing
  BY DEF HeldInv
<1> DEFINE m == conn[c].lim
<1>0. TypeOK /\ LimiterInv /\ conn \in [Conns -> ConnRec] /\ applies \in Nat
  BY UserAssumption DEF Inv, TypeOK
<1>1. m # Nothing =>
        /\ m \in Limiters /\ m[1] \in Ids /\ m[2] \in Nat /\ rate[m] \in Nat
        /\ m[2] <= applies
        /\ rate[m] > 0 => users[m[1]] # Nothing /\ (applying => next[m[1]] # Nothing)
  BY <1>0 DEF Inv, TypeOK, HeldInv, ConnRec, Limiters
<1>2. ASSUME NEW l \in Lists, BeginApply(l)
      PROVE  /\ conn'[c].lim[2] <= applies'
             /\ rate'[conn'[c].lim] > 0 =>
                  /\ users'[conn'[c].lim[1]] # Nothing
                  /\ applying' => next'[conn'[c].lim[1]] # Nothing
  <2>1. /\ conn' = conn /\ users' = users /\ next' = l /\ applies' = applies + 1
        /\ limiters'[m[1]] = NextLimiter(l, m[1])
    BY <1>1, <1>2 DEF BeginApply
  <2>2. m # Nothing /\ m[2] <= applies'
    BY <1>0, <1>1, <2>1
  <2> SUFFICES ASSUME rate'[m] > 0
               PROVE  users[m[1]] # Nothing /\ l[m[1]] # Nothing
    BY <2>1, <2>2
  <2>3. limiters'[m[1]] = m
    BY <1>1, <1>2, <2>2, BeginApplyRates
  <2>4. limiters[m[1]] = m
    <3>1. m # <<m[1], applies + 1>>
      <4> SUFFICES ASSUME m = <<m[1], applies + 1>>
                   PROVE  FALSE
        OBVIOUS
      <4>1. m[2] = applies + 1
        OBVIOUS
      <4> QED
        BY <1>0, <1>1, <2>2, <4>1
    <3> QED
      BY <2>1, <2>2, <2>3, <3>1 DEF NextLimiter
  <2>5. rate[m] > 0
    BY <1>0, <1>1, <2>2, <2>4 DEF LimiterInv
  <2>6. users[m[1]] # Nothing
    BY <1>1, <2>2, <2>5
  <2>7. l[m[1]] # Nothing
    BY <2>1, <2>2, <2>3, <2>6 DEF NextLimiter, NeedsLimiter, DropsLimiter
  <2> QED
    BY <2>6, <2>7
<1>3. ASSUME NEW b \in Inbounds, DeleteFrom(b) \/ AddTo(b)
      PROVE  UNCHANGED <<users, next, rate, applying, applies, conn>>
  BY <1>3 DEF DeleteFrom, AddTo
<1>4. CASE ApplyFails
  BY <1>1, <1>4 DEF ApplyFails
<1>5. CASE EndApply
  BY <1>1, <1>5 DEF EndApply
<1>6. ASSUME NEW d \in Conns, Connect(d)
      PROVE  /\ conn'[c].lim[2] <= applies'
             /\ rate'[conn'[c].lim] > 0 =>
                  /\ users'[conn'[c].lim[1]] # Nothing
                  /\ applying' => next'[conn'[c].lim[1]] # Nothing
  <2>1. UNCHANGED managed
    BY <1>6, ConnectKeeps
  <2>2. CASE conn'[c].lim = m
    BY <1>1, <2>1, <2>2 DEF managed
  <2>3. CASE conn'[c].lim # m
    <3>1. DirectionalLimiters(c)
      <4>1. c = d
        BY <1>0, <1>6, <2>3
           DEF Connect, Authenticate, DirectionalLimiters, Resolve, Close, SetConn
      <4>2. ~Resolve(c)
        BY <1>0, <2>3 DEF Resolve, SetConn, ConnRec
      <4>3. conn'[c] # NoConn
        BY DEF NoConn
      <4>4. ASSUME NEW b \in Inbounds, NEW p \in Creds \X Ids, Authenticate(c, b, p)
            PROVE  FALSE
        BY <1>0, <4>4 DEF Authenticate, SetConn, NoConn
      <4>5. ~Close(c)
        BY <1>0, <4>3 DEF Close, SetConn
      <4> QED
        BY <1>6, <4>1, <4>2, <4>4, <4>5 DEF Connect
    <3> DEFINE i == BySecret(conn[c].user)
    <3>2. i # Nothing /\ conn'[c].lim = limiters[i] /\ ~applying
      <4>1. conn'[c] = [conn[c] EXCEPT !.st = "wired",
                                       !.lim = IF i = Nothing THEN Nothing ELSE limiters[i]]
        BY <1>0, <3>1 DEF DirectionalLimiters, SetConn
      <4>2. conn'[c].lim = IF i = Nothing THEN Nothing ELSE limiters[i]
        BY <1>0, <4>1 DEF ConnRec
      <4> QED
        BY <3>1, <4>2 DEF DirectionalLimiters
    <3>3. i \in Ids /\ users[i] # Nothing
      BY <3>2, BySecretFinds
    <3>4. limiters[i] # Nothing /\ limiters[i][1] = i /\ limiters[i][2] <= applies
      BY <1>0, <3>2, <3>3 DEF LimiterInv
    <3> QED
      BY <2>1, <3>2, <3>3, <3>4 DEF managed
  <2> QED
    BY <2>2, <2>3
<1>7. ASSUME UNCHANGED <<users, next, rate, applying, applies, conn>>
      PROVE  /\ conn'[c].lim[2] <= applies'
             /\ rate'[conn'[c].lim] > 0 =>
                  /\ users'[conn'[c].lim[1]] # Nothing
                  /\ applying' => next'[conn'[c].lim[1]] # Nothing
  BY <1>1, <1>7
<1>8. UNCHANGED vars => UNCHANGED <<users, next, rate, applying, applies, conn>>
  BY DEF vars
<1> QED
  BY <1>2, <1>3, <1>4, <1>5, <1>6, <1>7, <1>8, NextCases

-----------------------------------------------------------------------------
(* The theorems.                                                           *)

(***************************************************************************)
(* The invariant holds throughout.                                         *)
(***************************************************************************)
THEOREM Invariance == Spec => []Inv
<1>1. Inv /\ [Next]_vars => Inv'
  BY TypeStep, LoopStep, AcceptStep, LimiterStep, ForceStep, HeldStep DEF Inv
<1> QED
  BY InvInit, <1>1, PTL DEF Spec

(***************************************************************************)
(* Every variable keeps its type over any calls of ApplyBox, failures and  *)
(* connections.                                                            *)
(***************************************************************************)
THEOREM TypeCorrect == Spec => []TypeOK
<1>1. Inv => TypeOK
  BY DEF Inv
<1> QED
  BY <1>1, Invariance, PTL

(***************************************************************************)
(* Between calls of ApplyBox, none of which failed, the inbounds admit the *)
(* active users and nobody else.                                           *)
(***************************************************************************)
THEOREM AdmitsActiveOnly == Spec => []AcceptsActiveOnly
<1>1. Inv => AcceptsActiveOnly
  BY DEF Inv, AcceptInv, Pairs, AcceptsActiveOnly, Active
<1> QED
  BY <1>1, Invariance, PTL

(***************************************************************************)
(* A user who keeps the credential is admitted by every inbound at every   *)
(* step of ApplyBox.                                                       *)
(***************************************************************************)
THEOREM ReloadInterruptsNobody == Spec => []NeverInterrupted
<1>1. Inv => NeverInterrupted
  <2> SUFFICES ASSUME Inv, applying, failures = 0, NEW i \in Ids, users[i] # Nothing,
                      next[i] # Nothing, next[i].cred = users[i].cred, NEW b \in Inbounds
               PROVE  <<users[i].cred, i>> \in accepts[b]
    BY DEF NeverInterrupted, Active
  <2> DEFINE p == <<users[i].cred, i>>
  <2>1. p \in Pairs(users) /\ p \in Pairs(next)
    BY DEF Pairs
  <2>2. p[1] \notin DelUsers
    <3> SUFFICES ASSUME NEW j \in Ids, users[j] # Nothing, users[j].cred = users[i].cred,
                        next[j] = Nothing \/ next[j].cred # users[j].cred
                 PROVE  FALSE
      BY DEF DelUsers
    <3>1. j = i
      BY ListFacts DEF Inv, TypeOK
    <3> QED
      BY <3>1
  <2> QED
    BY <2>1, <2>2 DEF Inv, AcceptInv, Kept
<1> QED
  BY <1>1, Invariance, PTL

(***************************************************************************)
(* After a successful ApplyBox a limiter that a connection holds is closed *)
(* or is the one of an active user, at that user's rate.                   *)
(***************************************************************************)
THEOREM HeldLimitersAreReached == Spec => []HeldLimitersFollow
<1>1. Inv => HeldLimitersFollow
  <2> SUFFICES ASSUME Inv, ~applying, settled, NEW c \in Conns, conn[c].lim # Nothing,
                      rate[conn[c].lim] > 0
               PROVE  /\ Active(conn[c].lim[1]) /\ limiters[conn[c].lim[1]] = conn[c].lim
                      /\ rate[conn[c].lim] = users[conn[c].lim[1]].speed
    BY DEF HeldLimitersFollow
  <2> DEFINE m == conn[c].lim
  <2>1. m \in Limiters /\ m[1] \in Ids
    BY DEF Inv, TypeOK, ConnRec, Limiters
  <2>2. users[m[1]] # Nothing /\ limiters[m[1]] = m
    BY <2>1 DEF Inv, HeldInv, LimiterInv
  <2>3. Limited(users)
    BY DEF Inv, ForceInv
  <2> QED
    BY <2>1, <2>2, <2>3 DEF Limited, Active
<1> QED
  BY <1>1, Invariance, PTL

(***************************************************************************)
(* After a successful ApplyBox an active user has a limiter exactly if the *)
(* list sets a speed, and it runs at that speed.                           *)
(***************************************************************************)
THEOREM LimitsAreInForce == Spec => []LimitsInForce
<1>1. Inv => LimitsInForce
  BY DEF Inv, ForceInv, Limited, LimitsInForce, Active
<1> QED
  BY <1>1, Invariance, PTL
=============================================================================
