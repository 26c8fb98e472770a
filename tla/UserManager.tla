----------------------------- MODULE UserManager -----------------------------
(***************************************************************************)
(* The users of the agent: ApplyBox replaces the user list, adding and     *)
(* deleting credentials of the running inbounds and opening, re-rating and *)
(* closing rate limiters, while connections are authenticated and wired to *)
(* limiters (cmd/mini-sb-agent/user_manager.go and Hook of main.go).       *)
(*                                                                         *)
(* A user has one credential: Client.FetchUsers uses the UUID as the       *)
(* Hysteria2 password.  VLESS inbounds name an authenticated user by this  *)
(* credential, Hysteria2 inbounds by the id.  The two directions of a      *)
(* limiter pair are always treated alike and are one limiter here; the     *)
(* node's own limiter never changes and is left out.                       *)
(***************************************************************************)
EXTENDS Integers, FiniteSets

CONSTANTS
    Ids,            \* user ids
    Creds,          \* credentials
    Speeds,         \* speed limits, 0 for none
    Inbounds,       \* inbound tags
    Hy2,            \* the Hysteria2 ones
    Conns,          \* connections
    Nothing,        \* no user, no limiter, no key
    MaxApplies,     \* bound on calls of ApplyBox
    MaxFailures     \* bound on failing calls of AddUsers and DelUsers

ASSUME UserAssumption ==
    /\ Ids \cap Creds = {}
    /\ Speeds \subseteq Nat
    /\ Hy2 \subseteq Inbounds
    /\ MaxApplies \in Nat /\ MaxFailures \in Nat
    /\ Nothing \notin Ids \cup Creds
    /\ Nothing \notin [cred : Creds, speed : Speeds]
    /\ Nothing \notin Ids \X (1..MaxApplies)

UserRec == [cred : Creds, speed : Speeds]

\* Limiter <<i, n>> was made for user i by the n-th call of ApplyBox.
Limiters == Ids \X (1..MaxApplies)

(***************************************************************************)
(* The lists a panel sends, merged by id over the panels (MultiPanel) and  *)
(* with distinct credentials.                                              *)
(***************************************************************************)
Lists == {l \in [Ids -> UserRec \cup {Nothing}] :
            \A i, j \in Ids : l[i] # Nothing /\ l[j] # Nothing /\ i # j
                                => l[i].cred # l[j].cred}

VARIABLES
    users,      \* m.users, and m.bySecret with it
    limiters,   \* m.limiters: per id, a limiter or Nothing
    rate,       \* per limiter: its rate, 0 when it is closed or not yet made
    accepts,    \* per inbound: the pairs of a credential and an id it admits
    next,       \* the list being applied
    todo,       \* inbounds ApplyBox has not been through
    half,       \* inbounds it has deleted from and not yet added to, at most one
    applying,   \* ApplyBox holds mu
    settled,    \* the last call of ApplyBox succeeded
    conn,       \* per connection: see ConnRec
    applies, failures

vars == <<users, limiters, rate, accepts, next, todo, half, applying, settled,
          conn, applies, failures>>

(***************************************************************************)
(* A connection is "closed", "accepted" by an inbound, "wired" to the      *)
(* limiter it keeps, or "routed" and billed to a key.                      *)
(***************************************************************************)
ConnRec == [st : {"closed", "accepted", "wired", "routed"},
            user : Ids \cup Creds \cup {Nothing},
            lim : Limiters \cup {Nothing},
            key : Ids \cup Creds \cup {Nothing}]

NoConn == [st |-> "closed", user |-> Nothing, lim |-> Nothing, key |-> Nothing]

NoUsers == [i \in Ids |-> Nothing]

TypeOK ==
    /\ users \in Lists
    /\ limiters \in [Ids -> Limiters \cup {Nothing}]
    /\ rate \in [Limiters -> Nat]
    /\ accepts \in [Inbounds -> SUBSET (Creds \X Ids)]
    /\ next \in Lists
    /\ todo \in SUBSET Inbounds
    /\ half \in SUBSET todo
    /\ applying \in BOOLEAN
    /\ settled \in BOOLEAN
    /\ conn \in [Conns -> ConnRec]
    /\ applies \in 0..MaxApplies
    /\ failures \in 0..MaxFailures

Init ==
    /\ users = NoUsers
    /\ limiters = [i \in Ids |-> Nothing]
    /\ rate = [l \in Limiters |-> 0]
    /\ accepts = [b \in Inbounds |-> {}]
    /\ next = NoUsers
    /\ todo = {} /\ half = {}
    /\ applying = FALSE /\ settled = TRUE
    /\ conn = [c \in Conns |-> NoConn]
    /\ applies = 0 /\ failures = 0

-----------------------------------------------------------------------------
(* ApplyBox.                                                               *)

\* Mutant: an unchanged user is skipped altogether.
MutNeedsLimiterSkipsSame(l, i) == l[i] # Nothing /\ l[i] # users[i] /\ l[i].speed > 0

\* updateLimiterLocked wants a limiter for user i of list l.
NeedsLimiter(l, i) == l[i] # Nothing /\ l[i].speed > 0

\* closeLimiterLocked is called for user i: deleted, or without a limit.
DropsLimiter(l, i) ==
    \/ l[i] = Nothing /\ users[i] # Nothing
    \/ l[i] # Nothing /\ l[i].speed = 0

\* Mutant: a changed speed gets a new limiter.
MutNextLimiterReplaces(l, i) ==
    IF NeedsLimiter(l, i)
    THEN IF limiters[i] # Nothing /\ rate[limiters[i]] = l[i].speed
         THEN limiters[i] ELSE <<i, applies + 1>>
    ELSE IF DropsLimiter(l, i) THEN Nothing ELSE limiters[i]

\* m.limiters[i] afterwards: a limiter that exists is kept.
NextLimiter(l, i) ==
    IF NeedsLimiter(l, i)
    THEN IF limiters[i] # Nothing THEN limiters[i] ELSE <<i, applies + 1>>
    ELSE IF DropsLimiter(l, i) THEN Nothing ELSE limiters[i]

\* The limiters change before the inbounds do: SetRate, newLimiterPair, Close.
BeginApply(l) ==
    /\ ~applying
    /\ applies < MaxApplies
    /\ applies' = applies + 1
    /\ applying' = TRUE
    /\ next' = l
    /\ todo' = Inbounds
    /\ limiters' = [i \in Ids |-> NextLimiter(l, i)]
    /\ rate' = [m \in Limiters |->
                  IF NeedsLimiter(l, m[1]) /\ NextLimiter(l, m[1]) = m THEN l[m[1]].speed
                  ELSE IF DropsLimiter(l, m[1]) /\ limiters[m[1]] = m THEN 0
                  ELSE rate[m]]
    /\ UNCHANGED <<users, accepts, half, settled, conn, failures>>

\* Credentials that are deleted: of users that left or changed credentials.
DelUsers == {users[i].cred : i \in {j \in Ids :
                /\ users[j] # Nothing
                /\ next[j] = Nothing \/ next[j].cred # users[j].cred}}

\* Mutant: changed users are added only if they are new.
MutAddUsersNewOnly == {<<next[i].cred, i>> : i \in {j \in Ids :
                        next[j] # Nothing /\ users[j] = Nothing}}

\* Credentials that are added: of users that are new or differ in anything.
AddUsers == {<<next[i].cred, i>> : i \in {j \in Ids :
                next[j] # Nothing /\ next[j] # users[j]}}

\* Mutant: everything is deleted and added again.
MutDeleteFromAll(b) ==
    /\ applying
    /\ b \in todo /\ half = {}
    /\ half' = {b}
    /\ accepts' = [accepts EXCEPT ![b] = {}]
    /\ UNCHANGED <<users, limiters, rate, next, todo, applying, settled, conn,
                   applies, failures>>

\* The inbounds are visited in any order: first in.DelUsers ...
DeleteFrom(b) ==
    /\ applying
    /\ b \in todo /\ half = {}
    /\ half' = {b}
    /\ accepts' = [accepts EXCEPT ![b] = {p \in @ : p[1] \notin DelUsers}]
    /\ UNCHANGED <<users, limiters, rate, next, todo, applying, settled, conn,
                   applies, failures>>

\* ... then in.AddUsers.
AddTo(b) ==
    /\ b \in half
    /\ half' = {}
    /\ todo' = todo \ {b}
    /\ accepts' = [accepts EXCEPT ![b] = @ \cup AddUsers]
    /\ UNCHANGED <<users, limiters, rate, next, applying, settled, conn, applies, failures>>

\* One of the two returns an error: ApplyBox returns it and keeps the old list,
\* but nothing that was done is undone.
ApplyFails ==
    /\ applying /\ todo # {}
    /\ failures < MaxFailures
    /\ failures' = failures + 1
    /\ applying' = FALSE /\ settled' = FALSE
    /\ todo' = {} /\ half' = {}
    /\ next' = NoUsers
    /\ UNCHANGED <<users, limiters, rate, accepts, conn, applies>>

\* Mutant: the new list is merged into m.users, and deleted users stay.
MutEndApplyMerges ==
    /\ applying /\ todo = {}
    /\ users' = [i \in Ids |-> IF next[i] = Nothing THEN users[i] ELSE next[i]]
    /\ next' = NoUsers
    /\ applying' = FALSE /\ settled' = TRUE
    /\ UNCHANGED <<limiters, rate, accepts, todo, half, conn, applies, failures>>

\* Every inbound is done: m.users and m.bySecret are replaced.
EndApply ==
    /\ applying /\ todo = {}
    /\ users' = next
    /\ next' = NoUsers
    /\ applying' = FALSE /\ settled' = TRUE
    /\ UNCHANGED <<limiters, rate, accepts, todo, half, conn, applies, failures>>

-----------------------------------------------------------------------------
(* Connections.                                                            *)

SetConn(c, r) ==
    /\ conn' = [conn EXCEPT ![c] = r]
    /\ UNCHANGED <<users, limiters, rate, accepts, next, todo, half, applying, settled,
                   applies, failures>>

\* An inbound authenticates a client, also in the middle of ApplyBox.
Authenticate(c, b, p) ==
    /\ conn[c].st = "closed"
    /\ p \in accepts[b]
    /\ SetConn(c, [NoConn EXCEPT !.st = "accepted",
                                 !.user = IF b \in Hy2 THEN p[2] ELSE p[1]])

\* m.bySecret of a user name: the id, or Nothing.
BySecret(u) ==
    IF \E i \in Ids : users[i] # Nothing /\ u \in {i, users[i].cred}
    THEN CHOOSE i \in Ids : users[i] # Nothing /\ u \in {i, users[i].cred}
    ELSE Nothing

\* RoutedConnection first asks DirectionalLimiters, under mu ...
DirectionalLimiters(c) ==
    /\ ~applying
    /\ conn[c].st = "accepted"
    /\ SetConn(c, [conn[c] EXCEPT
                     !.st = "wired",
                     !.lim = IF BySecret(conn[c].user) = Nothing THEN Nothing
                             ELSE limiters[BySecret(conn[c].user)]])

\* ... and then Resolve, under mu again: the id, or the name itself.
Resolve(c) ==
    /\ ~applying
    /\ conn[c].st = "wired"
    /\ SetConn(c, [conn[c] EXCEPT
                     !.st = "routed",
                     !.key = IF BySecret(conn[c].user) = Nothing THEN conn[c].user
                             ELSE BySecret(conn[c].user)])

\* The client leaves, or the closed limiter fails the next Read or Write.
Close(c) == conn[c].st # "closed" /\ SetConn(c, NoConn)

Next ==
    \/ \E l \in Lists : BeginApply(l)
    \/ \E b \in Inbounds : DeleteFrom(b) \/ AddTo(b)
    \/ ApplyFails \/ EndApply
    \/ \E c \in Conns :
        \/ \E b \in Inbounds, p \in Creds \X Ids : Authenticate(c, b, p)
        \/ DirectionalLimiters(c) \/ Resolve(c) \/ Close(c)

Spec == Init /\ [][Next]_vars

-----------------------------------------------------------------------------
(* Properties.                                                             *)

Active(i) == users[i] # Nothing

(***************************************************************************)
(* Between two calls of ApplyBox, and as long as no inbound has failed,    *)
(* the inbounds admit the active users and nobody else: the deltas add up, *)
(* also when credentials move between users.                               *)
(***************************************************************************)
AcceptsActiveOnly ==
    ~applying /\ failures = 0 =>
        \A b \in Inbounds : accepts[b] = {<<users[i].cred, i>> : i \in {j \in Ids : Active(j)}}

(***************************************************************************)
(* A user who keeps the credential is admitted at every moment of a hot    *)
(* reload, also one whose speed limit changes.                             *)
(***************************************************************************)
NeverInterrupted ==
    applying /\ failures = 0 =>
        \A i \in Ids :
            Active(i) /\ next[i] # Nothing /\ next[i].cred = users[i].cred
              => \A b \in Inbounds : <<users[i].cred, i>> \in accepts[b]

(***************************************************************************)
(* After a successful ApplyBox a connection that holds a limiter either is *)
(* cut (the limiter is closed) or belongs to an active user and runs at    *)
(* the rate of the current list, whatever failed and was retried before:   *)
(* SetRate and Close reach every limiter a connection can hold.            *)
(***************************************************************************)
HeldLimitersFollow ==
    ~applying /\ settled =>
        \A c \in Conns : LET m == conn[c].lim IN
            m # Nothing /\ rate[m] > 0 =>
                /\ Active(m[1]) /\ limiters[m[1]] = m
                /\ rate[m] = users[m[1]].speed

(***************************************************************************)
(* After a successful ApplyBox new connections get the limit of their      *)
(* user: also when a failed call had closed the limiter of a user whom the *)
(* next list still contains unchanged.                                     *)
(***************************************************************************)
LimitsInForce ==
    ~applying /\ settled =>
        \A i \in Ids : Active(i) =>
            IF users[i].speed > 0
            THEN limiters[i] # Nothing /\ rate[limiters[i]] = users[i].speed
            ELSE limiters[i] = Nothing

(***************************************************************************)
(* The README says that the speed limits of the panel are "strictly        *)
(* enforced" and that the list is updated without a restart: a routed      *)
(* connection of a user with a limit holds that user's limiter.            *)
(***************************************************************************)
LimitsReachConnections ==
    ~applying /\ settled =>
        \A c \in Conns : LET i == conn[c].key IN
            conn[c].st = "routed" /\ i \in Ids /\ Active(i) /\ users[i].speed > 0
              => conn[c].lim # Nothing
=============================================================================
