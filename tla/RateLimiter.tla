----------------------------- MODULE RateLimiter -----------------------------
(***************************************************************************)
(* The token bucket of counter/ratelimit.go, shared by stream connections, *)
(* which call Wait around every Read and Write and sleep for what they     *)
(* overdraw, and packet connections, which call Allow and drop.  Another   *)
(* goroutine changes the rate or closes the bucket meanwhile.              *)
(*                                                                         *)
(* Time is a sequence of ticks (nanoseconds in the code) and all times are *)
(* relative: what is left of a sleep, and the time since l.last.  Rates    *)
(* are in bytes per tick, so tokens are integers.  As in UserManager, the  *)
(* rate is never set to 0 and a closed limiter is never opened again, so   *)
(* l.disabled always equals l.closed.                                      *)
(***************************************************************************)
EXTENDS Integers, FiniteSets, FiniteSetsExt

CONSTANTS
    Conns,          \* stream connections
    Rates,          \* rates given to SetRate
    Window,         \* defaultBurstWindow, in ticks
    MaxChunk,       \* maxReadChunk, maxWriteChunk
    Sizes,          \* sizes of reads, writes and packets
    Idle, Checked, Asleep, Dead     \* where a connection stands in Wait

ASSUME LimiterAssumption ==
    /\ IsFiniteSet(Conns) /\ IsFiniteSet(Rates) /\ IsFiniteSet(Sizes)
    /\ Rates \subseteq Nat \ {0} /\ Rates # {}
    /\ Window \in Nat /\ MaxChunk \in Nat \ {0}
    /\ Sizes \subseteq Nat \ {0} /\ Sizes # {}
    /\ Idle \notin {Checked, Asleep, Dead} /\ Checked \notin {Asleep, Dead} /\ Asleep # Dead

Burst(r) == Max({r * Window, MaxChunk})

VARIABLES
    rate, tokens, closed,       \* of the limiter; its burst is CurBurst
    age,        \* time since l.last, as long as it matters
    conn,       \* per connection: its call of Wait, see ConnRec
    excess,     \* history: bytes passed beyond the rate, see Pass
    late        \* history, per connection: operations it ended after Close

vars == <<rate, tokens, closed, age, conn, excess, late>>

Sum(f) == MapThenSumSet(LAMBDA c : f[c], DOMAIN f)

MaxSize == Max(Sizes)
MaxBurst == Max({Burst(r) : r \in Rates})
AllSizes == Cardinality(Conns) * MaxSize

\* What one call of SetRate may let through beside the rate: one operation of
\* every connection, whose debt is forgiven or whose chunk, checked before, is
\* no longer charged in full, and the less than one tick a sleep is short.
Allowance == AllSizes + Max(Rates) - 1

\* A connection: the operation and its size, remaining and chunk of Wait, the
\* tokens reserved for it, and the rest of its sleep.
ConnRec == [pc : {Idle, Checked, Asleep, Dead}, kind : {"read", "write"},
            size : Sizes \cup {0}, remaining : Nat, chunk : Nat,
            charged : Nat, sleep : Nat]

IdleConn == [pc |-> Idle, kind |-> "read", size |-> 0, remaining |-> 0, chunk |-> 0,
             charged |-> 0, sleep |-> 0]

CurBurst == IF closed THEN 0 ELSE Burst(rate)

\* What l.tokens becomes when it is next brought up to date.
Refreshed == Min({CurBurst, tokens + age * rate})

TypeOK ==
    /\ rate \in Rates \cup {0}
    /\ tokens \in Int /\ tokens <= CurBurst
    /\ closed \in BOOLEAN
    /\ age \in Nat
    /\ conn \in [Conns -> ConnRec]
    /\ \A c \in Conns : conn[c].chunk <= conn[c].remaining /\ conn[c].remaining <= conn[c].size
    /\ excess \in Nat
    /\ late \in [Conns -> Nat]

\* NewRateLimiter.
Init ==
    /\ rate \in Rates
    /\ tokens = 0
    /\ closed = FALSE
    /\ age = 0
    /\ conn = [c \in Conns |-> IdleConn]
    /\ excess = 0
    /\ late = [c \in Conns |-> 0]

-----------------------------------------------------------------------------
(* Time, and the goroutine that owns the limiter.                          *)

\* Time passes.  A goroutine whose sleep is over may still have to wait for
\* the scheduler.
Tick ==
    /\ age' = IF tokens + age * rate < CurBurst THEN age + 1 ELSE age
    /\ conn' = [c \in Conns |-> [conn[c] EXCEPT !.sleep = Max({0, @ - 1})]]
    /\ excess' = Max({0, excess - rate})
    /\ UNCHANGED <<rate, tokens, closed, late>>

\* l.last is set without crediting the time since, and debts are forgiven.
SetRate(r) ==
    /\ ~closed
    /\ rate' = r
    /\ tokens' = IF tokens < 0 \/ tokens > Burst(r) THEN 0 ELSE tokens
    /\ age' = 0
    /\ excess' = Max({0, excess - Allowance})
    /\ UNCHANGED <<closed, conn, late>>

Close ==
    /\ ~closed
    /\ closed' = TRUE
    /\ rate' = 0
    /\ tokens' = 0
    /\ UNCHANGED <<age, conn, excess, late>>

-----------------------------------------------------------------------------
(* Stream connections: Read, Write, ReadBuffer and WriteBuffer.            *)

\* A Read has its bytes already, a Write waits before it writes them.  A longer
\* Write is several operations of at most maxWriteChunk; a ReadBuffer is as
\* large as its buffer.
Begin(c, k, n) ==
    /\ conn[c].pc = Idle
    /\ conn[c].remaining = 0
    /\ k = "write" => n <= MaxChunk
    /\ conn' = [conn EXCEPT ![c] = [IdleConn EXCEPT !.kind = k, !.size = n, !.remaining = n]]
    /\ UNCHANGED <<rate, tokens, closed, age, excess, late>>

\* Mutant: a closed limiter lets everything through.
MutWaitClosedPasses(c) ==
    /\ closed
    /\ conn[c].pc = Idle /\ conn[c].remaining > 0
    /\ conn' = [conn EXCEPT ![c] = IdleConn]
    /\ late' = [late EXCEPT ![c] = @ + 1]
    /\ UNCHANGED <<rate, tokens, closed, age, excess>>

\* Wait finds the limiter closed, in its loop or in reserve: it fails, and the
\* caller gives up the connection.  Read returns its bytes with the error.
WaitClosed(c) ==
    /\ closed
    /\ (conn[c].pc = Idle /\ conn[c].remaining > 0) \/ conn[c].pc = Checked
    /\ conn' = [conn EXCEPT ![c] = [IdleConn EXCEPT !.pc = Dead]]
    /\ late' = [late EXCEPT ![c] = IF conn[c].kind = "read" THEN @ + 1 ELSE @]
    /\ UNCHANGED <<rate, tokens, closed, age, excess>>

\* Mutant: every round of the loop takes a whole burst.
MutCheckWholeBurst(c) ==
    /\ conn[c].pc = Idle /\ conn[c].remaining > 0
    /\ ~closed
    /\ conn' = [conn EXCEPT ![c].pc = Checked, ![c].chunk = CurBurst]
    /\ UNCHANGED <<rate, tokens, closed, age, excess, late>>

\* The loop of Wait reads the burst ...
Check(c) ==
    /\ conn[c].pc = Idle /\ conn[c].remaining > 0
    /\ ~closed
    /\ conn' = [conn EXCEPT ![c].pc = Checked,
                            ![c].chunk = Min({conn[c].remaining, CurBurst})]
    /\ UNCHANGED <<rate, tokens, closed, age, excess, late>>

\* Mutant: a reservation that has to wait is not taken from the bucket.
MutReserveNoDebt(c) ==
    LET need == Min({conn[c].chunk, CurBurst})
    IN  /\ conn[c].pc = Checked
        /\ ~closed
        /\ tokens' = IF Refreshed >= need THEN Refreshed - need ELSE Refreshed
        /\ age' = 0
        /\ conn' = [conn EXCEPT ![c].pc = Asleep, ![c].charged = @ + need,
                                ![c].sleep = Max({0, need - Refreshed}) \div rate]
        /\ UNCHANGED <<rate, closed, excess, late>>

\* Mutant: the time since the last call is never credited.
MutReserveNoRefresh(c) ==
    LET need == Min({conn[c].chunk, CurBurst})
    IN  /\ conn[c].pc = Checked
        /\ ~closed
        /\ tokens' = tokens - need
        /\ age' = 0
        /\ conn' = [conn EXCEPT ![c].pc = Asleep, ![c].charged = @ + need,
                                ![c].sleep = Max({0, need - tokens}) \div rate]
        /\ UNCHANGED <<rate, closed, excess, late>>

\* ... and then reserves, at a burst that may have changed, and sleeps.
Reserve(c) ==
    LET need == Min({conn[c].chunk, CurBurst})
    IN  /\ conn[c].pc = Checked
        /\ ~closed
        /\ tokens' = Refreshed - need
        /\ age' = 0
        /\ conn' = [conn EXCEPT ![c].pc = Asleep, ![c].charged = @ + need,
                                ![c].sleep = Max({0, need - Refreshed}) \div rate]
        /\ UNCHANGED <<rate, closed, excess, late>>

\* Mutant: a call that is not finished starts its chunk over.
MutWakeRepeats(c) ==
    /\ conn[c].pc = Asleep /\ conn[c].sleep = 0
    /\ conn[c].remaining # conn[c].chunk
    /\ conn' = [conn EXCEPT ![c].pc = Idle, ![c].chunk = 0, ![c].charged = 0]
    /\ UNCHANGED <<rate, tokens, closed, age, excess, late>>

\* The sleep is over and bytes remain: around the loop.
Wake(c) ==
    /\ conn[c].pc = Asleep /\ conn[c].sleep = 0
    /\ conn[c].remaining # conn[c].chunk
    /\ conn' = [conn EXCEPT ![c].pc = Idle, ![c].chunk = 0,
                            ![c].remaining = @ - conn[c].chunk]
    /\ UNCHANGED <<rate, tokens, closed, age, excess, late>>

\* The sleep was the last one: Wait returns nil and the bytes pass, charged or
\* not.  excess is the largest value, over the time intervals that end now, of
\* the bytes passed less the rate over that time and less one Allowance for
\* each call of SetRate.
Pass(c) ==
    /\ conn[c].pc = Asleep /\ conn[c].sleep = 0
    /\ conn[c].remaining = conn[c].chunk
    /\ conn' = [conn EXCEPT ![c] = IdleConn]
    /\ excess' = excess + conn[c].size
    /\ late' = [late EXCEPT ![c] = IF closed THEN @ + 1 ELSE @]
    /\ UNCHANGED <<rate, tokens, closed, age>>

-----------------------------------------------------------------------------
(* Packet connections: ReadPacket and WritePacket, with Allow.  A packet   *)
(* is no larger than a chunk, and when the limiter is closed it fails      *)
(* without changing anything.                                              *)

PacketPasses(n) ==
    /\ ~closed
    /\ n <= MaxChunk
    /\ Refreshed >= n
    /\ tokens' = Refreshed - n
    /\ age' = 0
    /\ excess' = excess + n
    /\ UNCHANGED <<rate, closed, conn, late>>

PacketDropped(n) ==
    /\ ~closed
    /\ n <= MaxChunk
    /\ Refreshed < n
    /\ tokens' = Refreshed
    /\ age' = 0
    /\ UNCHANGED <<rate, closed, conn, excess, late>>

-----------------------------------------------------------------------------
InWait(c) == WaitClosed(c) \/ Check(c) \/ Reserve(c) \/ Wake(c) \/ Pass(c)

Next ==
    \/ Tick
    \/ \E r \in Rates : SetRate(r)
    \/ Close
    \/ \E c \in Conns : \/ \E k \in {"read", "write"}, n \in Sizes : Begin(c, k, n)
                        \/ InWait(c)
    \/ \E n \in Sizes : PacketPasses(n) \/ PacketDropped(n)

Spec == Init /\ [][Next]_vars

\* Time passes, and the scheduler runs every goroutine that can run.
FairSpec == Spec /\ WF_vars(Tick) /\ \A c \in Conns : WF_vars(InWait(c))

-----------------------------------------------------------------------------
(* Properties.                                                             *)

\* Tokens reserved for operations that have not passed.
Outstanding == Sum([c \in Conns |-> conn[c].charged])

(***************************************************************************)
(* The limit holds over every interval, for the bytes of all connections   *)
(* and packets together: an interval with k calls of SetRate sees no more  *)
(* bytes than the rate allows, one burst and k + 1 times one operation of  *)
(* every connection and less than a tick.  What SetRate forgives, and what *)
(* Wait passes uncharged when the burst shrinks between its check and its  *)
(* reservation, is never more than that.                                   *)
(***************************************************************************)
RateHolds == ~closed => excess <= MaxBurst + Allowance

(***************************************************************************)
(* The debt of the bucket is what the connections in Wait have reserved    *)
(* and not yet slept off, up to the less than one tick a truncated sleep   *)
(* is short, so nobody sleeps a whole tick longer than it takes to send    *)
(* one operation of every connection: debts that were slept off, forgiven  *)
(* or left by a connection do not come back as later waits.                *)
(***************************************************************************)
DebtHasOwners ==
    /\ ~closed => -(tokens + age * rate) <= Outstanding + Max(Rates) - 1
    /\ \A c \in Conns : conn[c].sleep * Min(Rates) < AllSizes + Min(Rates)

(***************************************************************************)
(* Close stops a connection: after it, a connection ends at most the       *)
(* operation it was sleeping for and hands over one read together with the *)
(* error.                                                                  *)
(***************************************************************************)
CloseStops == \A c \in Conns : late[c] <= 2

(***************************************************************************)
(* Every Wait returns, also when the limiter is re-rated all the time or   *)
(* closed, and whatever the other connections reserve.                     *)
(***************************************************************************)
WaitReturns ==
    \A c \in Conns : conn[c].remaining > 0 ~> conn[c].remaining = 0
=============================================================================
