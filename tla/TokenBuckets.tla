---------------------------- MODULE TokenBuckets ----------------------------
(***************************************************************************)
(* What the rate limiter promises: every client has one bucket, full at    *)
(* first and never forgotten, that gains Rate tokens per tick up to Burst; *)
(* a request is admitted when it takes a token of its client's bucket and  *)
(* refused only when there is none.                                        *)
(***************************************************************************)
EXTENDS Integers, Sequences

CONSTANTS
    Clients,     \* client addresses
    Requests,    \* goroutines, each handling one request after another
    Rate,        \* tokens per tick
    Burst,       \* capacity of a bucket
    MaxTime      \* bound on the clock

VARIABLES
    now,        \* the clock
    level,      \* client -> tokens in its bucket
    asks,       \* goroutine -> the client whose request it is deciding
    answer,     \* goroutine -> its last decision
    admitted    \* client -> the times at which its requests were admitted

bucketVars == <<now, level, asks, answer, admitted>>

\* A bucket with n tokens after d ticks.
Refill(n, d) == IF n + Rate * d > Burst THEN Burst ELSE n + Rate * d

Init ==
    /\ now = 0
    /\ level = [c \in Clients |-> Burst]
    /\ asks = [r \in Requests |-> "none"]
    /\ answer = [r \in Requests |-> "none"]
    /\ admitted = [c \in Clients |-> <<>>]

Tick ==
    /\ now < MaxTime
    /\ now' = now + 1
    /\ level' = [c \in Clients |-> Refill(level[c], 1)]
    /\ UNCHANGED <<asks, answer, admitted>>

Ask(r, c) ==
    /\ asks[r] = "none"
    /\ asks' = [asks EXCEPT ![r] = c]
    /\ answer' = [answer EXCEPT ![r] = "none"]
    /\ UNCHANGED <<now, level, admitted>>

Admit(r) ==
    /\ asks[r] # "none" /\ level[asks[r]] >= 1
    /\ level' = [level EXCEPT ![asks[r]] = @ - 1]
    /\ admitted' = [admitted EXCEPT ![asks[r]] = Append(@, now)]
    /\ asks' = [asks EXCEPT ![r] = "none"]
    /\ answer' = [answer EXCEPT ![r] = "admitted"]
    /\ UNCHANGED now

Refuse(r) ==
    /\ asks[r] # "none" /\ level[asks[r]] < 1
    /\ asks' = [asks EXCEPT ![r] = "none"]
    /\ answer' = [answer EXCEPT ![r] = "refused"]
    /\ UNCHANGED <<now, level, admitted>>

Next ==
    \/ Tick
    \/ \E r \in Requests : (\E c \in Clients : Ask(r, c)) \/ Admit(r) \/ Refuse(r)

Spec == Init /\ [][Next]_bucketVars

-----------------------------------------------------------------------------
\* Between any two admitted requests of a client, both included, no more than
\* a burst and what the elapsed time has earned ("Allows 100 req/s per IP with
\* a burst of 200").
BurstBound ==
    \A c \in Clients : \A i, j \in DOMAIN admitted[c] :
        i <= j => j - i + 1 <= Burst + Rate * (admitted[c][j] - admitted[c][i])
=============================================================================
