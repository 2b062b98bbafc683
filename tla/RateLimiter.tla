---------------------------- MODULE RateLimiter ----------------------------
(***************************************************************************)
(* internal/middleware/ratelimit.go: the limiter of one service.  A        *)
(* request's goroutine fetches its client's limiter under the mutex (get)  *)
(* and asks it for a token after releasing it (Allow); a background        *)
(* goroutine scans the map under the mutex and deletes the entries that    *)
(* have not been used for Idle.  A client's next request then starts with  *)
(* a new, full limiter.                                                    *)
(*                                                                         *)
(* A limiter of golang.org/x/time/rate is external: tokens as of last.     *)
(* Time is counted in ticks, and a goroutine takes at most MaxPause of     *)
(* them from get to Allow.                                                 *)
(***************************************************************************)
EXTENDS Integers, Sequences

CONSTANTS
    Clients, Requests, Rate, Burst, MaxTime,   \* as in TokenBuckets
    Idle,         \* an entry unused for longer than this is deleted
    MaxPause      \* bound on the ticks between get and Allow

ASSUME LimiterAssumption ==
    /\ Rate \in Nat /\ Burst \in Nat /\ MaxTime \in Nat
    /\ Idle \in Nat /\ MaxPause \in Nat
    /\ "none" \notin Clients

\* A bucket fills up within the idle time, less the longest pause: 100 tokens
\* a second and ten minutes against a burst of 200.
ASSUME IdleAssumption == MaxPause <= Idle /\ Burst <= Rate * (Idle - MaxPause)

VARIABLES
    now,         \* the clock
    heap,        \* the limiters allocated, a sequence indexed by pointer
    limiters,    \* the map: client -> [lim, lastSeen]; lim = 0 when absent
    scan,        \* the entries the evictor has yet to visit
    mu,          \* the mutex: "free" or "evictor"
    req,         \* the goroutines of the requests
    admitted     \* history: client -> the times of its admitted requests

vars == <<now, heap, limiters, scan, mu, req, admitted>>

Absent == [lim |-> 0, lastSeen |-> 0]
Quiet  == [pc |-> "idle", ip |-> "none", lim |-> 0, since |-> 0, answer |-> "none"]

Init ==
    /\ now = 0
    /\ heap = <<>>
    /\ limiters = [c \in Clients |-> Absent]
    /\ scan = {} /\ mu = "free"
    /\ req = [r \in Requests |-> Quiet]
    /\ admitted = [c \in Clients |-> <<>>]

-----------------------------------------------------------------------------
\* rate.Limiter: the tokens at time t, with Rate tokens per tick up to Burst.
NewLimiter == [tokens |-> Burst, last |-> now]

Tokens(lim, t) ==
    LET n == lim.tokens + Rate * (t - lim.last) IN IF n > Burst THEN Burst ELSE n

\* X-Real-IP when it is set, the peer's address otherwise.
ClientIP(remote, realIP) == IF realIP # "none" THEN realIP ELSE remote

\* A request arrives and waits for the mutex.
RateLimit(r, remote, realIP) ==
    /\ req[r].pc = "idle"
    /\ req' = [req EXCEPT ![r] = [Quiet EXCEPT !.pc = "get", !.ip = ClientIP(remote, realIP)]]
    /\ UNCHANGED <<now, heap, limiters, scan, mu, admitted>>

get_NoTouch(r) ==       \* mutant: lastSeen is set for a new entry only
    /\ req[r].pc = "get" /\ mu = "free"
    /\ LET ip  == req[r].ip
           new == limiters[ip].lim = 0
           lim == IF new THEN Len(heap) + 1 ELSE limiters[ip].lim
       IN
       /\ heap' = IF new THEN Append(heap, NewLimiter) ELSE heap
       /\ limiters' = IF new THEN [limiters EXCEPT ![ip] = [lim |-> lim, lastSeen |-> now]]
                             ELSE limiters
       /\ req' = [req EXCEPT ![r].pc = "allow", ![r].lim = lim, ![r].since = now]
    /\ UNCHANGED <<now, scan, mu, admitted>>

get(r) ==
    /\ req[r].pc = "get" /\ mu = "free"
    /\ LET ip  == req[r].ip
           new == limiters[ip].lim = 0
           lim == IF new THEN Len(heap) + 1 ELSE limiters[ip].lim
       IN
       /\ heap' = IF new THEN Append(heap, NewLimiter) ELSE heap
       /\ limiters' = [limiters EXCEPT ![ip] = [lim |-> lim, lastSeen |-> now]]
       /\ req' = [req EXCEPT ![r].pc = "allow", ![r].lim = lim, ![r].since = now]
    /\ UNCHANGED <<now, scan, mu, admitted>>

Allow_Free(r) ==         \* mutant: a refused request is let through
    /\ req[r].pc = "allow"
    /\ heap' = [heap EXCEPT ![req[r].lim] = [tokens |-> Tokens(@, now) - 1, last |-> now]]
    /\ req' = [req EXCEPT ![r] = [Quiet EXCEPT !.answer = "admitted"]]
    /\ admitted' = [admitted EXCEPT ![req[r].ip] = Append(@, now)]
    /\ UNCHANGED <<now, limiters, scan, mu>>

\* Allow takes a token and the request goes on, or the answer is 429.
Allow(r) ==
    /\ req[r].pc = "allow"
    /\ LET lim == heap[req[r].lim] IN
       \/ /\ Tokens(lim, now) >= 1
          /\ heap' = [heap EXCEPT ![req[r].lim] =
                         [tokens |-> Tokens(lim, now) - 1, last |-> now]]
          /\ req' = [req EXCEPT ![r] = [Quiet EXCEPT !.answer = "admitted"]]
          /\ admitted' = [admitted EXCEPT ![req[r].ip] = Append(@, now)]
       \/ /\ Tokens(lim, now) < 1
          /\ req' = [req EXCEPT ![r] = [Quiet EXCEPT !.answer = "refused"]]
          /\ UNCHANGED <<heap, admitted>>
    /\ UNCHANGED <<now, limiters, scan, mu>>

-----------------------------------------------------------------------------
(* The evictor: on its ticker it locks the mutex, visits every entry of the *)
(* map in an order of the map's own, and unlocks.                           *)

EvictBegin ==
    /\ mu = "free"
    /\ mu' = "evictor"
    /\ scan' = {c \in Clients : limiters[c].lim # 0}
    /\ UNCHANGED <<now, heap, limiters, req, admitted>>

Evict_Always(c) ==       \* mutant: the idle time is not tested
    /\ mu = "evictor" /\ c \in scan
    /\ scan' = scan \ {c}
    /\ limiters' = [limiters EXCEPT ![c] = Absent]
    /\ UNCHANGED <<now, heap, mu, req, admitted>>

Evict(c) ==
    /\ mu = "evictor" /\ c \in scan
    /\ scan' = scan \ {c}
    /\ limiters' = IF now - limiters[c].lastSeen > Idle
                   THEN [limiters EXCEPT ![c] = Absent] ELSE limiters
    /\ UNCHANGED <<now, heap, mu, req, admitted>>

EvictEnd ==
    /\ mu = "evictor" /\ scan = {}
    /\ mu' = "free"
    /\ UNCHANGED <<now, heap, limiters, scan, req, admitted>>

\* Time passes, but no goroutine stays between get and Allow for longer than
\* MaxPause.
Tick ==
    /\ now < MaxTime
    /\ \A r \in Requests : req[r].pc = "allow" => now - req[r].since < MaxPause
    /\ now' = now + 1
    /\ UNCHANGED <<heap, limiters, scan, mu, req, admitted>>

Next ==
    \/ \E r \in Requests :
          \/ \E remote \in Clients, realIP \in Clients \cup {"none"} : RateLimit(r, remote, realIP)
          \/ get(r) \/ Allow(r)
    \/ EvictBegin \/ EvictEnd \/ \E c \in Clients : Evict(c)
    \/ Tick

Spec == Init /\ [][Next]_vars

-----------------------------------------------------------------------------
TypeOK ==
    /\ now \in 0 .. MaxTime
    /\ heap \in Seq([tokens : 0 .. Burst, last : 0 .. MaxTime])
    /\ limiters \in [Clients -> [lim : 0 .. Len(heap), lastSeen : 0 .. MaxTime]]
    /\ scan \subseteq Clients /\ mu \in {"free", "evictor"}
    /\ req \in [Requests -> [pc : {"idle", "get", "allow"}, ip : Clients \cup {"none"},
                             lim : 0 .. Len(heap), since : 0 .. MaxTime,
                             answer : {"none", "admitted", "refused"}]]
    /\ admitted \in [Clients -> Seq(0 .. MaxTime)]

\* The bucket of a client: its limiter's, or a full one when it has none.
level == [c \in Clients |-> IF limiters[c].lim = 0 THEN Burst
                            ELSE Tokens(heap[limiters[c].lim], now)]
asks   == [r \in Requests |-> req[r].ip]
answer == [r \in Requests |-> req[r].answer]

Buckets == INSTANCE TokenBuckets

\* Deleting idle entries cannot be noticed: although a limiter is fetched and
\* used in two steps and the evictor may run in between, every request is
\* decided by one bucket per client that is never reset.
ImplementsBuckets == Buckets!Spec

\* A client is admitted at the rate and burst of the limiter, also across the
\* eviction of its entry.
BurstBound == Buckets!BurstBound
=============================================================================
