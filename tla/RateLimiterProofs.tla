------------------------- MODULE RateLimiterProofs -------------------------
(***************************************************************************)
(* The rate limiter implements buckets that are never forgotten, and so    *)
(* keeps the promised rate.  LimiterInv says that a limiter in use is the  *)
(* one in the map, and that an entry's limiter was last used not much      *)
(* later than lastSeen; so an entry idle for long enough to be deleted has *)
(* a full bucket and no user.                                              *)
(***************************************************************************)
EXTENDS RateLimiter, TLAPS

\* A goroutine between get and Allow holds the limiter of its client's entry.
Held ==
    \A r \in Requests :
        /\ req[r].pc = "idle" <=> req[r].ip = "none"
        /\ req[r].pc = "allow" =>
              /\ req[r].lim = limiters[req[r].ip].lim /\ req[r].lim # 0
              /\ req[r].since <= limiters[req[r].ip].lastSeen
              /\ now - req[r].since <= MaxPause

\* Every entry has a limiter of its own, last used within MaxPause of lastSeen.
Owned ==
    \A c \in Clients : limiters[c].lim # 0 =>
        /\ limiters[c].lastSeen <= now
        /\ heap[limiters[c].lim].last <= now
        /\ heap[limiters[c].lim].last <= limiters[c].lastSeen + MaxPause
        /\ \A d \in Clients : d # c => limiters[d].lim # limiters[c].lim

LimiterInv == TypeOK /\ Held /\ Owned

\* The types of a limiter, and of a goroutine that points into a heap of size n.
Lim == [tokens : 0 .. Burst, last : 0 .. MaxTime]
Goroutine(n) == [pc : {"idle", "get", "allow"}, ip : Clients \cup {"none"}, lim : 0 .. n,
                 since : 0 .. MaxTime, answer : {"none", "admitted", "refused"}]

-----------------------------------------------------------------------------
(* Arithmetic *)

LEMMA Monotone == ASSUME NEW a \in Nat, NEW b \in Nat, NEW k \in Nat, a <= b
                  PROVE  k * a \in Nat /\ k * a <= k * b
<1>1. PICK d \in Nat : b = a + d BY SMT
<1>2. k * d \in Nat /\ k * (a + d) = k * a + k * d /\ k * a \in Nat BY SMT
<1> QED BY <1>1, <1>2, SMT

LEMMA OneMore == ASSUME NEW a \in Int, NEW k \in Int
                 PROVE  k * a \in Int /\ k * (a + 1) = k * a + k
BY SMT

LEMMA Carry == ASSUME NEW l \in Int, NEW m \in Int, NEW k \in Int, NEW b \in Int,
                      NEW e \in Int, NEW f \in Int, NEW r \in Int,
                      m <= l + r, f = e + r, l + k <= b + e
               PROVE  m + k <= b + f
BY SMT

\* What rate.Limiter holds: at most a burst, and a tick's worth more every tick.
LEMMA TokensFacts ==
    ASSUME NEW lim \in Lim,
           NEW t \in Nat, lim.last <= t
    PROVE  /\ Tokens(lim, t) \in 0 .. Burst
           /\ Tokens(lim, t + 1) = Buckets!Refill(Tokens(lim, t), 1)
           /\ lim.last = t => Tokens(lim, t) = lim.tokens
<1> USE DEF Lim
<1> DEFINE d == t - lim.last
<1>1. d \in Nat /\ lim.tokens \in 0 .. Burst /\ Rate \in Nat /\ Burst \in Nat
  BY LimiterAssumption
<1>2. Rate * d \in Nat BY <1>1, Monotone
<1>3. Rate * (d + 1) = Rate * d + Rate BY <1>1, OneMore
<1>4. (t + 1) - lim.last = d + 1 BY <1>1
<1>5. Rate * 1 = Rate BY <1>1
<1>6. d = 0 => Rate * d = 0 BY <1>1
<1>7. Tokens(lim, t) = IF lim.tokens + Rate * d > Burst THEN Burst ELSE lim.tokens + Rate * d
  BY DEF Tokens
<1>8. Tokens(lim, t + 1) =
         IF lim.tokens + Rate * (d + 1) > Burst THEN Burst ELSE lim.tokens + Rate * (d + 1)
  BY <1>4 DEF Tokens
<1>9. Buckets!Refill(Tokens(lim, t), 1) =
         IF Tokens(lim, t) + Rate > Burst THEN Burst ELSE Tokens(lim, t) + Rate
  BY <1>5 DEF Buckets!Refill
<1>10. lim.last = t => d = 0 BY <1>1
<1> HIDE DEF d
<1> QED BY <1>1, <1>2, <1>3, <1>6, <1>7, <1>8, <1>9, <1>10

\* A limiter that was not used for Idle - MaxPause is full.
LEMMA IdleIsFull ==
    ASSUME NEW lim \in Lim,
           NEW t \in Nat, Idle - MaxPause <= t - lim.last
    PROVE  Tokens(lim, t) = Burst
<1> USE DEF Lim
<1>1. Idle - MaxPause \in Nat /\ t - lim.last \in Nat /\ Rate \in Nat
  BY LimiterAssumption, IdleAssumption
<1>2. Burst <= Rate * (t - lim.last) /\ Rate * (t - lim.last) \in Nat
  <2>1. /\ Rate * (Idle - MaxPause) \in Nat
        /\ Rate * (Idle - MaxPause) <= Rate * (t - lim.last)
        /\ Rate * (t - lim.last) \in Nat
    BY <1>1, Monotone
  <2> QED BY <2>1, IdleAssumption, LimiterAssumption
<1> QED BY <1>2, LimiterAssumption DEF Tokens

-----------------------------------------------------------------------------
LEMMA GoroutineFields ==
    ASSUME NEW n, NEW g \in Goroutine(n)
    PROVE  /\ \A x \in {"idle", "get", "allow"} : [g EXCEPT !.pc = x] \in Goroutine(n)
           /\ \A x \in Clients : [g EXCEPT !.ip = x] \in Goroutine(n)
           /\ \A x \in 0 .. n : [g EXCEPT !.lim = x] \in Goroutine(n)
           /\ \A x \in 0 .. MaxTime : [g EXCEPT !.since = x] \in Goroutine(n)
BY DEF Goroutine

LEMMA InvInit == Init => LimiterInv
<1> SUFFICES ASSUME Init PROVE LimiterInv OBVIOUS
<1> USE LimiterAssumption DEF Init, Absent, Quiet
<1>1. heap = <<>> /\ heap \in Seq([tokens : 0 .. Burst, last : 0 .. MaxTime]) /\ Len(heap) = 0
  OBVIOUS
<1>2. admitted \in [Clients -> Seq(0 .. MaxTime)] OBVIOUS
<1>3. TypeOK BY <1>1, <1>2 DEF TypeOK
<1>4. Held /\ Owned BY DEF Held, Owned
<1> QED BY <1>3, <1>4 DEF LimiterInv

LEMMA InvNext == LimiterInv /\ [Next]_vars => LimiterInv'
<1> SUFFICES ASSUME LimiterInv, [Next]_vars PROVE LimiterInv' OBVIOUS
<1>t. TypeOK /\ Held /\ Owned BY DEF LimiterInv
<1>a. /\ Rate \in Nat /\ Burst \in Nat /\ MaxTime \in Nat /\ Idle \in Nat /\ MaxPause \in Nat
      /\ "none" \notin Clients
  BY LimiterAssumption
<1>h. /\ heap \in Seq(Lim) /\ Len(heap) \in Nat /\ now \in 0 .. MaxTime /\ now \in Nat
      /\ req \in [Requests -> Goroutine(Len(heap))]
  BY <1>t, <1>a DEF TypeOK, Lim, Goroutine
<1>1. ASSUME NEW r \in Requests, NEW remote \in Clients, NEW realIP \in Clients \cup {"none"},
             RateLimit(r, remote, realIP)
      PROVE  LimiterInv'
  <2>1. ClientIP(remote, realIP) \in Clients BY DEF ClientIP
  <2>2. TypeOK'
    <3> DEFINE g == [Quiet EXCEPT !.pc = "get", !.ip = ClientIP(remote, realIP)]
    <3>1. g \in Goroutine(Len(heap))
      <4>1. Quiet \in Goroutine(Len(heap)) BY <1>a, <1>h DEF Quiet, Goroutine
      <4>2. [Quiet EXCEPT !.pc = "get"] \in Goroutine(Len(heap)) BY <4>1, GoroutineFields
      <4>3. g = [[Quiet EXCEPT !.pc = "get"] EXCEPT !.ip = ClientIP(remote, realIP)] OBVIOUS
      <4> HIDE DEF g
      <4> QED BY <4>2, <4>3, <2>1, GoroutineFields
    <3>2. req' = [req EXCEPT ![r] = g] BY <1>1 DEF RateLimit
    <3> HIDE DEF g
    <3>3. req' \in [Requests -> Goroutine(Len(heap))] BY <3>1, <3>2, <1>h
    <3> QED BY <1>t, <1>1, <3>3 DEF TypeOK, RateLimit, Goroutine
  <2>3. Held' BY <1>t, <1>a, <1>1, <2>1 DEF TypeOK, Held, RateLimit, Quiet
  <2>4. Owned' BY <1>t, <1>1 DEF Owned, RateLimit
  <2> QED BY <2>2, <2>3, <2>4 DEF LimiterInv
<1>2. ASSUME NEW r \in Requests, get(r) PROVE LimiterInv'
  <2> DEFINE ip  == req[r].ip
             new == limiters[ip].lim = 0
             lim == IF new THEN Len(heap) + 1 ELSE limiters[ip].lim
  <2>1. /\ req[r].pc = "get" /\ UNCHANGED <<now, scan, mu, admitted>>
        /\ heap' = IF new THEN Append(heap, NewLimiter) ELSE heap
        /\ limiters' = [limiters EXCEPT ![ip] = [lim |-> lim, lastSeen |-> now]]
        /\ req' = [req EXCEPT ![r].pc = "allow", ![r].lim = lim, ![r].since = now]
    BY <1>2 DEF get
  <2>2. ip \in Clients BY <1>t, <2>1 DEF TypeOK, Held
  <2>3. /\ heap \in Seq(Lim) /\ Len(heap) \in Nat /\ NewLimiter \in Lim
        /\ NewLimiter.last = now
    BY <1>h, <1>a DEF NewLimiter, Lim
  <2>4. /\ heap' \in Seq(Lim) /\ Len(heap') \in Nat /\ Len(heap) <= Len(heap')
        /\ lim \in 1 .. Len(heap')
        /\ \A k \in 1 .. Len(heap) : heap'[k] = heap[k]
        /\ new => heap'[lim] = NewLimiter
    BY <1>t, <2>1, <2>2, <2>3 DEF TypeOK
  <2> HIDE DEF lim
  <2>5. TypeOK'
    <3>1. limiters' \in [Clients -> [lim : 0 .. Len(heap'), lastSeen : 0 .. MaxTime]]
      BY <1>t, <2>1, <2>2, <2>4 DEF TypeOK
    <3>2. req' \in [Requests -> Goroutine(Len(heap'))]
      <4> DEFINE g == [req[r] EXCEPT !.pc = "allow", !.lim = lim, !.since = now]
      <4>1. \A q \in Requests : req[q] \in Goroutine(Len(heap')) BY <1>h, <2>4 DEF Goroutine
      <4>2. g \in Goroutine(Len(heap'))
        <5> DEFINE a == [req[r] EXCEPT !.pc = "allow"]
                   b == [a EXCEPT !.lim = lim]
        <5>1. a \in Goroutine(Len(heap')) BY <4>1, GoroutineFields
        <5>2. g = [b EXCEPT !.since = now] OBVIOUS
        <5>3. lim \in 0 .. Len(heap') BY <2>4
        <5> HIDE DEF a, g
        <5>4. b \in Goroutine(Len(heap')) BY <5>1, <5>3, GoroutineFields
        <5> HIDE DEF b
        <5> QED BY <5>2, <5>4, <1>h, GoroutineFields
      <4>3. req' = [req EXCEPT ![r] = g] BY <2>1, <1>h
      <4> HIDE DEF g
      <4> QED BY <4>1, <4>2, <4>3, <1>h
    <3> QED BY <1>t, <2>1, <2>4, <3>1, <3>2 DEF TypeOK, Goroutine, Lim
  <2>6. \A c \in Clients : limiters[c].lim \in 0 .. Len(heap) /\ limiters[c].lastSeen \in Nat
    BY <1>t DEF TypeOK
  <2>7. \A d \in Clients : d # ip => limiters[d].lim # lim
    BY <1>t, <2>2, <2>3, <2>6 DEF Owned, lim
  <2>8. Owned'
    <3> SUFFICES ASSUME NEW c \in Clients, limiters'[c].lim # 0
                 PROVE  /\ limiters'[c].lastSeen <= now'
                        /\ heap'[limiters'[c].lim].last <= now'
                        /\ heap'[limiters'[c].lim].last <= limiters'[c].lastSeen + MaxPause
                        /\ \A d \in Clients : d # c => limiters'[d].lim # limiters'[c].lim
      BY DEF Owned
    <3>1. CASE c = ip
      <4>1. limiters'[c] = [lim |-> lim, lastSeen |-> now] BY <3>1, <1>t, <2>1 DEF TypeOK
      <4>2. heap'[lim].last <= now
        <5>1. CASE new BY <5>1, <1>t, <2>3, <2>4 DEF TypeOK
        <5>2. CASE ~new
          <6>1. lim = limiters[ip].lim /\ lim \in 1 .. Len(heap) BY <5>2, <2>2, <2>3, <2>6 DEF lim
          <6> QED BY <6>1, <5>2, <1>t, <2>2, <2>4 DEF Owned
        <5> QED BY <5>1, <5>2
      <4>3. \A d \in Clients : d # c => limiters'[d].lim = limiters[d].lim
        BY <3>1, <1>t, <2>1 DEF TypeOK
      <4>4. heap'[lim] \in Lim BY <2>4
      <4>5. heap'[lim].last \in Nat BY <4>4, <1>a DEF Lim
      <4>6. heap'[lim].last <= now + MaxPause /\ now <= now BY <4>2, <4>5, <1>a, <1>h
      <4>7. limiters'[c].lim = lim /\ limiters'[c].lastSeen = now BY <4>1
      <4> QED BY <3>1, <4>2, <4>3, <4>6, <4>7, <2>1, <2>7
    <3>2. CASE c # ip
      <4>1. limiters'[c] = limiters[c] BY <3>2, <1>t, <2>1 DEF TypeOK
      <4>2. limiters[c].lim \in 1 .. Len(heap) BY <4>1, <2>3, <2>6
      <4>3. heap'[limiters[c].lim] = heap[limiters[c].lim] BY <4>2, <2>4
      <4>4. \A d \in Clients : limiters'[d].lim = IF d = ip THEN lim ELSE limiters[d].lim
        BY <1>t, <2>1, <2>2 DEF TypeOK
      <4> QED BY <3>2, <4>1, <4>2, <4>3, <4>4, <1>t, <2>1, <2>7 DEF Owned
    <3> QED BY <3>1, <3>2
  <2>9. Held'
    <3> SUFFICES ASSUME NEW q \in Requests
                 PROVE  /\ req'[q].pc = "idle" <=> req'[q].ip = "none"
                        /\ req'[q].pc = "allow" =>
                              /\ req'[q].lim = limiters'[req'[q].ip].lim /\ req'[q].lim # 0
                              /\ req'[q].since <= limiters'[req'[q].ip].lastSeen
                              /\ now' - req'[q].since <= MaxPause
      BY DEF Held
    <3>1. CASE q = r
      <4>1. /\ req'[q].pc = "allow" /\ req'[q].ip = ip /\ req'[q].lim = lim
            /\ req'[q].since = now
        BY <3>1, <1>t, <2>1 DEF TypeOK
      <4>2. limiters'[ip] = [lim |-> lim, lastSeen |-> now] BY <1>t, <2>1, <2>2 DEF TypeOK
      <4>3. limiters'[ip].lim = lim /\ limiters'[ip].lastSeen = now BY <4>2
      <4>4. now' = now /\ now <= now /\ now - now <= MaxPause BY <1>h, <1>a, <2>1
      <4>5. lim # 0 BY <2>4
      <4> QED BY <3>1, <4>1, <4>3, <4>4, <4>5, <2>2, <1>a
    <3>2. CASE q # r
      <4>1. req'[q] = req[q] BY <3>2, <1>t, <2>1 DEF TypeOK
      <4>2. CASE req[q].pc = "allow"
        <5>1. /\ req[q].ip \in Clients /\ req[q].lim = limiters[req[q].ip].lim
              /\ req[q].lim # 0 /\ req[q].since <= limiters[req[q].ip].lastSeen
              /\ now - req[q].since <= MaxPause /\ req[q].since \in Nat /\ req[q].ip # "none"
          BY <4>2, <1>t DEF Held, TypeOK
        <5>2. CASE req[q].ip = ip
          <6>1. lim = req[q].lim BY <5>1, <5>2, <2>2 DEF lim
          <6>2. limiters'[ip] = [lim |-> lim, lastSeen |-> now] BY <1>t, <2>1, <2>2 DEF TypeOK
          <6>3. req[q].since <= now
            BY <5>1, <5>2, <1>t, <2>2, <2>6 DEF Owned, TypeOK
          <6> QED BY <4>1, <4>2, <5>1, <5>2, <6>1, <6>2, <6>3, <2>1
        <5>3. CASE req[q].ip # ip
          <6>1. limiters'[req[q].ip] = limiters[req[q].ip] BY <5>1, <5>3, <1>t, <2>1 DEF TypeOK
          <6> QED BY <4>1, <4>2, <5>1, <6>1, <2>1
        <5> QED BY <5>2, <5>3
      <4>3. CASE req[q].pc # "allow" BY <4>1, <4>3, <1>t DEF Held
      <4> QED BY <4>2, <4>3
    <3> QED BY <3>1, <3>2
  <2> QED BY <2>5, <2>8, <2>9 DEF LimiterInv
<1>3. ASSUME NEW r \in Requests, Allow(r) PROVE LimiterInv'
  <2> DEFINE p == req[r].lim
             ip == req[r].ip
  <2>1. /\ req[r].pc = "allow" /\ UNCHANGED <<now, limiters, scan, mu>>
        /\ req' = [req EXCEPT ![r] = [Quiet EXCEPT !.answer = "admitted"]]
           \/ req' = [req EXCEPT ![r] = [Quiet EXCEPT !.answer = "refused"]]
        /\ \/ /\ heap' = [heap EXCEPT ![p] = [tokens |-> Tokens(heap[p], now) - 1, last |-> now]]
              /\ Tokens(heap[p], now) >= 1
              /\ admitted' = [admitted EXCEPT ![ip] = Append(@, now)]
           \/ UNCHANGED <<heap, admitted>>
    BY <1>3 DEF Allow
  <2>2. /\ ip \in Clients /\ p = limiters[ip].lim /\ p \in 1 .. Len(heap)
        /\ now \in 0 .. MaxTime /\ heap \in Seq(Lim) /\ Len(heap) \in Nat
        /\ now <= limiters[ip].lastSeen + MaxPause /\ heap[p] \in Lim /\ heap[p].last <= now
    <3>1. ip \in Clients BY <1>t, <2>1 DEF Held, TypeOK
    <3>2. p = limiters[ip].lim /\ p # 0 BY <1>t, <2>1 DEF Held
    <3>3. heap \in Seq(Lim) /\ Len(heap) \in Nat /\ p \in 0 .. Len(heap) /\ now \in 0 .. MaxTime
      BY <1>h DEF Goroutine
    <3>4. heap[p] \in Lim BY <3>2, <3>3
    <3>7. heap[p].last <= now BY <1>t, <3>1, <3>2 DEF Owned
    <3>5. now - req[r].since <= MaxPause /\ req[r].since <= limiters[ip].lastSeen
      BY <1>t, <2>1 DEF Held
    <3>6. req[r].since \in Nat /\ limiters[ip].lastSeen \in Nat
      BY <1>t, <3>1 DEF TypeOK
    <3>8. now <= limiters[ip].lastSeen + MaxPause BY <1>a, <1>h, <3>5, <3>6
    <3>9. p \in 1 .. Len(heap) BY <3>2, <3>3
    <3> HIDE DEF p, ip
    <3> QED BY <3>1, <3>2, <3>3, <3>4, <3>7, <3>8, <3>9
  <2>3. Tokens(heap[p], now) \in 0 .. Burst
    <3> HIDE DEF p
    <3> QED BY <2>2, <1>h, TokensFacts
  <2>4. /\ heap' \in Seq(Lim) /\ Len(heap') = Len(heap)
        /\ \A k \in 1 .. Len(heap) : k # p => heap'[k] = heap[k]
        /\ heap'[p].last <= now /\ heap'[p].last <= limiters[ip].lastSeen + MaxPause
    <3>1. CASE heap' = heap
      BY <3>1, <2>2, <1>t DEF Owned
    <3>2. CASE /\ heap' = [heap EXCEPT ![p] = [tokens |-> Tokens(heap[p], now) - 1, last |-> now]]
               /\ Tokens(heap[p], now) >= 1
      <4>1. [tokens |-> Tokens(heap[p], now) - 1, last |-> now] \in Lim BY <3>2, <2>2, <2>3, <1>a DEF Lim
      <4> QED BY <3>2, <4>1, <2>2, <1>h
    <3> QED BY <3>1, <3>2, <2>1
  <2>5. TypeOK'
    <3>1. admitted' \in [Clients -> Seq(0 .. MaxTime)]
      <4>1. admitted \in [Clients -> Seq(0 .. MaxTime)] BY <1>t DEF TypeOK
      <4>2. Append(admitted[ip], now) \in Seq(0 .. MaxTime) BY <4>1, <2>2
      <4> HIDE DEF ip
      <4> QED BY <4>1, <4>2, <2>1
    <3>2. req' \in [Requests -> Goroutine(Len(heap'))]
      <4>1. /\ [Quiet EXCEPT !.answer = "admitted"] \in Goroutine(Len(heap))
            /\ [Quiet EXCEPT !.answer = "refused"] \in Goroutine(Len(heap))
        BY <1>h, <1>a DEF Quiet, Goroutine
      <4> QED BY <4>1, <1>h, <2>1, <2>4
    <3> QED BY <1>t, <2>1, <2>4, <3>1, <3>2 DEF TypeOK, Goroutine, Lim
  <2>6. Owned'
    <3>1. \A c \in Clients : limiters[c].lim # 0 => limiters[c].lim \in 1 .. Len(heap)
      BY <1>t, <2>2 DEF TypeOK
    <3> QED BY <3>1, <1>t, <2>1, <2>2, <2>4 DEF Owned
  <2>7. Held'
    <3>1. \A q \in Requests : q # r => req'[q] = req[q] BY <1>t, <2>1 DEF TypeOK
    <3>2. req'[r].pc = "idle" /\ req'[r].ip = "none" BY <1>t, <2>1 DEF TypeOK, Quiet
    <3> QED BY <3>1, <3>2, <1>t, <2>1 DEF Held
  <2> QED BY <2>5, <2>6, <2>7 DEF LimiterInv
<1>4. CASE EvictBegin \/ EvictEnd
  <2>1. UNCHANGED <<now, heap, limiters, req, admitted>> /\ scan' \subseteq Clients
        /\ mu' \in {"free", "evictor"}
    BY <1>4, <1>t DEF EvictBegin, EvictEnd, TypeOK
  <2> QED BY <1>t, <2>1 DEF LimiterInv, TypeOK, Held, Owned
<1>5. ASSUME NEW c \in Clients, Evict(c) PROVE LimiterInv'
  <2>1. /\ UNCHANGED <<now, heap, mu, req, admitted>> /\ scan' \subseteq Clients
        /\ \/ limiters' = limiters
           \/ /\ now - limiters[c].lastSeen > Idle
              /\ limiters' = [limiters EXCEPT ![c] = Absent]
    BY <1>5, <1>t DEF Evict, TypeOK
  <2>2. CASE limiters' = limiters
    BY <1>t, <2>1, <2>2 DEF LimiterInv, TypeOK, Held, Owned
  <2>3. CASE /\ now - limiters[c].lastSeen > Idle
             /\ limiters' = [limiters EXCEPT ![c] = Absent]
    <3>1. TypeOK'
      <4>1. limiters' \in [Clients -> [lim : 0 .. Len(heap), lastSeen : 0 .. MaxTime]]
        BY <1>t, <1>a, <2>3 DEF TypeOK, Absent
      <4> QED BY <1>t, <2>1, <4>1 DEF TypeOK
    <3>2. \A d \in Clients : limiters'[d] = IF d = c THEN Absent ELSE limiters[d]
      BY <1>t, <2>3 DEF TypeOK
    <3>3. Owned' BY <1>t, <2>1, <3>2 DEF Owned, Absent
    <3>4. \A q \in Requests : req[q].pc = "allow" => req[q].ip # c
      <4> SUFFICES ASSUME NEW q \in Requests, req[q].pc = "allow", req[q].ip = c PROVE FALSE
        OBVIOUS
      <4>1. req[q].since <= limiters[c].lastSeen /\ now - req[q].since <= MaxPause
        BY <1>t DEF Held
      <4>2. req[q].since \in Nat /\ limiters[c].lastSeen \in Nat /\ now \in Nat
        BY <1>t, <1>a DEF TypeOK
      <4> QED BY <4>1, <4>2, <2>3, <1>a, IdleAssumption
    <3>5. \A q \in Requests : req[q].pc = "allow" => req[q].ip \in Clients
      BY <1>t DEF Held, TypeOK
    <3>6. Held' BY <1>t, <2>1, <3>2, <3>4, <3>5 DEF Held
    <3> QED BY <3>1, <3>3, <3>6 DEF LimiterInv
  <2> QED BY <2>1, <2>2, <2>3
<1>6. CASE Tick
  <2>1. /\ now' = now + 1 /\ now' \in 0 .. MaxTime
        /\ UNCHANGED <<heap, limiters, scan, mu, req, admitted>>
        /\ \A r \in Requests : req[r].pc = "allow" => now - req[r].since < MaxPause
    BY <1>6, <1>t, <1>a DEF Tick, TypeOK
  <2>2. TypeOK' BY <1>t, <2>1 DEF TypeOK
  <2>3. \A r \in Requests : req[r].since \in Nat BY <1>t DEF TypeOK
  <2>4. Held' BY <1>t, <1>a, <2>1, <2>3 DEF Held, TypeOK
  <2>5. \A d \in Clients : limiters[d].lim # 0 =>
            limiters[d].lastSeen \in Nat /\ heap[limiters[d].lim].last \in Nat
    <3> SUFFICES ASSUME NEW d \in Clients, limiters[d].lim # 0
                 PROVE  limiters[d].lastSeen \in Nat /\ heap[limiters[d].lim].last \in Nat
      OBVIOUS
    <3>1. limiters[d].lim \in 1 .. Len(heap) /\ limiters[d].lastSeen \in Nat
      BY <1>t, <1>h DEF TypeOK
    <3>2. heap[limiters[d].lim] \in Lim BY <3>1, <1>h
    <3> QED BY <3>1, <3>2, <1>a DEF Lim
  <2>6. Owned' BY <1>t, <1>h, <2>1, <2>5 DEF Owned
  <2> QED BY <2>2, <2>4, <2>6 DEF LimiterInv
<1>7. CASE UNCHANGED vars
  BY <1>t, <1>7 DEF LimiterInv, TypeOK, Held, Owned, vars
<1> QED BY <1>1, <1>2, <1>3, <1>4, <1>5, <1>6, <1>7 DEF Next

-----------------------------------------------------------------------------
\* Every state of the limiter is well formed: no pointer dangles, and no
\* limiter holds a negative number of tokens or more than a burst.
THEOREM LimiterTyped == Spec => []TypeOK
<1>1. LimiterInv => TypeOK BY DEF LimiterInv
<1> QED BY InvInit, InvNext, <1>1, PTL DEF Spec

-----------------------------------------------------------------------------
(* Refinement *)

\* The bucket of a client that has an entry, and one tick later.
LEMMA EntryFacts ==
    ASSUME LimiterInv, NEW c \in Clients, limiters[c].lim # 0
    PROVE  /\ limiters[c].lim \in 1 .. Len(heap) /\ heap[limiters[c].lim] \in Lim
           /\ Tokens(heap[limiters[c].lim], now) \in 0 .. Burst
           /\ Tokens(heap[limiters[c].lim], now + 1) =
                 Buckets!Refill(Tokens(heap[limiters[c].lim], now), 1)
<1> DEFINE p == limiters[c].lim
<1>1. heap \in Seq(Lim) /\ Len(heap) \in Nat /\ p \in 0 .. Len(heap) /\ now \in Nat
  BY LimiterAssumption DEF LimiterInv, TypeOK, Lim
<1>2. p \in 1 .. Len(heap) BY <1>1
<1>3. heap[p].last <= now BY DEF LimiterInv, Owned
<1> HIDE DEF p
<1>4. heap[p] \in Lim BY <1>1, <1>2
<1>5. /\ Tokens(heap[p], now) \in 0 .. Burst
      /\ Tokens(heap[p], now + 1) = Buckets!Refill(Tokens(heap[p], now), 1)
  BY <1>1, <1>3, <1>4, TokensFacts
<1> QED BY <1>2, <1>4, <1>5 DEF p

LEMMA LevelFacts ==
    ASSUME LimiterInv, NEW c \in Clients
    PROVE  /\ level[c] \in 0 .. Burst
           /\ level[c] = IF limiters[c].lim = 0 THEN Burst
                         ELSE Tokens(heap[limiters[c].lim], now)
<1>1. Burst \in 0 .. Burst BY LimiterAssumption
<1> QED BY <1>1, EntryFacts DEF level

LEMMA LevelTyped == LimiterInv => \A d \in Clients : level[d] \in 0 .. Burst
BY LevelFacts

LEMMA StepRefines ==
    LimiterInv /\ LimiterInv' /\ [Next]_vars => [Buckets!Next]_(Buckets!bucketVars)
<1> SUFFICES ASSUME LimiterInv, LimiterInv', [Next]_vars
             PROVE  Buckets!Next \/ UNCHANGED Buckets!bucketVars
  OBVIOUS
<1>t. TypeOK /\ Held /\ Owned BY DEF LimiterInv
<1>h. /\ heap \in Seq(Lim) /\ Len(heap) \in Nat /\ now \in 0 .. MaxTime /\ now \in Nat
      /\ req \in [Requests -> Goroutine(Len(heap))]
      /\ \A c \in Clients : limiters[c].lim \in 0 .. Len(heap) /\ limiters[c].lastSeen \in Nat
  BY <1>t, LimiterAssumption DEF TypeOK, Lim, Goroutine
<1>l. \A c \in Clients : level[c] = IF limiters[c].lim = 0 THEN Burst
                                    ELSE Tokens(heap[limiters[c].lim], now)
  BY DEF level
<1>m. \A c \in Clients : level'[c] = IF limiters'[c].lim = 0 THEN Burst
                                     ELSE Tokens(heap'[limiters'[c].lim], now')
  BY DEF level
<1>n. /\ asks = [r \in Requests |-> req[r].ip] /\ asks' = [r \in Requests |-> req'[r].ip]
      /\ answer = [r \in Requests |-> req[r].answer]
      /\ answer' = [r \in Requests |-> req'[r].answer]
  BY DEF asks, answer
<1>d. DOMAIN level = Clients /\ DOMAIN level' = Clients
      /\ level = [c \in Clients |-> level[c]] /\ level' = [c \in Clients |-> level'[c]]
  BY DEF level
<1>1. ASSUME NEW r \in Requests, NEW remote \in Clients, NEW realIP \in Clients \cup {"none"},
             RateLimit(r, remote, realIP)
      PROVE  Buckets!Next
  <2> DEFINE c == ClientIP(remote, realIP)
  <2>1. c \in Clients BY DEF ClientIP
  <2>2. /\ req[r].pc = "idle" /\ UNCHANGED <<now, heap, limiters, admitted>>
        /\ req' = [req EXCEPT ![r] = [Quiet EXCEPT !.pc = "get", !.ip = c]]
    BY <1>1 DEF RateLimit
  <2> HIDE DEF c
  <2>3. asks[r] = "none" BY <1>t, <1>n, <2>2 DEF Held
  <2>4. req'[r].ip = c /\ req'[r].answer = "none" BY <1>h, <2>2 DEF Quiet
  <2>5. \A q \in Requests : q # r => req'[q] = req[q] BY <1>h, <2>2
  <2>6. asks' = [asks EXCEPT ![r] = c] BY <1>n, <2>4, <2>5
  <2>7. answer' = [answer EXCEPT ![r] = "none"] BY <1>n, <2>4, <2>5
  <2>8. level' = level BY <2>2 DEF level, Tokens
  <2>9. Buckets!Ask(r, c) BY <2>2, <2>3, <2>6, <2>7, <2>8 DEF Buckets!Ask
  <2> QED BY <2>1, <2>9 DEF Buckets!Next
<1>2. ASSUME NEW r \in Requests, get(r) PROVE UNCHANGED Buckets!bucketVars
  <2> DEFINE ip  == req[r].ip
             new == limiters[ip].lim = 0
             lim == IF new THEN Len(heap) + 1 ELSE limiters[ip].lim
  <2>1. /\ req[r].pc = "get" /\ UNCHANGED <<now, admitted>>
        /\ heap' = IF new THEN Append(heap, NewLimiter) ELSE heap
        /\ limiters' = [limiters EXCEPT ![ip] = [lim |-> lim, lastSeen |-> now]]
        /\ req' = [req EXCEPT ![r].pc = "allow", ![r].lim = lim, ![r].since = now]
    BY <1>2 DEF get
  <2>2. ip \in Clients BY <1>t, <2>1 DEF TypeOK, Held
  <2>3. \A q \in Requests : req'[q].ip = req[q].ip /\ req'[q].answer = req[q].answer
    BY <1>h, <2>1 DEF Goroutine
  <2>4. asks' = asks /\ answer' = answer BY <1>n, <2>3
  <2>5. \A c \in Clients : c # ip => level'[c] = level[c]
    <3> SUFFICES ASSUME NEW c \in Clients, c # ip PROVE level'[c] = level[c] OBVIOUS
    <3>1. limiters'[c] = limiters[c] BY <1>t, <2>1 DEF TypeOK
    <3>2. limiters[c].lim # 0 => heap'[limiters[c].lim] = heap[limiters[c].lim]
      BY <1>h, <2>1
    <3>3. now' = now BY <2>1
    <3> QED BY <1>l, <1>m, <3>1, <3>2, <3>3
  <2>6. level'[ip] = level[ip]
    <3>1. limiters'[ip].lim = lim BY <1>t, <2>1, <2>2 DEF TypeOK
    <3>2. CASE new
      <4>1. lim = Len(heap) + 1 /\ heap'[lim] = NewLimiter /\ lim # 0 BY <1>h, <2>1, <3>2
      <4>2. NewLimiter \in Lim /\ NewLimiter.last = now /\ NewLimiter.tokens = Burst
        BY <1>h, LimiterAssumption DEF NewLimiter, Lim
      <4>3. Tokens(NewLimiter, now) = Burst BY <1>h, <4>2, TokensFacts
      <4>4. level[ip] = Burst BY <1>l, <2>2, <3>2
      <4>5. level'[ip] = Tokens(heap'[lim], now')
        <5> HIDE DEF lim, ip
        <5> QED BY <1>m, <2>2, <3>1, <4>1
      <4> HIDE DEF lim, ip
      <4> QED BY <4>1, <4>3, <4>4, <4>5, <2>1
    <3>3. CASE ~new
      <4>1. lim = limiters[ip].lim /\ lim # 0 /\ heap' = heap BY <2>1, <3>3
      <4> HIDE DEF lim, ip
      <4> QED BY <1>l, <1>m, <2>1, <2>2, <3>1, <4>1
    <3> QED BY <3>2, <3>3
  <2> HIDE DEF ip
  <2>7. level' = level BY <1>d, <2>5, <2>6
  <2> QED BY <2>1, <2>4, <2>7 DEF Buckets!bucketVars
<1>4. CASE EvictBegin \/ EvictEnd \/ UNCHANGED vars
  <2>1. UNCHANGED <<now, heap, limiters, req, admitted>> BY <1>4 DEF EvictBegin, EvictEnd, vars
  <2> QED BY <2>1 DEF Buckets!bucketVars, level, asks, answer, Tokens
<1>5. ASSUME NEW c \in Clients, Evict(c) PROVE UNCHANGED Buckets!bucketVars
  <2>1. /\ UNCHANGED <<now, heap, req, admitted>>
        /\ \/ limiters' = limiters
           \/ /\ now - limiters[c].lastSeen > Idle
              /\ limiters' = [limiters EXCEPT ![c] = Absent]
    BY <1>5 DEF Evict
  <2>2. asks' = asks /\ answer' = answer BY <2>1 DEF asks, answer
  <2>3. CASE limiters' = limiters BY <2>1, <2>2, <2>3 DEF Buckets!bucketVars, level, Tokens
  <2>4. CASE /\ now - limiters[c].lastSeen > Idle
             /\ limiters' = [limiters EXCEPT ![c] = Absent]
    <3>1. level[c] = Burst
      <4>1. CASE limiters[c].lim # 0
        <5> DEFINE e == heap[limiters[c].lim]
        <5>1. e \in Lim BY <4>1, EntryFacts
        <5>2. e.last <= limiters[c].lastSeen + MaxPause BY <1>t, <4>1 DEF Owned
        <5>3. e.last \in Nat BY <5>1, LimiterAssumption DEF Lim
        <5> HIDE DEF e
        <5>4. Idle - MaxPause <= now - e.last
          BY <1>h, <2>4, <5>2, <5>3, LimiterAssumption, IdleAssumption
        <5>5. Tokens(e, now) = Burst BY <1>h, <5>1, <5>4, IdleIsFull
        <5> QED BY <1>l, <4>1, <5>5 DEF e
      <4> QED BY <4>1, <1>l
    <3>2. limiters'[c].lim = 0 BY <1>t, <2>4 DEF TypeOK, Absent
    <3>3. \A d \in Clients : d # c => limiters'[d] = limiters[d] BY <1>t, <2>4 DEF TypeOK
    <3>4. \A d \in Clients : level'[d] = level[d] BY <1>l, <1>m, <2>1, <3>1, <3>2, <3>3
    <3>5. level' = level BY <1>d, <3>4
    <3> QED BY <2>1, <2>2, <3>5 DEF Buckets!bucketVars
  <2> QED BY <2>1, <2>3, <2>4
<1>6. CASE Tick
  <2>1. now < MaxTime /\ now' = now + 1 /\ UNCHANGED <<heap, limiters, req, admitted>>
    BY <1>6 DEF Tick
  <2>2. asks' = asks /\ answer' = answer BY <2>1 DEF asks, answer
  <2>3. \A c \in Clients : level'[c] = Buckets!Refill(level[c], 1)
    <3> SUFFICES ASSUME NEW c \in Clients PROVE level'[c] = Buckets!Refill(level[c], 1)
      OBVIOUS
    <3>1. CASE limiters[c].lim = 0
      <4>1. Buckets!Refill(Burst, 1) = Burst BY LimiterAssumption DEF Buckets!Refill
      <4> QED BY <1>l, <1>m, <2>1, <3>1, <4>1
    <3>2. CASE limiters[c].lim # 0 BY <1>l, <1>m, <2>1, <3>2, EntryFacts
    <3> QED BY <3>1, <3>2
  <2>4. level' = [c \in Clients |-> Buckets!Refill(level[c], 1)] BY <1>d, <2>3
  <2>5. Buckets!Tick BY <2>1, <2>2, <2>4 DEF Buckets!Tick
  <2> QED BY <2>5 DEF Buckets!Next
<1>3. ASSUME NEW r \in Requests, Allow(r) PROVE Buckets!Next
  <2> DEFINE p  == req[r].lim
             ip == req[r].ip
  <2>1. req[r].pc = "allow" /\ UNCHANGED <<now, limiters>> BY <1>3 DEF Allow
  <2>2. ip \in Clients /\ p = limiters[ip].lim /\ p # 0 /\ ip # "none"
    BY <1>t, <2>1, LimiterAssumption DEF Held, TypeOK
  <2>3. asks[r] = ip BY <1>n
  <2>4. CASE /\ Tokens(heap[p], now) >= 1
             /\ heap' = [heap EXCEPT ![p] = [tokens |-> Tokens(heap[p], now) - 1, last |-> now]]
             /\ req' = [req EXCEPT ![r] = [Quiet EXCEPT !.answer = "admitted"]]
             /\ admitted' = [admitted EXCEPT ![ip] = Append(@, now)]
    <3> HIDE DEF p, ip
    <3>1. level[ip] = Tokens(heap[p], now) BY <1>l, <2>2
    <3>2. asks' = [asks EXCEPT ![r] = "none"] /\ answer' = [answer EXCEPT ![r] = "admitted"]
      BY <1>h, <1>n, <2>4 DEF Quiet
    <3>3. /\ p \in 1 .. Len(heap) /\ Tokens(heap[p], now) \in 0 .. Burst BY <2>2, EntryFacts
    <3> DEFINE b == [tokens |-> Tokens(heap[p], now) - 1, last |-> now]
    <3>4. b \in Lim /\ b.last = now /\ b.tokens = Tokens(heap[p], now) - 1
      BY <1>h, <2>4, <3>3, LimiterAssumption DEF Lim
    <3>5. Tokens(b, now) = Tokens(heap[p], now) - 1
      <4> HIDE DEF b
      <4> QED BY <1>h, <3>4, TokensFacts
    <3>6. heap'[p] = b /\ \A k \in 1 .. Len(heap) : k # p => heap'[k] = heap[k]
      BY <1>h, <2>4, <3>3
    <3> HIDE DEF b
    <3>7. level'[ip] = level[ip] - 1 BY <1>m, <2>1, <2>2, <3>1, <3>5, <3>6
    <3>8. \A c \in Clients : c # ip => level'[c] = level[c]
      <4> SUFFICES ASSUME NEW c \in Clients, c # ip PROVE level'[c] = level[c] OBVIOUS
      <4>1. CASE limiters[c].lim = 0 BY <1>l, <1>m, <2>1, <4>1
      <4>2. CASE limiters[c].lim # 0
        <5>1. limiters[c].lim # p BY <1>t, <2>2, <4>2 DEF Owned
        <5>2. limiters[c].lim \in 1 .. Len(heap) BY <4>2, EntryFacts
        <5>3. heap'[limiters[c].lim] = heap[limiters[c].lim] BY <3>6, <5>1, <5>2
        <5> QED BY <1>l, <1>m, <2>1, <5>3
      <4> QED BY <4>1, <4>2
    <3>9. level' = [level EXCEPT ![ip] = @ - 1] BY <1>d, <2>2, <3>7, <3>8
    <3>10. Buckets!Admit(r)
      BY <2>1, <2>2, <2>3, <2>4, <3>1, <3>2, <3>9 DEF Buckets!Admit
    <3> QED BY <3>10 DEF Buckets!Next
  <2>5. CASE /\ Tokens(heap[p], now) < 1 /\ UNCHANGED <<heap, admitted>>
             /\ req' = [req EXCEPT ![r] = [Quiet EXCEPT !.answer = "refused"]]
    <3> HIDE DEF p, ip
    <3>1. level[ip] = Tokens(heap[p], now) BY <1>l, <2>2
    <3>2. asks' = [asks EXCEPT ![r] = "none"] /\ answer' = [answer EXCEPT ![r] = "refused"]
      BY <1>h, <1>n, <2>5 DEF Quiet
    <3>3. level' = level BY <2>1, <2>5 DEF level, Tokens
    <3>4. Buckets!Refuse(r) BY <2>1, <2>2, <2>3, <2>5, <3>1, <3>2, <3>3 DEF Buckets!Refuse
    <3> QED BY <3>4 DEF Buckets!Next
  <2> QED BY <1>3, <2>4, <2>5 DEF Allow
<1> QED BY <1>1, <1>2, <1>3, <1>4, <1>5, <1>6 DEF Next

\* The limiter of ratelimit.go, with its get outside Allow and its evictor,
\* decides every request as buckets that are never forgotten would.
THEOREM LimiterImplementsBuckets == Spec => ImplementsBuckets
<1>1. Init => Buckets!Init
  BY DEF Init, Buckets!Init, level, asks, answer, Absent, Quiet
<1> QED BY InvInit, InvNext, StepRefines, <1>1, PTL DEF Spec, ImplementsBuckets, Buckets!Spec

-----------------------------------------------------------------------------
(* The rate.  BurstBound is not inductive: what a client may still take     *)
(* depends on its bucket.  BoundInv adds the tokens the bucket holds to the *)
(* requests admitted since any one of them.                                 *)

Earned(c, i) == Burst + Rate * (now - admitted[c][i])

BoundInv ==
    \A c \in Clients : \A i \in 1 .. Len(admitted[c]) :
        /\ admitted[c][i] <= now
        /\ level[c] + (Len(admitted[c]) - i + 1) <= Earned(c, i)
        /\ \A j \in 1 .. Len(admitted[c]) :
              i <= j => /\ admitted[c][i] <= admitted[c][j]
                        /\ j - i + 1 <= Burst + Rate * (admitted[c][j] - admitted[c][i])

LEMMA BoundNext ==
    LimiterInv /\ LimiterInv' /\ BoundInv /\ [Next]_vars => BoundInv'
<1> SUFFICES ASSUME LimiterInv, LimiterInv', BoundInv, [Next]_vars,
                    NEW c \in Clients, NEW i \in 1 .. Len(admitted'[c])
             PROVE  /\ admitted'[c][i] <= now'
                    /\ level'[c] + (Len(admitted'[c]) - i + 1) <= Burst + Rate * (now' - admitted'[c][i])
                    /\ \A j \in 1 .. Len(admitted'[c]) : i <= j =>
                          /\ admitted'[c][i] <= admitted'[c][j]
                          /\ j - i + 1 <= Burst + Rate * (admitted'[c][j] - admitted'[c][i])
  BY DEF BoundInv, Earned
<1>a. Rate \in Nat /\ Burst \in Nat /\ MaxTime \in Nat BY LimiterAssumption
<1>t. /\ now \in Nat /\ admitted[c] \in Seq(0 .. MaxTime) /\ Len(admitted[c]) \in Nat
      /\ \A k \in 1 .. Len(admitted[c]) : admitted[c][k] \in Nat
      /\ admitted \in [Clients -> Seq(0 .. MaxTime)]
  <2>1. /\ now \in Nat /\ admitted[c] \in Seq(0 .. MaxTime)
        /\ admitted \in [Clients -> Seq(0 .. MaxTime)]
    BY <1>a DEF LimiterInv, TypeOK
  <2> QED BY <2>1, <1>a
<1>l. level[c] \in 0 .. Burst /\ level'[c] \in 0 .. Burst
  <2>1. level[c] \in 0 .. Burst BY LevelFacts
  <2>2. (\A d \in Clients : level[d] \in 0 .. Burst)' BY LevelTyped, PTL
  <2> QED BY <2>1, <2>2
<1>s. Buckets!Next \/ UNCHANGED Buckets!bucketVars BY StepRefines
<1>b. ASSUME NEW k \in 1 .. Len(admitted[c])
      PROVE  /\ admitted[c][k] <= now /\ admitted[c][k] \in Nat
             /\ Rate * (now - admitted[c][k]) \in Nat
             /\ level[c] + (Len(admitted[c]) - k + 1) <= Burst + Rate * (now - admitted[c][k])
             /\ \A j \in 1 .. Len(admitted[c]) : k <= j =>
                   /\ admitted[c][k] <= admitted[c][j]
                   /\ j - k + 1 <= Burst + Rate * (admitted[c][j] - admitted[c][k])
  <2>1. admitted[c][k] <= now /\ admitted[c][k] \in Nat BY <1>b, <1>t DEF BoundInv
  <2>2. now - admitted[c][k] \in Nat BY <2>1, <1>t
  <2>3. Rate * (now - admitted[c][k]) \in Nat BY <2>2, <1>a, Monotone
  <2> QED BY <2>1, <2>3, <1>b DEF BoundInv, Earned
<1>1. CASE now' = now /\ admitted'[c] = admitted[c] /\ level'[c] = level[c]
  BY <1>1, <1>b
<1>2. CASE Buckets!Tick
  <2>1. now' = now + 1 /\ admitted' = admitted /\ level'[c] = Buckets!Refill(level[c], 1)
    BY <1>2 DEF Buckets!Tick
  <2>2. level'[c] <= level[c] + Rate
    BY <1>a, <1>l, <2>1 DEF Buckets!Refill
  <2> DEFINE d == now - admitted[c][i]
  <2>3. d \in Nat /\ now' - admitted[c][i] = d + 1 BY <1>b, <1>t, <2>1
  <2>4. Rate * (d + 1) = Rate * d + Rate /\ Rate * d \in Nat BY <1>a, <2>3, OneMore, Monotone
  <2>5. level[c] + (Len(admitted[c]) - i + 1) <= Burst + Rate * d BY <1>b, <2>1
  <2> HIDE DEF d
  <2> DEFINE e == Rate * d  f == Rate * (d + 1)  k == Len(admitted[c]) - i + 1
  <2>e. e \in Nat /\ f = e + Rate /\ level[c] + k <= Burst + e BY <2>4, <2>5
  <2>k. k \in Int BY <1>t, <2>1
  <2> HIDE DEF e, f, k
  <2>6. level'[c] + k <= Burst + f BY <1>a, <1>l, <2>2, <2>e, <2>k, Carry
  <2> USE DEF e, f, k
  <2>7. admitted[c][i] <= now + 1 BY <1>b, <1>t, <2>1
  <2> QED BY <2>1, <2>3, <2>6, <2>7, <1>b
<1>3. ASSUME NEW r \in Requests, Buckets!Admit(r), asks[r] = c
      PROVE  /\ admitted'[c][i] <= now'
             /\ level'[c] + (Len(admitted'[c]) - i + 1) <= Burst + Rate * (now' - admitted'[c][i])
             /\ \A j \in 1 .. Len(admitted'[c]) : i <= j =>
                   /\ admitted'[c][i] <= admitted'[c][j]
                   /\ j - i + 1 <= Burst + Rate * (admitted'[c][j] - admitted'[c][i])
  <2> DEFINE n == Len(admitted[c])
  <2>1. /\ now' = now /\ level' = [level EXCEPT ![c] = @ - 1]
        /\ admitted' = [admitted EXCEPT ![c] = Append(@, now)] /\ level[c] >= 1
    BY <1>3 DEF Buckets!Admit
  <2>2. level'[c] = level[c] - 1
    <3>1. DOMAIN level = Clients BY DEF level
    <3> QED BY <2>1, <3>1
  <2>3. admitted'[c] = Append(admitted[c], now) BY <2>1, <1>t
  <2>4. /\ Len(admitted'[c]) = n + 1 /\ admitted'[c][n + 1] = now
        /\ \A k \in 1 .. n : admitted'[c][k] = admitted[c][k]
    BY <2>3, <1>t
  <2>5. CASE i = n + 1
    <3>1. admitted'[c][i] = now BY <2>4, <2>5
    <3>2. Rate * (now - now) = 0 /\ now <= now
      <4>1. now - now = 0 /\ Rate * 0 = 0 BY <1>a, <1>t
      <4> QED BY <4>1, <1>t
    <3>3. level'[c] + 1 <= Burst /\ 1 <= Burst BY <1>a, <1>l, <2>1, <2>2
    <3>4. \A j \in 1 .. (n + 1) : i <= j => j = i BY <1>t, <2>5
    <3>5. (n + 1) - i + 1 = 1 /\ i - i + 1 = 1 BY <1>t, <2>5
    <3> HIDE DEF n
    <3>6. Burst + Rate * (now - now) = Burst BY <1>a, <3>2
    <3>7. ASSUME NEW j \in 1 .. Len(admitted'[c]), i <= j
          PROVE  /\ admitted'[c][i] <= admitted'[c][j]
                 /\ j - i + 1 <= Burst + Rate * (admitted'[c][j] - admitted'[c][i])
      <4>1. j = i BY <3>7, <3>4, <2>4
      <4> QED BY <4>1, <3>1, <3>2, <3>3, <3>5, <3>6
    <3>8. level'[c] + (Len(admitted'[c]) - i + 1) <= Burst + Rate * (now' - admitted'[c][i])
      BY <2>1, <2>4, <3>1, <3>3, <3>5, <3>6
    <3> QED BY <3>1, <3>2, <3>7, <3>8, <2>1
  <2>6. CASE i \in 1 .. n
    <3>1. admitted'[c][i] = admitted[c][i] BY <2>4, <2>6
    <3>2. /\ admitted[c][i] <= now /\ Rate * (now - admitted[c][i]) \in Nat
          /\ level[c] + (n - i + 1) <= Burst + Rate * (now - admitted[c][i])
      BY <1>b, <2>6
    <3> DEFINE e == Rate * (now - admitted[c][i])
    <3>n. n \in Nat /\ i \in Nat BY <1>t, <2>6
    <3>e. level[c] + (n - i + 1) <= Burst + e /\ e \in Nat BY <3>2
    <3> HIDE DEF e, n
    <3>3. level'[c] + ((n + 1) - i + 1) <= Burst + e
      BY <1>a, <1>l, <2>2, <3>n, <3>e
    <3>4. (n + 1) - i + 1 <= Burst + e
      BY <1>a, <1>l, <2>1, <2>2, <3>n, <3>e
    <3> USE DEF n
    <3>5. \A j \in 1 .. n : i <= j =>
              /\ admitted[c][i] <= admitted[c][j]
              /\ j - i + 1 <= Burst + Rate * (admitted[c][j] - admitted[c][i])
      BY <1>b, <2>6
    <3>6. ASSUME NEW j \in 1 .. (n + 1), i <= j
          PROVE  /\ admitted'[c][i] <= admitted'[c][j]
                 /\ j - i + 1 <= Burst + Rate * (admitted'[c][j] - admitted'[c][i])
      <4>1. CASE j = n + 1
        <5> HIDE DEF n
        <5>1. admitted'[c][j] = now /\ j - i + 1 = (n + 1) - i + 1 BY <4>1, <2>4
        <5> QED BY <5>1, <3>1, <3>2, <3>4 DEF e
      <4>2. CASE j \in 1 .. n BY <4>2, <3>6, <2>4, <3>1, <3>5
      <4>3. n \in Nat BY <1>t
      <4> HIDE DEF n
      <4> QED BY <3>6, <4>1, <4>2, <4>3
    <3> HIDE DEF n
    <3>7. level'[c] + (Len(admitted'[c]) - i + 1) <= Burst + Rate * (now' - admitted'[c][i])
      BY <2>1, <2>4, <3>1, <3>3 DEF e
    <3>8. 1 .. Len(admitted'[c]) = 1 .. (n + 1) BY <2>4
    <3> QED BY <2>1, <3>1, <3>2, <3>6, <3>7, <3>8
  <2>7. i \in 1 .. n + 1 /\ n \in Nat BY <1>t, <2>4
  <2> HIDE DEF n
  <2> QED BY <2>5, <2>6, <2>7
<1>4. ASSUME NEW r \in Requests, Buckets!Admit(r), asks[r] # c
      PROVE  now' = now /\ admitted'[c] = admitted[c] /\ level'[c] = level[c]
  <2>1. /\ now' = now /\ level' = [level EXCEPT ![asks[r]] = @ - 1]
        /\ admitted' = [admitted EXCEPT ![asks[r]] = Append(@, now)]
    BY <1>4 DEF Buckets!Admit
  <2>2. DOMAIN level = Clients BY DEF level
  <2> QED BY <1>4, <1>t, <2>1, <2>2
<1>5. ASSUME NEW r \in Requests, (\E d \in Clients : Buckets!Ask(r, d)) \/ Buckets!Refuse(r)
      PROVE  now' = now /\ admitted'[c] = admitted[c] /\ level'[c] = level[c]
  BY <1>5 DEF Buckets!Ask, Buckets!Refuse
<1>6. CASE UNCHANGED Buckets!bucketVars BY <1>1, <1>6 DEF Buckets!bucketVars
<1> QED BY <1>1, <1>2, <1>3, <1>4, <1>5, <1>6, <1>s DEF Buckets!Next

\* "Allows 100 req/s per IP with a burst of 200" holds between any two admitted
\* requests of a client, whenever the evictor ran between them.
THEOREM LimiterKeepsRate == Spec => []BurstBound
<1>1. Init => BoundInv
  <2> SUFFICES ASSUME Init, NEW c \in Clients PROVE 1 .. Len(admitted[c]) = {} BY DEF BoundInv
  <2>1. admitted[c] = <<>> BY DEF Init
  <2> QED BY <2>1
<1>2. ASSUME LimiterInv, BoundInv PROVE BurstBound
  <2> SUFFICES ASSUME NEW c \in Clients, NEW i \in DOMAIN admitted[c], NEW j \in DOMAIN admitted[c],
                      i <= j
               PROVE  j - i + 1 <= Burst + Rate * (admitted[c][j] - admitted[c][i])
    BY DEF BurstBound, Buckets!BurstBound
  <2>1. admitted[c] \in Seq(0 .. MaxTime) BY <1>2 DEF LimiterInv, TypeOK
  <2>2. DOMAIN admitted[c] = 1 .. Len(admitted[c]) BY <2>1
  <2> QED BY <1>2, <2>2 DEF BoundInv
<1> QED BY InvInit, InvNext, BoundNext, <1>1, <1>2, PTL DEF Spec
=============================================================================
