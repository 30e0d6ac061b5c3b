--------------------------- MODULE RemoteExecProofs --------------------------
(***************************************************************************)
(* Theorems about RemoteExec, for any requests, any number of nonces that  *)
(* are remembered, any age limit and any error of the clock: types, that a *)
(* request is let through again only when its nonce was forgotten, and how *)
(* far a late call can be behind.                                          *)
(***************************************************************************)
EXTENDS RemoteExec, TLAPS

\* The queue holds the nonces at the end of the log, all of them since the
\* restart unless it is full; the set holds the same.
Remembered ==
    /\ order \in Seq(Requests)
    /\ Len(order) <= Len(log)
    /\ Len(order) <= MaxNonces
    /\ \A k \in 1..Len(order) : order[k] = log[Len(log) - Len(order) + k]
    /\ \/ Len(order) = MaxNonces
       \/ Len(order) = Len(log)
       \/ log[Len(log) - Len(order)] = Restarted
    /\ seen = {order[k] : k \in 1..Len(order)}
    /\ \A i, j \in 1..Len(order) : order[i] = order[j] => i = j

Types ==
    /\ now \in 0..MaxTime
    /\ skew \in -MaxSkew..MaxSkew
    /\ signed \in [Requests -> 0..MaxTime]
    /\ told \in [Requests -> {"new", "waiting", "timeout", "unavailable", "raised", "returned"}]
    /\ running \subseteq Requests
    /\ log \in Seq(Requests \cup {Restarted})
    /\ \A r \in Requests : signed[r] <= now
    /\ Remembered

-----------------------------------------------------------------------------
(* The queue. *)

LEMMA Appended ==
    ASSUME NEW S, NEW q \in Seq(S), NEW x \in S
    PROVE  /\ Append(q, x) \in Seq(S)
           /\ Len(Append(q, x)) = Len(q) + 1
           /\ Append(q, x)[Len(q) + 1] = x
           /\ \A k \in 1..Len(q) : Append(q, x)[k] = q[k]
  OBVIOUS

LEMMA Suffix ==
    ASSUME NEW S, NEW q \in Seq(S), NEW n \in 0..Len(q)
    PROVE  /\ SubSeq(q, n + 1, Len(q)) \in Seq(S)
           /\ Len(SubSeq(q, n + 1, Len(q))) = Len(q) - n
           /\ \A k \in 1..Len(q) - n : SubSeq(q, n + 1, Len(q))[k] = q[n + k]
  OBVIOUS

\* A queue that was at most full loses at most its oldest nonce.
LEMMA PopsAtMostOne ==
    ASSUME NEW q \in Seq(Requests), Len(q) <= MaxNonces + 1
    PROVE  Popped(q) = IF Len(q) = MaxNonces + 1 THEN 1 ELSE 0
<1>1. Len(q) \in Nat /\ MaxNonces \in Nat
  BY RemoteAssumption
<1> QED
  BY <1>1 DEF Popped

\* Letting a request through keeps the queue the end of the log.
LEMMA AcceptRemembers ==
    ASSUME NEW r \in Requests, Types, Accept(r)
    PROVE  Remembered' /\ log' \in Seq(Requests \cup {Restarted})
<1> DEFINE q == Append(order, r)
           n == Popped(q)
           m == Len(order)
           h == Len(log)
<1>0. /\ MaxNonces \in Nat \ {0} /\ order \in Seq(Requests) /\ log \in Seq(Requests \cup {Restarted})
      /\ m \in Nat /\ h \in Nat /\ m <= h /\ m <= MaxNonces
  BY RemoteAssumption DEF Types, Remembered
<1>1. q \in Seq(Requests) /\ Len(q) = m + 1 /\ q[m + 1] = r /\ \A k \in 1..m : q[k] = order[k]
  BY <1>0, Appended
<1>2. /\ log' \in Seq(Requests \cup {Restarted})
      /\ Len(log') = h + 1 /\ log'[h + 1] = r /\ \A k \in 1..h : log'[k] = log[k]
  <2>1. log' = Append(log, r) /\ r \in Requests \cup {Restarted}
    BY DEF Accept
  <2> QED
    BY <1>0, <2>1, Appended
<1>3. order' = SubSeq(q, n + 1, Len(q)) /\ seen' = (seen \cup {r}) \ {q[i] : i \in 1..n}
  BY DEF Accept
<1>4. /\ \A k \in 1..m : order[k] = log[h - m + k] /\ order[k] # r
      /\ \A i, j \in 1..m : order[i] = order[j] => i = j
      /\ seen = {order[k] : k \in 1..m}
      /\ m = MaxNonces \/ m = h \/ log[h - m] = Restarted
  BY DEF Accept, Types, Remembered
<1> HIDE DEF q
<1>5. n = IF m = MaxNonces THEN 1 ELSE 0
  <2>1. n = IF Len(q) = MaxNonces + 1 THEN 1 ELSE 0
    BY <1>0, <1>1, PopsAtMostOne
  <2> QED
    BY <1>0, <1>1, <2>1
<1> HIDE DEF n, m, h
<1>6. n \in 0..1 /\ n \in 0..Len(q)
  BY <1>0, <1>1, <1>5
<1> DEFINE t == order'
<1>7. /\ t \in Seq(Requests)
      /\ Len(t) = m + 1 - n
      /\ \A k \in 1..m + 1 - n : t[k] = q[n + k]
  <2>1. /\ t \in Seq(Requests)
        /\ Len(t) = Len(q) - n
        /\ \A k \in 1..Len(q) - n : t[k] = q[n + k]
    BY <1>1, <1>3, <1>6, Suffix
  <2>2. Len(q) - n = m + 1 - n
    BY <1>0, <1>1, <1>6
  <2> HIDE DEF t
  <2> QED
    BY <2>1, <2>2
<1> HIDE DEF t
<1>8. \A i, j \in 1..m + 1 : q[i] = q[j] => i = j
  <2>1. \A k \in 1..m + 1 : k \in 1..m \/ k = m + 1
    BY <1>0
  <2> QED
    BY <2>1, <1>1, <1>4
<1>9. seen' = {t[k] : k \in 1..Len(t)}
  <2>1. seen = {q[k] : k \in 1..m}
    BY <1>1, <1>4
  <2>2. \A k \in 1..m + 1 : k \in 1..m \/ k = m + 1
    BY <1>0
  <2>3. seen \cup {r} = {q[k] : k \in 1..m + 1}
    BY <2>1, <2>2, <1>0, <1>1
  <2>4. ASSUME NEW x \in seen' PROVE x \in {t[k] : k \in 1..m + 1 - n}
    <3>1. PICK k \in 1..m + 1 : x = q[k]
      BY <2>3, <2>4, <1>3
    <3>2. k \notin 1..n
      BY <2>4, <3>1, <1>3
    <3>3. k - n \in 1..m + 1 - n /\ n + (k - n) = k
      BY <3>2, <1>0, <1>6
    <3>4. x = t[k - n]
      BY <3>1, <3>3, <1>7
    <3> QED
      BY <3>3, <3>4
  <2>5. ASSUME NEW x \in {t[k] : k \in 1..m + 1 - n} PROVE x \in seen'
    <3>1. PICK k \in 1..m + 1 - n : x = t[k]
      BY <2>5
    <3>2. x = q[n + k] /\ n + k \in 1..m + 1
      BY <3>1, <1>0, <1>6, <1>7
    <3>3. \A i \in 1..n : i \in 1..m + 1 /\ i # n + k
      BY <1>0, <1>6
    <3>4. x \notin {q[i] : i \in 1..n}
      BY <3>2, <3>3, <1>8
    <3> QED
      BY <2>3, <3>2, <3>4, <1>3
  <2> QED
    BY <2>4, <2>5, <1>7
<1>10. \A i, j \in 1..Len(t) : t[i] = t[j] => i = j
  <2> SUFFICES ASSUME NEW i \in 1..m + 1 - n, NEW j \in 1..m + 1 - n, t[i] = t[j]
               PROVE  i = j
    BY <1>7
  <2>1. n + i \in 1..m + 1 /\ n + j \in 1..m + 1 /\ q[n + i] = q[n + j]
    BY <1>0, <1>6, <1>7
  <2> QED
    BY <2>1, <1>8, <1>6
<1>11. \A k \in 1..Len(t) : t[k] = log'[Len(log') - Len(t) + k]
  <2> SUFFICES ASSUME NEW k \in 1..m + 1 - n
               PROVE  t[k] = log'[(h + 1) - (m + 1 - n) + k]
    BY <1>2, <1>7
  <2>1. (h + 1) - (m + 1 - n) + k = h - m + (n + k) /\ n + k \in 1..m + 1
    BY <1>0, <1>6
  <2>2. CASE n + k = m + 1
    BY <2>1, <2>2, <1>0, <1>1, <1>2, <1>7
  <2>3. CASE n + k \in 1..m
    <3>1. q[n + k] = log[h - m + (n + k)] /\ h - m + (n + k) \in 1..h
      BY <2>3, <1>0, <1>1, <1>4
    <3> QED
      BY <2>1, <3>1, <1>2, <1>7
  <2> QED
    BY <2>1, <2>2, <2>3, <1>0
<1>12. \/ Len(t) = MaxNonces
       \/ Len(t) = Len(log')
       \/ log'[Len(log') - Len(t)] = Restarted
  <2>1. CASE m = MaxNonces
    BY <2>1, <1>0, <1>5, <1>7
  <2>2. CASE m # MaxNonces /\ m = h
    BY <2>2, <1>0, <1>2, <1>5, <1>7
  <2>3. CASE m # MaxNonces /\ m # h
    <3>1. log[h - m] = Restarted /\ h - m \in 1..h /\ Len(log') - Len(t) = h - m
      BY <2>3, <1>0, <1>2, <1>4, <1>5, <1>7
    <3> QED
      BY <3>1, <1>2
  <2> QED
    BY <2>1, <2>2, <2>3
<1>13. Len(t) <= Len(log') /\ Len(t) <= MaxNonces
  BY <1>0, <1>2, <1>5, <1>7
<1> QED
  <2> USE DEF t
  <2> QED
    BY <1>2, <1>7, <1>9, <1>10, <1>11, <1>12, <1>13 DEF Remembered

\* A restart leaves an empty queue behind a mark, or behind nothing.
LEMMA RestartRemembers ==
    ASSUME Types, Restart
    PROVE  Remembered' /\ log' \in Seq(Requests \cup {Restarted})
<1>1. log \in Seq(Requests \cup {Restarted}) /\ Len(log) \in Nat /\ MaxNonces \in Nat \ {0}
  BY RemoteAssumption DEF Types
<1>2. order' = <<>> /\ Len(order') = 0 /\ seen' = {} /\ order' \in Seq(Requests)
  BY DEF Restart
<1>3. /\ log' \in Seq(Requests \cup {Restarted})
      /\ Len(log') = 0 \/ log'[Len(log')] = Restarted
  <2>1. CASE log = <<>> \/ log[Len(log)] = Restarted
    BY <2>1, <1>1 DEF Restart
  <2>2. CASE ~(log = <<>> \/ log[Len(log)] = Restarted)
    <3>1. log' = Append(log, Restarted) /\ Restarted \in Requests \cup {Restarted}
      BY <2>2 DEF Restart
    <3> QED
      BY <1>1, <3>1, Appended
  <2> QED
    BY <2>1, <2>2
<1>4. Len(log') \in Nat /\ Len(log') - Len(order') = Len(log') /\ 1..Len(order') = {}
  BY <1>2, <1>3
<1> QED
  BY <1>1, <1>2, <1>3, <1>4 DEF Remembered

THEOREM TypesHold == Spec => []Types
<1>1. Init => Types
  <2> SUFFICES ASSUME Init PROVE Types
    OBVIOUS
  <2>1. Len(order) = 0 /\ Len(log) = 0 /\ 1..0 = {} /\ MaxNonces \in Nat
    BY RemoteAssumption DEF Init
  <2> QED
    BY <2>1, RemoteAssumption DEF Init, Types, Remembered
<1>2. Types /\ [Next]_vars => Types'
  <2> SUFFICES ASSUME Types, [Next]_vars PROVE Types'
    OBVIOUS
  <2>0. ASSUME UNCHANGED <<seen, order, log>> PROVE Remembered'
    BY <2>0 DEF Types, Remembered
  <2> USE RemoteAssumption DEF Types, clockVars, clientVars, verifierVars
  <2>1. ASSUME NEW r \in Requests, Post(r) PROVE Types'
    BY <2>0, <2>1 DEF Post
  <2>2. ASSUME NEW r \in Requests, TimeOut(r) PROVE Types'
    BY <2>0, <2>2 DEF TimeOut, Tell
  <2>3. ASSUME NEW r \in Requests, Break(r) PROVE Types'
    BY <2>0, <2>3 DEF Break, Tell
  <2>4. ASSUME NEW r \in Requests, Accept(r) PROVE Types'
    BY <2>4, AcceptRemembers DEF Accept
  <2>5. ASSUME NEW r \in Requests, Refuse(r) PROVE Types'
    BY <2>0, <2>5 DEF Refuse, Tell
  <2>6. ASSUME NEW r \in Requests, Respond(r) PROVE Types'
    BY <2>0, <2>6 DEF Respond, Tell
  <2>7. CASE Restart
    BY <2>7, RestartRemembers DEF Restart
  <2>8. CASE Tick
    BY <2>0, <2>8 DEF Tick
  <2>9. CASE UNCHANGED vars
    BY <2>0, <2>9 DEF vars
  <2> QED
    BY <2>1, <2>2, <2>3, <2>4, <2>5, <2>6, <2>7, <2>8, <2>9 DEF Next, Client, Executor
<1> QED
  BY <1>1, <1>2, PTL DEF Spec

\* Every variable keeps its type, the set and the queue of nonces agree, and
\* the queue never outgrows max_nonces.
THEOREM TypeCorrect == Spec => []TypeOK
<1>1. Types => TypeOK
  BY DEF Types, Remembered, TypeOK
<1> QED
  BY <1>1, TypesHold, PTL
-----------------------------------------------------------------------------
(* A request that is let through again was forgotten. *)

\* A step leaves the log alone or adds one entry to it.
LEMMA LogGrows ==
    ASSUME Types, [Next]_vars
    PROVE  \/ log' = log
           \/ \E r \in Requests : Accept(r) /\ log' = Append(log, r)
           \/ log' = Append(log, Restarted)
  BY DEF Next, Client, Executor, Post, TimeOut, Break, Accept, Refuse, Respond, Restart, Tick, vars

\* Where a request that is not remembered may be in the log.
LEMMA ForgottenBefore ==
    ASSUME Types, NEW r \in Requests, r \notin seen, NEW i \in 1..Len(log), log[i] = r
    PROVE  Len(log) + 1 - i > MaxNonces \/ \E k \in i..Len(log) : log[k] = Restarted
<1> DEFINE m == Len(order)
           h == Len(log)
<1>1. /\ m \in Nat /\ h \in Nat /\ m <= h /\ MaxNonces \in Nat
      /\ \A k \in 1..m : order[k] = log[h - m + k] /\ order[k] # r
      /\ m = MaxNonces \/ m = h \/ log[h - m] = Restarted
  BY RemoteAssumption DEF Types, Remembered
<1> HIDE DEF m, h
<1>2. i \in 1..h
  BY DEF h
<1>3. ~(i > h - m)
  <2> SUFFICES ASSUME i > h - m PROVE FALSE
    OBVIOUS
  <2>1. i - (h - m) \in 1..m /\ h - m + (i - (h - m)) = i
    BY <1>1, <1>2
  <2>2. log[i] # r
    BY <2>1, <1>1
  <2> QED
    BY <2>2
<1>4. CASE m = MaxNonces
  <2>1. h + 1 - i > MaxNonces
    BY <1>1, <1>2, <1>3, <1>4
  <2> QED
    BY <2>1 DEF h
<1>5. CASE m = h
  BY <1>1, <1>2, <1>3, <1>5
<1>6. CASE log[h - m] = Restarted
  <2>1. h - m \in i..h
    BY <1>1, <1>2, <1>3
  <2> QED
    BY <1>6, <2>1 DEF h
<1> QED
  BY <1>1, <1>4, <1>5, <1>6

\* Whatever the network repeats, a request is let through a second time only
\* after a restart or max_nonces other requests.
THEOREM OnceUnlessForgotten == Spec => []SecondTimeOnlyIfForgotten
<1>1. Init => SecondTimeOnlyIfForgotten
  <2> SUFFICES ASSUME Init PROVE SecondTimeOnlyIfForgotten
    OBVIOUS
  <2>1. 1..Len(log) = {}
    BY DEF Init
  <2> QED
    BY <2>1 DEF SecondTimeOnlyIfForgotten
<1>2. Types /\ SecondTimeOnlyIfForgotten /\ [Next]_vars => SecondTimeOnlyIfForgotten'
  <2> SUFFICES ASSUME Types, SecondTimeOnlyIfForgotten, [Next]_vars,
                      NEW i \in 1..Len(log'), NEW j \in 1..Len(log'),
                      i < j, log'[i] = log'[j], log'[i] # Restarted
               PROVE  (\E k \in i..j : log'[k] = Restarted) \/ j - i > MaxNonces
    BY DEF SecondTimeOnlyIfForgotten, RestartBetween
  <2> DEFINE h == Len(log)
  <2>1. log \in Seq(Requests \cup {Restarted}) /\ h \in Nat
    BY DEF Types
  <2>2. ASSUME j \in 1..h, \A k \in 1..h : log'[k] = log[k]
        PROVE  (\E k \in i..j : log'[k] = Restarted) \/ j - i > MaxNonces
    <3>1. i \in 1..h /\ log[i] = log[j] /\ log[i] # Restarted /\ \A k \in i..j : log'[k] = log[k]
      BY <2>1, <2>2
    <3> QED
      BY <3>1, <2>2 DEF SecondTimeOnlyIfForgotten, RestartBetween
  <2>3. CASE log' = log
    BY <2>2, <2>3
  <2>4. ASSUME NEW x \in Requests \cup {Restarted}, log' = Append(log, x)
        PROVE  /\ Len(log') = h + 1 /\ log'[h + 1] = x
               /\ \A k \in 1..h : log'[k] = log[k]
               /\ j \in 1..h \/ (j = h + 1 /\ i \in 1..h)
    <3>1. Len(log') = h + 1 /\ log'[h + 1] = x /\ \A k \in 1..h : log'[k] = log[k]
      BY <2>1, <2>4, Appended
    <3> HIDE DEF h
    <3> QED
      BY <3>1, <2>1
  <2>5. ASSUME NEW r \in Requests, Accept(r), log' = Append(log, r)
        PROVE  (\E k \in i..j : log'[k] = Restarted) \/ j - i > MaxNonces
    <3>1. /\ log'[h + 1] = r /\ \A k \in 1..h : log'[k] = log[k]
          /\ j \in 1..h \/ (j = h + 1 /\ i \in 1..h)
      BY <2>4, <2>5
    <3>2. CASE j = h + 1 /\ i \in 1..h
      <4>1. log[i] = r /\ r \notin seen
        BY <3>1, <3>2, <2>5 DEF Accept
      <4>2. h + 1 - i > MaxNonces \/ \E k \in i..h : log[k] = Restarted
        BY <4>1, <3>2, ForgottenBefore
      <4>3. \A k \in i..h : k \in i..j /\ log'[k] = log[k]
        BY <3>1, <3>2, <2>1
      <4> QED
        BY <4>2, <4>3, <3>2
    <3> QED
      BY <3>1, <3>2, <2>2
  <2>6. CASE log' = Append(log, Restarted)
    <3>1. /\ log'[h + 1] = Restarted /\ \A k \in 1..h : log'[k] = log[k]
          /\ j \in 1..h \/ (j = h + 1 /\ i \in 1..h)
      BY <2>4, <2>6
    <3> QED
      BY <3>1, <2>2
  <2> QED
    BY <2>3, <2>5, <2>6, LogGrows
<1> QED
  BY <1>1, <1>2, TypesHold, PTL DEF Spec
-----------------------------------------------------------------------------
(* How far a late call can be behind. *)

LEMMA SecondsBound ==
    ASSUME NEW t \in Int
    PROVE  Seconds(t) \in Int /\ 2 * Seconds(t) <= t /\ t < 2 * Seconds(t) + 2
  BY DEF Seconds

\* A fresh request was signed less than the age limit, the fraction of a
\* second and the error of the clock ago.
LEMMA FreshIsRecent ==
    ASSUME Types, NEW r \in Requests, Fresh(r)
    PROVE  now - signed[r] < 2 * (MaxAge + 1) + MaxSkew
<1>1. now \in Int /\ skew \in Int /\ signed[r] \in Int /\ skew >= -MaxSkew /\ MaxAge \in Int /\ MaxSkew \in Int
  BY RemoteAssumption DEF Types
<1>2. Seconds(now + skew) - Seconds(signed[r]) <= MaxAge
  BY DEF Fresh
<1>3. Seconds(now + skew) \in Int /\ now + skew < 2 * Seconds(now + skew) + 2
  BY <1>1, SecondsBound
<1>4. Seconds(signed[r]) \in Int /\ 2 * Seconds(signed[r]) <= signed[r]
  BY <1>1, SecondsBound
<1> QED
  BY <1>1, <1>2, <1>3, <1>4

\* What was let through had been posted.
LoggedWerePosted ==
    \A i \in 1..Len(log) :
        log[i] # Restarted => log[i] \in Requests /\ Sent(log[i])

LateInv == LoggedWerePosted /\ LateCallsOvertakeNothingOld

\* What is in the log is not signed again.
LEMMA SignedStays ==
    ASSUME Types, LateInv, [Next]_vars, NEW i \in 1..Len(log), log[i] # Restarted
    PROVE  signed'[log[i]] = signed[log[i]] /\ told'[log[i]] # "new"
<1> DEFINE r == log[i]
<1>1. r \in Requests /\ told[r] # "new"
  BY DEF LateInv, LoggedWerePosted, Sent
<1>2. signed \in [Requests -> 0..MaxTime]
  BY DEF Types
<1>3. told \in [Requests -> {"new", "waiting", "timeout", "unavailable", "raised", "returned"}]
  BY DEF Types
<1> HIDE DEF r
<1> USE DEF clockVars, clientVars, verifierVars
<1>4. ASSUME NEW q \in Requests, Post(q) PROVE signed'[r] = signed[r] /\ told'[r] # "new"
  BY <1>1, <1>2, <1>3, <1>4 DEF Post, Sent
<1>5. ASSUME NEW q \in Requests, TimeOut(q) \/ Break(q) \/ Refuse(q) \/ Respond(q)
      PROVE  signed'[r] = signed[r] /\ told'[r] # "new"
  <2>1. signed' = signed
    BY <1>5 DEF TimeOut, Break, Refuse, Respond
  <2>2. told' = told \/ \E what \in {"timeout", "unavailable", "raised", "returned"} : Tell(q, what)
    BY <1>5 DEF TimeOut, Break, Refuse, Respond
  <2>3. told'[r] # "new"
    BY <2>2, <1>1, <1>3 DEF Tell
  <2> QED
    BY <2>1, <2>3, <1>1
<1>6. ASSUME NEW q \in Requests, Accept(q) PROVE signed'[r] = signed[r] /\ told'[r] # "new"
  BY <1>1, <1>6 DEF Accept
<1>7. ASSUME Restart PROVE signed'[r] = signed[r] /\ told'[r] # "new"
  BY <1>1, <1>7 DEF Restart
<1>8. ASSUME Tick PROVE signed'[r] = signed[r] /\ told'[r] # "new"
  BY <1>1, <1>8 DEF Tick
<1>9. ASSUME UNCHANGED vars PROVE signed'[r] = signed[r] /\ told'[r] # "new"
  BY <1>1, <1>9 DEF vars
<1> QED
  BY <1>4, <1>5, <1>6, <1>7, <1>8, <1>9 DEF Next, Client, Executor, r

\* A request that is let through before an older one was signed within the age
\* limit, a second's fraction and the error of the clock of it.
THEOREM LateCallsBounded == Spec => []LateCallsOvertakeNothingOld
<1>1. Init => LateInv
  <2> SUFFICES ASSUME Init PROVE LateInv
    OBVIOUS
  <2>1. 1..Len(log) = {}
    BY DEF Init
  <2> QED
    BY <2>1 DEF LateInv, LoggedWerePosted, LateCallsOvertakeNothingOld
<1>2. Types /\ LateInv /\ [Next]_vars => LateInv'
  <2> SUFFICES ASSUME Types, LateInv, [Next]_vars PROVE LateInv'
    OBVIOUS
  <2> DEFINE h == Len(log)
             Limit == 2 * (MaxAge + 1) + MaxSkew
  <2>1. log \in Seq(Requests \cup {Restarted}) /\ h \in Nat
    BY DEF Types
  <2>2. \A i \in 1..h : log[i] # Restarted =>
            /\ log[i] \in Requests /\ signed'[log[i]] = signed[log[i]]
            /\ told'[log[i]] # "new"
    BY SignedStays DEF LateInv, LoggedWerePosted
  <2>3. \A i, j \in 1..h : i < j /\ log[i] # Restarted /\ log[j] # Restarted
            => signed[log[i]] - signed[log[j]] < Limit
    BY DEF LateInv, LateCallsOvertakeNothingOld
  <2>4. CASE log' = log
    BY <2>2, <2>3, <2>4 DEF LateInv, LoggedWerePosted, LateCallsOvertakeNothingOld, Sent
  <2>5. ASSUME NEW r \in Requests, Accept(r), log' = Append(log, r)
        PROVE  LateInv'
    <3>1. Len(log') = h + 1 /\ log'[h + 1] = r /\ \A k \in 1..h : log'[k] = log[k]
      BY <2>1, <2>5, Appended
    <3>2. \A k \in 1..Len(log') : k \in 1..h \/ k = h + 1
      BY <3>1, <2>1
    <3>3. /\ signed' = signed /\ now' = now /\ told' = told /\ told[r] # "new"
          /\ now - signed[r] < Limit
      BY <2>5, FreshIsRecent DEF Accept, clockVars, clientVars, Sent
    <3>4. now \in Int /\ Limit \in Int /\ \A q \in Requests : signed[q] \in Int
      BY RemoteAssumption DEF Types
    <3> HIDE DEF h, Limit
    <3>6. LoggedWerePosted'
      BY <3>1, <3>2, <3>3, <2>2 DEF LoggedWerePosted, Sent
    <3>7. ASSUME NEW i \in 1..Len(log'), NEW j \in 1..Len(log'),
                 i < j, log'[i] # Restarted, log'[j] # Restarted
          PROVE  signed'[log'[i]] - signed'[log'[j]] < Limit
      <4>1. CASE j \in 1..h
        <5>1. i \in 1..h
          BY <4>1, <3>2, <3>7, <2>1
        <5> QED
          BY <4>1, <5>1, <3>1, <3>3, <3>7, <2>3
      <4>2. CASE j = h + 1
        <5>1. i \in 1..h
          BY <4>2, <3>2, <3>7, <2>1
        <5>2. signed[log[i]] <= now /\ log[i] \in Requests /\ log'[i] = log[i] /\ log'[j] = r
          BY <5>1, <4>2, <3>1, <3>3, <3>7, <2>2 DEF Types
        <5> QED
          BY <5>2, <3>3, <3>4
      <4> QED
        BY <4>1, <4>2, <3>2
    <3> QED
      BY <3>6, <3>7 DEF LateInv, LateCallsOvertakeNothingOld, Limit
  <2>6. CASE log' = Append(log, Restarted)
    <3>1. Len(log') = h + 1 /\ log'[h + 1] = Restarted /\ \A k \in 1..h : log'[k] = log[k]
      BY <2>1, <2>6, Appended
    <3>2. \A k \in 1..Len(log') : log'[k] # Restarted => k \in 1..h
      BY <3>1, <2>1
    <3> HIDE DEF h
    <3>3. \A k \in 1..Len(log') : log'[k] # Restarted => log'[k] = log[k] /\ k \in 1..h
      BY <3>1, <3>2
    <3> QED
      BY <3>3, <2>2, <2>3 DEF LateInv, LoggedWerePosted, LateCallsOvertakeNothingOld, Sent
  <2> QED
    BY <2>4, <2>5, <2>6, LogGrows
<1> QED
  BY <1>1, <1>2, TypesHold, PTL DEF Spec, LateInv
==============================================================================
