------------------------- MODULE TrafficGuardProofs -------------------------
(***************************************************************************)
(* Proofs about TrafficGuard, for any processes, clients and calls and any *)
(* settings.                                                               *)
(***************************************************************************)
EXTENDS MCTrafficGuards, FiniteSetTheorems, SequenceTheorems, WellFoundedInduction, TLAPS

-----------------------------------------------------------------------------
(***************************************************************************)
(* The rate windows.                                                       *)
(***************************************************************************)

\* What a deque is to its guard: the stamps popped are out of the window, at
\* most n are left, and no window has more than n of all that were ever admitted.
Deque(s, h, n, width) ==
  /\ h \in 0..Len(s)
  /\ Len(s) - h <= n
  /\ \A i \in 1..h : Expired(s[i], width)
  /\ Spread(s, n, width)

WindowInv ==
  /\ now \in Nat
  /\ log \in [Process -> Stamps]
  /\ head \in [Process -> Nat] /\ dailyHead \in [Process -> Nat]
  /\ \A p \in Process : /\ Deque(log[p], head[p], GlobalRequests, Window)
                        /\ Deque(log[p], dailyHead[p], LocalDaily, DailyWindow)

\* Pruning pops only what the window has passed.
LEMMA PrunedDeque ==
  ASSUME NEW s \in Stamps, NEW h \in Nat, NEW k \in Nat, NEW n \in Nat, NEW width,
         Deque(s, h, n, width), IsPruned(s, h, k, width)
  PROVE  Deque(s, k, n, width)
<1>1. Len(s) \in Nat
  BY LenProperties DEF Stamps
<1> QED
  BY <1>1 DEF Deque, IsPruned

\* A stamp is appended only when the window has room: the n-th stamp before it
\* was popped.
LEMMA AppendedDeque ==
  ASSUME now \in Nat, NEW s \in Stamps, NEW k \in Nat, NEW n \in Nat \ {0}, NEW width \in Nat,
         Deque(s, k, n, width), Len(s) - k < n
  PROVE  Append(s, now) \in Stamps /\ Deque(Append(s, now), k, n, width)
<1> DEFINE t == Append(s, now)
<1>1. Len(s) \in Nat /\ DOMAIN s = 1..Len(s)
  BY LenProperties DEF Stamps
<1>2. /\ t \in Stamps /\ Len(t) = Len(s) + 1 /\ DOMAIN t = 1..(Len(s) + 1)
      /\ \A i \in 1..Len(s) : t[i] = s[i]
      /\ t[Len(s) + 1] = now
  BY <1>1, AppendProperties, LenProperties DEF Stamps
<1> HIDE DEF t
<1>3. k \in 0..Len(t) /\ \A i \in 1..k : Expired(t[i], width)
  BY <1>1, <1>2 DEF Deque
<1>4. ASSUME NEW i \in DOMAIN t, i + n \in DOMAIN t PROVE t[i] + width <= t[i + n]
  <2>1. i \in 1..Len(s) /\ t[i] = s[i] /\ i \in DOMAIN s
    BY <1>1, <1>2, <1>4
  <2>2. CASE i + n \in 1..Len(s)
    BY <1>1, <1>2, <2>1, <2>2 DEF Deque, Spread
  <2>3. CASE i + n = Len(s) + 1
    <3>1. i \in 1..k
      BY <1>1, <2>1, <2>3 DEF Deque
    <3> QED
      BY <1>2, <2>1, <2>3, <3>1 DEF Deque, Expired
  <2> QED
    BY <1>1, <1>2, <1>4, <2>2, <2>3
<1> QED
  BY <1>2, <1>3, <1>4 DEF Deque, Spread, t

\* acquire keeps both windows, whatever it answers.
LEMMA AcquireWindows ==
  ASSUME WindowInv, NEW r \in Call, call[r].process \in Process, Acquire(r)
  PROVE  WindowInv'
<1> DEFINE p == call[r].process
           s == log[p]
<1>1. PICK h \in 0..Len(s), dh \in 0..Len(s) :
        /\ IsPruned(s, head[p], h, Window) /\ IsPruned(s, dailyHead[p], dh, DailyWindow)
        /\ head' = [head EXCEPT ![p] = h] /\ dailyHead' = [dailyHead EXCEPT ![p] = dh]
        /\ now' = now
        /\ \/ UNCHANGED log
           \/ /\ Len(s) - dh < LocalDaily /\ Len(s) - h < GlobalRequests
              /\ log' = [log EXCEPT ![p] = Append(@, now)]
  BY ZenonT(60) DEF Acquire, Refuse, CapacityRefusal, Admit
<1>2. p \in Process /\ s \in Stamps /\ h \in Nat /\ dh \in Nat /\ now \in Nat
  BY <1>1, LenProperties DEF WindowInv, Stamps
<1>3. Deque(s, h, GlobalRequests, Window) /\ Deque(s, dh, LocalDaily, DailyWindow)
  BY <1>1, <1>2, PrunedDeque, SettingsAssumption DEF WindowInv
<1>4. \A q \in Process \ {p} : log'[q] = log[q] /\ head'[q] = head[q] /\ dailyHead'[q] = dailyHead[q]
  BY <1>1, <1>2 DEF WindowInv
<1>5. head'[p] = h /\ dailyHead'[p] = dh
  BY <1>1, <1>2 DEF WindowInv
<1>6. /\ log'[p] \in Stamps
      /\ Deque(log'[p], h, GlobalRequests, Window) /\ Deque(log'[p], dh, LocalDaily, DailyWindow)
  <2>1. CASE UNCHANGED log
    BY <1>2, <1>3, <2>1
  <2>2. CASE /\ Len(s) - dh < LocalDaily /\ Len(s) - h < GlobalRequests
             /\ log' = [log EXCEPT ![p] = Append(@, now)]
    <3>1. log'[p] = Append(s, now)
      BY <1>2, <2>2 DEF WindowInv
    <3> QED
      BY <1>2, <1>3, <2>2, <3>1, AppendedDeque, SettingsAssumption
  <2> QED
    BY <1>1, <2>1, <2>2
<1>7. /\ log' \in [Process -> Stamps]
      /\ head' \in [Process -> Nat] /\ dailyHead' \in [Process -> Nat] /\ now' \in Nat
  BY <1>1, <1>2, <1>6 DEF WindowInv
<1> HIDE DEF p, s
<1>8. \A q \in Process : /\ Deque(log'[q], head'[q], GlobalRequests, Window)
                         /\ Deque(log'[q], dailyHead'[q], LocalDaily, DailyWindow)
  BY <1>2, <1>3, <1>4, <1>5, <1>6 DEF WindowInv
<1>9. ASSUME NEW q \in Process
      PROVE  /\ Deque(log[q], head[q], GlobalRequests, Window)'
             /\ Deque(log[q], dailyHead[q], LocalDaily, DailyWindow)'
  BY <1>1, <1>8 DEF Deque, Expired, Spread
<1> QED
  BY <1>7, <1>9 DEF WindowInv

\* The passing of time pops nothing and expires more.
LEMMA WindowsAge ==
  ASSUME WindowInv, now' \in Nat, now <= now', UNCHANGED <<log, head, dailyHead>>
  PROVE  WindowInv'
<1> SUFFICES ASSUME NEW q \in Process
             PROVE  /\ Deque(log[q], head[q], GlobalRequests, Window)'
                    /\ Deque(log[q], dailyHead[q], LocalDaily, DailyWindow)'
  BY DEF WindowInv
<1>1. /\ Deque(log[q], head[q], GlobalRequests, Window)
      /\ Deque(log[q], dailyHead[q], LocalDaily, DailyWindow)
      /\ log[q] \in Seq(Nat) /\ now \in Nat
  BY DEF WindowInv, Stamps
<1>2. ASSUME NEW h \in 0..Len(log[q]), NEW i \in 1..h, NEW width \in Nat, Expired(log[q][i], width)
      PROVE  Expired(log[q][i], width)'
  <2>1. log[q][i] \in Nat
    BY <1>1, ElementOfSeq, LenProperties
  <2> QED
    BY <1>1, <1>2, <2>1 DEF Expired
<1> QED
  BY <1>1, <1>2, SettingsAssumption DEF Deque, Spread

-----------------------------------------------------------------------------
(***************************************************************************)
(* The clients.  A client that is forgotten leaves no stamp in its window  *)
(* behind: at least MaxTracked requests were admitted from its last one    *)
(* on, so that if any of its stamps were in the window so would be more    *)
(* stamps than the global limit lets in.                                   *)
(***************************************************************************)

\* Times are appended in order.
Ordered(s) ==
  /\ \A i, j \in DOMAIN s : i <= j => s[i] <= s[j]
  /\ \A i \in DOMAIN s : s[i] <= now

\* The oldest time the i-th of the tracked clients can have been admitted last.
LastAdmission(p, i) == log[p][Len(log[p]) - (Len(tracked[p]) - i)]

Distinct(s) == \A i, j \in DOMAIN s : s[i] = s[j] => i = j

\* The tracked clients of a process, in the order of their last requests.
TrackedInOrder(p) ==
  /\ Len(tracked[p]) <= MaxTracked /\ Len(tracked[p]) <= Len(log[p])
  /\ Distinct(tracked[p])
  /\ \A i \in DOMAIN tracked[p] : \A j \in DOMAIN clientLog[p][tracked[p][i]] :
       clientLog[p][tracked[p][i]][j] <= LastAdmission(p, i)

ClientTypes ==
  /\ clientLog \in [Process -> [Client -> Stamps]]
  /\ clientHead \in [Process -> [Client -> Nat]]
  /\ tracked \in [Process -> Seq(Client)]

ClientDeque(p, c) == Deque(clientLog[p][c], clientHead[p][c], ClientRequests, Window)

ClientInv ==
  /\ ClientTypes
  /\ \A p \in Process : Ordered(log[p]) /\ TrackedInOrder(p)
  /\ \A p \in Process, c \in Client : ClientDeque(p, c) /\ Ordered(clientLog[p][c])

\* A log that is appended to stays in order.
LEMMA AppendedInOrder ==
  ASSUME now \in Nat, NEW s \in Stamps, Ordered(s)
  PROVE  Ordered(Append(s, now))
<1> DEFINE t == Append(s, now)
<1>1. /\ Len(s) \in Nat /\ DOMAIN s = 1..Len(s) /\ DOMAIN t = 1..(Len(s) + 1)
      /\ \A i \in 1..Len(s) : t[i] = s[i] /\ s[i] \in Nat
      /\ t[Len(s) + 1] = now
  BY AppendProperties, LenProperties, ElementOfSeq DEF Stamps
<1> HIDE DEF t
<1>2. \A i \in DOMAIN t : t[i] <= now /\ t[i] \in Nat
  BY <1>1 DEF Ordered
<1>3. ASSUME NEW i \in DOMAIN t, NEW j \in DOMAIN t, i <= j PROVE t[i] <= t[j]
  <2>1. CASE j = Len(s) + 1
    BY <1>1, <1>2, <1>3, <2>1
  <2>2. CASE j # Len(s) + 1
    BY <1>1, <1>3, <2>2 DEF Ordered
  <2> QED
    BY <2>1, <2>2
<1> QED
  BY <1>2, <1>3 DEF Ordered, t

\* Sequence u is s without its e-th element, or all of s, without c, if there
\* is no such element.
IsWithout(s, u, c, e) ==
  /\ u \in Seq(Client)
  /\ \/ e <= Len(s) /\ Len(u) = Len(s) - 1
     \/ e = Len(s) + 1 /\ Len(u) = Len(s) /\ Len(s) < MaxTracked
  /\ \A i \in 1..Len(u) : IF i < e THEN u[i] = s[i] ELSE u[i] = s[i + 1]
  /\ \A i \in 1..Len(s) : s[i] = c => i = e

\* Who stays tracked beside client c: all but itself or, if another has to go
\* for it, all but the first.
LEMMA OthersAre ==
  ASSUME NEW p \in Process, NEW c \in Client, tracked[p] \in Seq(Client), Distinct(tracked[p])
  PROVE  \E e \in 1..(Len(tracked[p]) + 1) : IsWithout(tracked[p], Others(p, c), c, e)
<1> DEFINE s == tracked[p]
           u == Others(p, c)
<1>0. DOMAIN s = 1..Len(s)
  BY LenProperties
<1>1. Len(s) \in Nat /\ s \in Seq(Client)
  BY LenProperties
<1>2. IsTracked(p, c) <=> \E i \in 1..Len(s) : s[i] = c
  BY <1>0 DEF IsTracked
<1>3. CASE IsTracked(p, c)
  <2> DEFINE e == CHOOSE i \in DOMAIN s : s[i] = c
  <2>1. e \in 1..Len(s) /\ s[e] = c
    BY <1>0, <1>2, <1>3
  <2>2. u = SubSeq(s, 1, e - 1) \o SubSeq(s, e + 1, Len(s))
    BY <1>3 DEF Others, RemoveAt
  <2> HIDE DEF e
  <2>3. /\ SubSeq(s, 1, e - 1) \in Seq(Client) /\ Len(SubSeq(s, 1, e - 1)) = e - 1
        /\ \A i \in 1..(e - 1) : SubSeq(s, 1, e - 1)[i] = s[i]
        /\ SubSeq(s, e + 1, Len(s)) \in Seq(Client)
        /\ Len(SubSeq(s, e + 1, Len(s))) = Len(s) - e
        /\ \A i \in 1..(Len(s) - e) : SubSeq(s, e + 1, Len(s))[i] = s[i + e]
    <3> HIDE DEF s
    <3>1. \A i \in 1..Len(s) : s[i] \in Client
      BY <1>1, ElementOfSeq
    <3>2. 1 \in Int /\ e - 1 \in Int /\ e + 1 \in Int /\ Len(s) \in Int
          /\ e - 1 \in 0..Len(s) /\ e + 1 \in 2..(Len(s) + 1)
      BY <1>1, <2>1
    <3>3. /\ \A i \in 1..(e - 1) : s[i] \in Client
          /\ \A i \in (e + 1)..Len(s) : s[i] \in Client
      BY <3>1, <3>2
    <3>4. /\ SubSeq(s, 1, e - 1) \in Seq(Client)
          /\ Len(SubSeq(s, 1, e - 1)) = IF 1 <= e - 1 THEN (e - 1) - 1 + 1 ELSE 0
          /\ \A i \in 1..((e - 1) - 1 + 1) : SubSeq(s, 1, e - 1)[i] = s[1 + i - 1]
      BY <3>2, <3>3, SubSeqProperties
    <3>5. /\ SubSeq(s, e + 1, Len(s)) \in Seq(Client)
          /\ Len(SubSeq(s, e + 1, Len(s))) = IF e + 1 <= Len(s) THEN Len(s) - (e + 1) + 1 ELSE 0
          /\ \A i \in 1..(Len(s) - (e + 1) + 1) : SubSeq(s, e + 1, Len(s))[i] = s[(e + 1) + i - 1]
      BY <3>2, <3>3, SubSeqProperties
    <3> DEFINE a == SubSeq(s, 1, e - 1)
               b == SubSeq(s, e + 1, Len(s))
    <3> HIDE DEF a, b
    <3>6. Len(a) = e - 1 /\ \A i \in 1..(e - 1) : a[i] = s[i]
      BY <3>2, <3>4 DEF a
    <3>7. Len(b) = Len(s) - e /\ \A i \in 1..(Len(s) - e) : b[i] = s[i + e]
      <4>1. /\ Len(s) - (e + 1) + 1 = Len(s) - e
            /\ (IF e + 1 <= Len(s) THEN Len(s) - (e + 1) + 1 ELSE 0) = Len(s) - e
            /\ \A i \in 1..(Len(s) - e) : (e + 1) + i - 1 = i + e
        <5>1. \A n \in Nat : \A k \in 1..n :
                /\ n - (k + 1) + 1 = n - k
                /\ (IF k + 1 <= n THEN n - (k + 1) + 1 ELSE 0) = n - k
                /\ \A i \in 1..(n - k) : (k + 1) + i - 1 = i + k
          OBVIOUS
        <5> QED
          BY <1>1, <2>1, <5>1
      <4> QED
        BY <3>5, <4>1 DEF b
    <3> QED
      BY <3>4, <3>5, <3>6, <3>7 DEF a, b
  <2> DEFINE a == SubSeq(s, 1, e - 1)
             b == SubSeq(s, e + 1, Len(s))
  <2>4. /\ u = a \o b /\ a \in Seq(Client) /\ Len(a) = e - 1 /\ \A i \in 1..(e - 1) : a[i] = s[i]
        /\ b \in Seq(Client) /\ Len(b) = Len(s) - e
        /\ \A i \in 1..(Len(s) - e) : b[i] = s[i + e]
    BY <2>2, <2>3
  <2> HIDE DEF s, u, a, b
  <2>5. u \in Seq(Client) /\ Len(u) = Len(s) - 1
    <3>1. a \o b \in Seq(Client) /\ Len(a \o b) = Len(a) + Len(b)
      BY <2>4, ConcatProperties
    <3>2. Len(a) = e - 1 /\ Len(b) = Len(s) - e /\ u = a \o b
      BY <2>4
    <3>3. \A n \in Nat : \A k \in 1..n : (k - 1) + (n - k) = n - 1
      OBVIOUS
    <3>4. Len(s) \in Nat /\ e \in 1..Len(s)
      BY <1>1, <2>1
    <3> QED
      BY <3>1, <3>2, <3>3, <3>4
  <2>6. ASSUME NEW i \in 1..Len(u) PROVE IF i < e THEN u[i] = s[i] ELSE u[i] = s[i + 1]
    <3>1. u[i] = IF i <= Len(a) THEN a[i] ELSE b[i - Len(a)]
      BY <1>1, <2>1, <2>4, <2>5, ConcatProperties
    <3> QED
      BY <1>1, <2>1, <2>4, <2>5, <3>1
  <2>7. \A i \in 1..Len(s) : s[i] = c => i = e
    BY <1>0, <2>1 DEF s, Distinct
  <2> QED
    BY <1>1, <2>1, <2>5, <2>6, <2>7 DEF IsWithout, s, u
<1>4. CASE ~IsTracked(p, c) /\ Len(s) >= MaxTracked
  <2>0. u = Tail(s)
    BY <1>1, <1>4, SettingsAssumption DEF Others, Evicted
  <2>1. Len(s) >= 1
    BY <1>1, <1>4, SettingsAssumption
  <2> HIDE DEF s, u
  <2>2. u \in Seq(Client) /\ Len(u) = Len(s) - 1 /\ \A i \in 1..Len(u) : u[i] = s[i + 1]
    BY <1>1, <2>0, <2>1
  <2>3. IsWithout(s, u, c, 1) /\ 1 \in 1..(Len(s) + 1)
    BY <1>1, <1>2, <1>4, <2>1, <2>2 DEF IsWithout
  <2> QED
    BY <2>3 DEF s, u
<1>5. CASE ~IsTracked(p, c) /\ Len(s) < MaxTracked
  <2>1. u = s
    BY <1>1, <1>5, SettingsAssumption DEF Others, Evicted
  <2> HIDE DEF s, u
  <2>2. IsWithout(s, s, c, Len(s) + 1) /\ Len(s) + 1 \in 1..(Len(s) + 1)
    BY <1>1, <1>2, <1>5 DEF IsWithout
  <2> QED
    BY <2>1, <2>2 DEF s, u
<1> QED
  BY <1>1, <1>3, <1>4, <1>5, SettingsAssumption

\* Every stamp of the client that has to go is out of its window.
LEMMA ForgottenAreExpired ==
  ASSUME now \in Nat, log \in [Process -> Stamps], ClientInv, GlobalRequests <= MaxTracked,
         NEW p \in Process, NEW c \in Client, NEW d \in Evicted(p, c),
         NEW h \in 0..Len(log[p]), \A i \in 1..h : Expired(log[p][i], Window),
         Len(log[p]) - h < GlobalRequests
  PROVE  d \in Client /\ d # c /\ \A i \in DOMAIN clientLog[p][d] : Expired(clientLog[p][d][i], Window)
<1> DEFINE s == tracked[p]
           m == Len(log[p])
           i0 == m - (Len(s) - 1)
<1>1. /\ ~IsTracked(p, c) /\ Len(s) >= MaxTracked /\ d = Head(s)
      /\ s \in Seq(Client) /\ Len(s) \in Nat /\ DOMAIN s = 1..Len(s) /\ m \in Nat
  BY LenProperties DEF Evicted, ClientInv, ClientTypes, Stamps
<1>2. /\ Len(s) >= 1 /\ 1 \in DOMAIN s /\ s[1] = d /\ d \in Client
  BY <1>1, SettingsAssumption
<1>3. d # c
  BY <1>1, <1>2 DEF IsTracked
<1>4. Len(s) <= m /\ i0 \in 1..h
  BY <1>1, <1>2, SettingsAssumption DEF ClientInv, TrackedInOrder
<1>5. Expired(log[p][i0], Window) /\ log[p][i0] \in Nat
  <2>1. log[p] \in Seq(Nat) /\ i0 \in 1..Len(log[p])
    BY <1>1, <1>4 DEF Stamps
  <2> QED
    BY <1>4, <2>1, ElementOfSeq
<1>6. ASSUME NEW j \in DOMAIN clientLog[p][d]
      PROVE  clientLog[p][d][j] \in Nat /\ clientLog[p][d][j] <= log[p][i0]
  <2>1. clientLog[p][d] \in Seq(Nat)
    BY <1>2 DEF ClientInv, ClientTypes, Stamps
  <2>2. clientLog[p][d][j] <= LastAdmission(p, 1)
    BY <1>2, <1>6 DEF ClientInv, TrackedInOrder
  <2> QED
    BY <2>1, <2>2, ElementOfSeq, LenProperties DEF LastAdmission
<1> HIDE DEF i0
<1>7. ASSUME NEW j \in DOMAIN clientLog[p][d] PROVE Expired(clientLog[p][d][j], Window)
  BY <1>5, <1>6, SettingsAssumption DEF Expired
<1> QED
  BY <1>2, <1>3, <1>7

\* Time passes over the clients' deques.
LEMMA ClientsAge ==
  ASSUME WindowInv, ClientInv, now' \in Nat, now <= now',
         UNCHANGED <<log, clientLog, clientHead, tracked>>
  PROVE  ClientInv'
<1>1. now \in Nat /\ Window \in Nat /\ ClientRequests \in Nat
  BY SettingsAssumption DEF WindowInv
<1>2. ASSUME NEW s \in Stamps, Ordered(s) PROVE \A e : e = s => Ordered(e)'
  BY <1>1, <1>2, ElementOfSeq, LenProperties DEF Ordered, Stamps
<1>3. ASSUME NEW p \in Process, NEW c \in Client
      PROVE  ClientDeque(p, c)' /\ Ordered(clientLog[p][c])'
  <2>1. clientLog[p][c] \in Stamps /\ ClientDeque(p, c) /\ Ordered(clientLog[p][c])
    BY DEF ClientInv, ClientTypes
  <2>2. ASSUME NEW i \in 1..clientHead[p][c]
        PROVE  clientLog[p][c][i] + Window <= now'
    <3>1. clientLog[p][c] \in Seq(Nat) /\ i \in 1..Len(clientLog[p][c])
      BY <2>1, LenProperties DEF ClientDeque, Deque, Stamps
    <3>2. clientLog[p][c][i] \in Nat /\ clientLog[p][c][i] + Window <= now
      BY <2>1, <3>1, ElementOfSeq DEF ClientDeque, Deque, Expired
    <3> QED
      BY <1>1, <3>2
  <2>3. ClientDeque(p, c)'
    BY <2>1, <2>2 DEF ClientDeque, Deque, Expired, Spread
  <2>4. Ordered(clientLog[p][c])'
    BY <1>2, <2>1
  <2> QED
    BY <2>3, <2>4
<1>4. ASSUME NEW p \in Process PROVE Ordered(log[p])' /\ TrackedInOrder(p)'
  <2>1. Ordered(log[p])'
    BY <1>2 DEF ClientInv, WindowInv
  <2>2. TrackedInOrder(p)'
    BY DEF ClientInv, TrackedInOrder, LastAdmission
  <2> QED
    BY <2>1, <2>2
<1>5. ClientTypes'
  BY DEF ClientInv, ClientTypes
<1> QED
  BY <1>3, <1>4, <1>5 DEF ClientInv

\* An admission keeps the tracked clients in the order of their requests.
LEMMA AdmitTracks ==
  ASSUME now \in Nat, log \in [Process -> Stamps], ClientInv,
         NEW p \in Process, NEW c \in Client,
         tracked' = [tracked EXCEPT ![p] = Append(Others(p, c), c)],
         clientLog' = [clientLog EXCEPT ![p][c] = Append(@, now)],
         log' = [log EXCEPT ![p] = Append(@, now)]
  PROVE  tracked' \in [Process -> Seq(Client)] /\ TrackedInOrder(p)'
<1> DEFINE s == tracked[p]
           u == Others(p, c)
           t == Append(u, c)
           m == Len(log[p])
<1>0. DOMAIN s = 1..Len(s) /\ DOMAIN log[p] = 1..m
  BY LenProperties DEF ClientInv, ClientTypes, Stamps
<1>1. /\ s \in Seq(Client) /\ Len(s) \in Nat /\ log[p] \in Seq(Nat) /\ m \in Nat
      /\ Len(s) <= MaxTracked /\ Len(s) <= m /\ Distinct(s)
  BY LenProperties DEF ClientInv, ClientTypes, TrackedInOrder, Stamps
<1>2. PICK e \in 1..(Len(s) + 1) : IsWithout(s, u, c, e)
  BY <1>1, OthersAre
<1>3. u \in Seq(Client) /\ Len(u) \in Nat
  BY <1>2, LenProperties DEF IsWithout
<1>4. DOMAIN t = 1..(Len(u) + 1)
  BY <1>3, AppendProperties, LenProperties
<1>5. /\ t \in Seq(Client) /\ Len(t) = Len(u) + 1
      /\ \A i \in 1..Len(u) : t[i] = u[i]
      /\ t[Len(u) + 1] = c
  BY <1>3, AppendProperties, LenProperties
<1>6. /\ tracked'[p] = t /\ tracked' \in [Process -> Seq(Client)]
      /\ clientLog'[p][c] = Append(clientLog[p][c], now)
      /\ \A d \in Client \ {c} : clientLog'[p][d] = clientLog[p][d]
      /\ log'[p] = Append(log[p], now)
  BY <1>5 DEF ClientInv, ClientTypes
<1>7. /\ Len(log'[p]) = m + 1 /\ log'[p][m + 1] = now
      /\ \A i \in 1..m : log'[p][i] = log[p][i] /\ log[p][i] \in Nat
  BY <1>1, <1>6, AppendProperties, ElementOfSeq
<1> HIDE DEF s, u, t, m
<1>8. Len(u) \in Nat /\ Len(u) <= Len(s) /\ Len(t) <= MaxTracked /\ Len(t) <= m + 1
  BY SMTT(30), <1>1, <1>2, <1>3, <1>5, SettingsAssumption DEF IsWithout
<1> DEFINE Old(i) == IF i < e THEN i ELSE i + 1
<1>9. ASSUME NEW i \in 1..Len(u)
      PROVE  /\ Old(i) \in 1..Len(s) /\ t[i] = s[Old(i)] /\ t[i] # c
             /\ m - (Len(u) - i) \in 1..m
             /\ m - (Len(s) - Old(i)) \in 1..m
             /\ m - (Len(s) - Old(i)) <= m - (Len(u) - i)
  <2>1. CASE i < e
    <3>1. Old(i) = i /\ t[i] = s[i]
      BY <1>2, <1>5, <2>1 DEF IsWithout
    <3>2. i \in 1..Len(s) /\ i # e /\ Len(u) - i <= Len(s) - i
      BY <1>1, <1>8, <2>1
    <3>3. t[i] # c
      BY <1>2, <3>1, <3>2 DEF IsWithout
    <3>4. /\ m - (Len(u) - i) \in 1..m /\ m - (Len(s) - i) \in 1..m
          /\ m - (Len(s) - i) <= m - (Len(u) - i)
      BY <1>1, <1>8, <3>2
    <3> HIDE DEF Old
    <3> QED
      BY <3>1, <3>2, <3>3, <3>4
  <2>2. CASE ~ (i < e)
    <3>1. Old(i) = i + 1 /\ t[i] = s[i + 1]
      BY <1>2, <1>5, <2>2 DEF IsWithout
    <3>2. i + 1 \in 1..Len(s) /\ i + 1 # e /\ Len(u) - i <= Len(s) - (i + 1)
      BY <1>1, <1>2, <1>8, <2>2 DEF IsWithout
    <3>3. t[i] # c
      BY <1>2, <3>1, <3>2 DEF IsWithout
    <3>4. /\ m - (Len(u) - i) \in 1..m /\ m - (Len(s) - (i + 1)) \in 1..m
          /\ m - (Len(s) - (i + 1)) <= m - (Len(u) - i)
      BY SMTT(30), <1>1, <1>8, <3>2
    <3> HIDE DEF Old
    <3> QED
      BY <3>1, <3>2, <3>3, <3>4
  <2> QED
    BY <2>1, <2>2
<1>10. ASSUME NEW i \in DOMAIN t, NEW j \in DOMAIN t, t[i] = t[j] PROVE i = j
  <2>1. CASE i \in 1..Len(u) /\ j \in 1..Len(u)
    <3>1. Old(i) = Old(j)
      BY <1>0, <1>1, <1>9, <1>10, <2>1 DEF Distinct
    <3> QED
      BY <1>8, <2>1, <3>1
  <2>2. CASE i = Len(u) + 1 \/ j = Len(u) + 1
    BY <1>4, <1>5, <1>8, <1>9, <1>10, <2>2
  <2> QED
    BY <1>4, <1>8, <2>1, <2>2
<1>11. ASSUME NEW i \in DOMAIN t, NEW j \in DOMAIN clientLog'[p][t[i]]
       PROVE  clientLog'[p][t[i]][j] <= log'[p][(m + 1) - (Len(t) - i)]
  <2>1. CASE i = Len(u) + 1
    <3>1. (m + 1) - (Len(t) - i) = m + 1
      BY <1>1, <1>5, <1>8, <2>1
    <3>2. Ordered(Append(clientLog[p][c], now))
      BY AppendedInOrder DEF ClientInv, ClientTypes
    <3>3. t[i] = c /\ clientLog'[p][t[i]] = Append(clientLog[p][c], now)
      BY <1>5, <1>6, <2>1
    <3>4. clientLog'[p][t[i]][j] <= now
      BY <1>11, <3>2, <3>3 DEF Ordered
    <3> QED
      BY <1>7, <3>1, <3>4
  <2>2. CASE i \in 1..Len(u)
    <3> DEFINE a == m - (Len(s) - Old(i))
               b == m - (Len(u) - i)
    <3>1. a \in 1..m /\ b \in 1..m /\ a <= b /\ t[i] = s[Old(i)] /\ t[i] # c
          /\ Old(i) \in 1..Len(s)
      BY <1>9, <2>2
    <3>2. (m + 1) - (Len(t) - i) = b
      BY <1>1, <1>5, <1>8, <2>2
    <3>3. t[i] \in Client /\ clientLog'[p][t[i]] = clientLog[p][t[i]]
      BY <1>5, <1>6, <3>1, ElementOfSeq
    <3>4. clientLog[p][t[i]][j] \in Nat
      <4>1. clientLog[p][t[i]] \in Seq(Nat)
        BY <3>3 DEF ClientInv, ClientTypes, Stamps
      <4> QED
        BY <1>11, <3>3, <4>1, ElementOfSeq, LenProperties
    <3>5. clientLog[p][t[i]][j] <= log[p][a]
      <4>1. \A k \in DOMAIN s : \A l \in DOMAIN clientLog[p][s[k]] :
              clientLog[p][s[k]][l] <= log[p][m - (Len(s) - k)]
        BY DEF ClientInv, TrackedInOrder, LastAdmission, s, m
      <4> QED
        BY <1>0, <1>11, <3>1, <3>3, <4>1
    <3> HIDE DEF a, b
    <3>6. log[p][a] <= log[p][b]
      BY <1>0, <3>1 DEF ClientInv, Ordered
    <3>7. log[p][a] \in Nat /\ log[p][b] \in Nat /\ log'[p][b] = log[p][b]
      BY <1>7, <3>1
    <3>8. clientLog[p][t[i]][j] <= log[p][b]
      BY <3>4, <3>5, <3>6, <3>7
    <3> QED
      BY <3>2, <3>3, <3>7, <3>8
  <2>3. i = Len(u) + 1 \/ i \in 1..Len(u)
    BY <1>4, <1>8
  <2> QED
    BY <2>1, <2>2, <2>3
<1> QED
  BY <1>6, <1>7, <1>8, <1>10, <1>11 DEF TrackedInOrder, LastAdmission, Distinct

\* acquire keeps the deques of the clients, those it forgets included.
LEMMA AcquireClients ==
  ASSUME WindowInv, ClientInv, GlobalRequests <= MaxTracked,
         NEW r \in Call, call[r] \in [process : Process, client : Client], Acquire(r)
  PROVE  ClientInv'
<1>a. PICK p \in Process, c \in Client : p = call[r].process /\ c = call[r].client
  OBVIOUS
<1> DEFINE s == clientLog[p][c]
<1>0. PICK h \in 0..Len(log[p]), dh \in 0..Len(log[p]), ch \in 0..Len(s) :
        /\ IsPruned(log[p], head[p], h, Window)
        /\ IsPruned(s, clientHead[p][c], ch, Window)
        /\ \/ \E k, width, limit : Refuse(r, log[p], k, width, limit) /\ UNCHANGED clientHead
           \/ /\ Refuse(r, s, ch, Window, "client")
              /\ clientHead' = [clientHead EXCEPT ![p][c] = ch]
           \/ CapacityRefusal(r, p, c, ch)
           \/ /\ Len(log[p]) - h < GlobalRequests /\ Len(s) - ch < ClientRequests
              /\ Admit(r, p, c, ch)
  BY ZenonT(60), <1>a DEF Acquire
<1>1. /\ IsPruned(log[p], head[p], h, Window)
      /\ IsPruned(s, clientHead[p][c], ch, Window)
      /\ now' = now
      /\ \/ UNCHANGED <<log, clientLog, tracked, clientHead>>
         \/ /\ UNCHANGED <<log, clientLog, tracked>>
            /\ clientHead' = [clientHead EXCEPT ![p][c] = ch]
         \/ /\ Len(log[p]) - h < GlobalRequests /\ Len(s) - ch < ClientRequests
            /\ Admit(r, p, c, ch)
  <2>1. Admit(r, p, c, ch) => now' = now
    BY DEF Admit
  <2> HIDE DEF s
  <2> QED
    BY <1>0, <2>1 DEF Refuse, CapacityRefusal
<1>2. /\ p \in Process /\ c \in Client /\ now \in Nat /\ h \in Nat /\ ch \in Nat
      /\ s \in Stamps /\ log[p] \in Stamps /\ log \in [Process -> Stamps]
      /\ clientLog \in [Process -> [Client -> Stamps]]
      /\ clientHead \in [Process -> [Client -> Nat]]
  <2>2. s \in Stamps /\ log[p] \in Stamps
    BY DEF WindowInv, ClientInv, ClientTypes
  <2>3. h \in Nat /\ ch \in Nat
    BY <2>2, LenProperties DEF Stamps
  <2> QED
    BY <2>2, <2>3 DEF WindowInv, ClientInv, ClientTypes
<1>3. Deque(s, ch, ClientRequests, Window)
  <2>1. Deque(s, clientHead[p][c], ClientRequests, Window) /\ clientHead[p][c] \in Nat
    BY <1>2 DEF ClientInv, ClientDeque
  <2> QED
    BY <1>1, <1>2, <2>1, PrunedDeque, SettingsAssumption
<1>4. CASE UNCHANGED <<log, clientLog, tracked, clientHead>>
  BY <1>1, <1>2, <1>4, ClientsAge
<1>5. CASE UNCHANGED <<log, clientLog, tracked>> /\ clientHead' = [clientHead EXCEPT ![p][c] = ch]
  <2>1. clientHead' \in [Process -> [Client -> Nat]] /\ clientHead'[p][c] = ch
        /\ \A q \in Process, d \in Client :
             q # p \/ d # c => clientHead'[q][d] = clientHead[q][d]
    BY <1>2, <1>5
  <2>2. ASSUME NEW q \in Process, NEW d \in Client PROVE ClientDeque(q, d)'
    <3>1. Deque(clientLog[q][d], clientHead'[q][d], ClientRequests, Window)
      BY <1>3, <2>1 DEF ClientInv, ClientDeque
    <3> QED
      BY <1>1, <1>5, <3>1 DEF ClientDeque, Deque, Expired, Spread
  <2>3. ClientTypes'
    BY <1>5, <2>1 DEF ClientInv, ClientTypes
  <2>4. ASSUME NEW q \in Process, NEW d \in Client
        PROVE  Ordered(log[q])' /\ TrackedInOrder(q)' /\ Ordered(clientLog[q][d])'
    BY <1>1, <1>5 DEF ClientInv, TrackedInOrder, LastAdmission, Ordered
  <2>5. ASSUME NEW q \in Process PROVE Ordered(log[q])' /\ TrackedInOrder(q)'
    BY <1>1, <1>5 DEF ClientInv, TrackedInOrder, LastAdmission, Ordered
  <2> QED
    BY <2>2, <2>3, <2>4, <2>5 DEF ClientInv
<1>6. CASE /\ Len(log[p]) - h < GlobalRequests /\ Len(s) - ch < ClientRequests
           /\ Admit(r, p, c, ch)
  <2>1. /\ tracked' = [tracked EXCEPT ![p] = Append(Others(p, c), c)]
        /\ clientLog' = [clientLog EXCEPT ![p][c] = Append(@, now)]
        /\ log' = [log EXCEPT ![p] = Append(@, now)]
        /\ clientHead' = [clientHead EXCEPT ![p] =
              [d \in Client |-> IF d \in Evicted(p, c) THEN Len(clientLog[p][d])
                                ELSE IF d = c THEN ch ELSE @[d]]]
    BY <1>6 DEF Admit
  <2>2. tracked' \in [Process -> Seq(Client)] /\ TrackedInOrder(p)'
    <3>1. p \in Process /\ c \in Client /\ now \in Nat /\ log \in [Process -> Stamps]
      BY <1>2
    <3>2. /\ tracked' = [tracked EXCEPT ![p] = Append(Others(p, c), c)]
          /\ clientLog' = [clientLog EXCEPT ![p][c] = Append(@, now)]
          /\ log' = [log EXCEPT ![p] = Append(@, now)]
      BY <2>1
    <3> HIDE DEF s
    <3> QED
      BY <3>1, <3>2, AdmitTracks
  <2>3. /\ clientLog'[p][c] = Append(s, now) /\ log'[p] = Append(log[p], now)
        /\ \A d \in Client \ {c} : clientLog'[p][d] = clientLog[p][d]
        /\ \A q \in Process \ {p} : /\ clientLog'[q] = clientLog[q] /\ log'[q] = log[q]
                                    /\ tracked'[q] = tracked[q]
                                    /\ clientHead'[q] = clientHead[q]
    BY <1>2, <2>1 DEF ClientInv, ClientTypes
  <2>4. /\ \A d \in Client : clientHead'[p][d] =
             IF d \in Evicted(p, c) THEN Len(clientLog[p][d])
             ELSE IF d = c THEN ch ELSE clientHead[p][d]
        /\ \A d \in Client : Len(clientLog[p][d]) \in Nat /\ clientHead[p][d] \in Nat
    BY <1>2, <2>1, LenProperties DEF Stamps
  <2>5. Append(s, now) \in Stamps /\ Deque(Append(s, now), ch, ClientRequests, Window)
    BY <1>2, <1>3, <1>6, AppendedDeque, SettingsAssumption
  <2>6. /\ clientLog' \in [Process -> [Client -> Stamps]]
        /\ clientHead' \in [Process -> [Client -> Nat]]
    <3>1. \A d \in Client : (IF d \in Evicted(p, c) THEN Len(clientLog[p][d])
                             ELSE IF d = c THEN ch ELSE clientHead[p][d]) \in Nat
      BY <1>2, <2>4
    <3> QED
      BY <1>2, <2>1, <2>5, <3>1
  <2>7. ASSUME NEW d \in Client
        PROVE  Deque(clientLog'[p][d], clientHead'[p][d], ClientRequests, Window)
    <3>1. CASE d \in Evicted(p, c)
      <4>1. \A i \in 1..h : Expired(log[p][i], Window)
        <5>1. Deque(log[p], h, GlobalRequests, Window)
          <6>1. Deque(log[p], head[p], GlobalRequests, Window) /\ head[p] \in Nat
            BY <1>2 DEF WindowInv
          <6> QED
            BY <1>1, <1>2, <6>1, PrunedDeque, SettingsAssumption
        <5> QED
          BY <5>1 DEF Deque
      <4>2. d # c /\ \A i \in DOMAIN clientLog[p][d] : Expired(clientLog[p][d][i], Window)
        BY <1>2, <1>6, <3>1, <4>1, ForgottenAreExpired
      <4>3. DOMAIN clientLog[p][d] = 1..Len(clientLog[p][d])
        BY <1>2, LenProperties DEF Stamps
      <4>4. clientLog'[p][d] = clientLog[p][d] /\ clientHead'[p][d] = Len(clientLog[p][d])
        BY <2>3, <2>4, <3>1, <4>2
      <4>5. Spread(clientLog[p][d], ClientRequests, Window)
        BY <1>2 DEF ClientInv, ClientDeque, Deque
      <4>6. /\ Len(clientLog[p][d]) \in 0..Len(clientLog[p][d])
            /\ Len(clientLog[p][d]) - Len(clientLog[p][d]) <= ClientRequests
        BY <2>4, SettingsAssumption
      <4> QED
        BY <4>2, <4>3, <4>4, <4>5, <4>6 DEF Deque
    <3>2. CASE d \notin Evicted(p, c) /\ d = c
      BY <2>3, <2>4, <2>5, <3>2
    <3>3. CASE d \notin Evicted(p, c) /\ d # c
      BY <1>2, <2>3, <2>4, <3>3 DEF ClientInv, ClientDeque
    <3> QED
      BY <3>1, <3>2, <3>3
  <2>8. ASSUME NEW q \in Process, NEW d \in Client
        PROVE  ClientDeque(q, d)' /\ Ordered(clientLog[q][d])'
    <3>1. Deque(clientLog'[q][d], clientHead'[q][d], ClientRequests, Window)
      BY <2>3, <2>7 DEF ClientInv, ClientDeque
    <3>2. Ordered(clientLog'[q][d])
      <4>1. Ordered(Append(s, now))
        BY <1>2, AppendedInOrder DEF ClientInv
      <4> QED
        BY <1>2, <2>3, <4>1 DEF ClientInv
    <3> QED
      BY <1>1, <3>1, <3>2 DEF ClientDeque, Deque, Expired, Spread, Ordered
  <2>9. ASSUME NEW q \in Process PROVE Ordered(log[q])' /\ TrackedInOrder(q)'
    <3>1. Ordered(log'[q])
      <4>1. Ordered(Append(log[p], now))
        BY <1>2, AppendedInOrder DEF ClientInv
      <4> QED
        BY <1>2, <2>3, <4>1 DEF ClientInv
    <3>2. Ordered(log[q])'
      BY <1>1, <3>1 DEF Ordered
    <3>3. TrackedInOrder(q)'
      <4>1. CASE q = p
        BY <2>2, <4>1
      <4>2. CASE q # p
        <5>1. clientLog'[q] = clientLog[q] /\ log'[q] = log[q] /\ tracked'[q] = tracked[q]
          BY <2>3, <4>2
        <5>2. TrackedInOrder(q)
          BY DEF ClientInv
        <5> QED
          BY <5>1, <5>2 DEF TrackedInOrder, LastAdmission, Distinct
      <4> QED
        BY <4>1, <4>2
    <3> QED
      BY <3>2, <3>3
  <2> QED
    BY <2>2, <2>6, <2>8, <2>9 DEF ClientInv, ClientTypes
<1> QED
  BY <1>1, <1>4, <1>5, <1>6

-----------------------------------------------------------------------------
(***************************************************************************)
(* Retry-After.                                                            *)
(***************************************************************************)

\* What the last refusal of thread r was about: the deque that was full, its
\* window and its limit.
FullLog(r) == IF hint[r].limit = "client" THEN clientLog[call[r].process][call[r].client]
                                          ELSE log[call[r].process]

WidthOf(limit) == IF limit = "daily" THEN DailyWindow ELSE Window

LimitOf(limit) == CASE limit = "daily" -> LocalDaily
                    [] limit = "client" -> ClientRequests
                    [] OTHER -> GlobalRequests

\* The stamp that has to leave the window before there is room, the first of
\* as many as the limit, leaves it by the time the hint says.
IsLongEnough(s, size, due, limit) ==
  /\ LimitOf(limit) <= size /\ size <= Len(s)
  /\ s[size - LimitOf(limit) + 1] + WidthOf(limit) <= due

HintInv ==
  /\ hint \in [Call -> Hint]
  /\ \A r \in Call : hint[r].limit # "none" =>
       IsLongEnough(FullLog(r), hint[r].size, hint[r].due, hint[r].limit)

\* The limits and windows are positive.
LEMMA LimitsArePositive == \A limit : LimitOf(limit) \in Nat \ {0} /\ WidthOf(limit) \in Nat \ {0}
BY SettingsAssumption DEF LimitOf, WidthOf

\* A hint stays long enough while its deque grows.
LEMMA LongEnoughStays ==
  ASSUME NEW s \in Stamps, NEW t, t = s \/ \E x \in Nat : t = Append(s, x),
         NEW size \in Nat, NEW due, NEW limit, IsLongEnough(s, size, due, limit)
  PROVE  IsLongEnough(t, size, due, limit)
<1>1. Len(s) \in Nat /\ Len(s) <= Len(t) /\ \A i \in 1..Len(s) : t[i] = s[i]
  BY SMTT(30), LenProperties, AppendProperties DEF Stamps
<1>2. size - LimitOf(limit) + 1 \in 1..Len(s)
  BY <1>1, LimitsArePositive DEF IsLongEnough
<1> QED
  BY <1>1, <1>2 DEF IsLongEnough

\* The hint of a refusal by a full deque.
LEMMA RefusalIsLongEnough ==
  ASSUME now \in Nat, NEW s \in Stamps, NEW k \in 0..Len(s), NEW limit,
         Len(s) - k = LimitOf(limit)
  PROVE  /\ now + RetryAfter(s[k + 1], WidthOf(limit)) \in Nat /\ Len(s) \in Nat
         /\ IsLongEnough(s, Len(s), now + RetryAfter(s[k + 1], WidthOf(limit)), limit)
<1>1. Len(s) \in Nat /\ LimitOf(limit) \in Nat \ {0} /\ WidthOf(limit) \in Nat
  BY LenProperties, LimitsArePositive DEF Stamps
<1>2. k + 1 \in 1..Len(s) /\ Len(s) - LimitOf(limit) + 1 = k + 1
  BY <1>1
<1>3. s[k + 1] \in Nat
  BY <1>2, ElementOfSeq DEF Stamps
<1>4. /\ now + RetryAfter(s[k + 1], WidthOf(limit)) \in Nat
      /\ s[k + 1] + WidthOf(limit) <= now + RetryAfter(s[k + 1], WidthOf(limit))
  <2> DEFINE e == s[k + 1] + WidthOf(limit)
  <2>1. e \in Nat
    BY <1>1, <1>3
  <2>2. CASE e > now + 1
    <3>1. RetryAfter(s[k + 1], WidthOf(limit)) = e - now
      BY <1>1, <1>3, <2>2 DEF RetryAfter
    <3> HIDE DEF e
    <3> QED
      BY <2>1, <3>1 DEF e
  <2>3. CASE ~ (e > now + 1)
    <3>1. RetryAfter(s[k + 1], WidthOf(limit)) = 1
      BY <2>3 DEF RetryAfter
    <3> HIDE DEF e
    <3> QED
      BY <2>1, <2>3, <3>1 DEF e
  <2> QED
    BY <2>2, <2>3
<1>5. LimitOf(limit) <= Len(s)
  BY <1>1
<1> QED
  BY <1>1, <1>2, <1>4, <1>5 DEF IsLongEnough

\* Steps that refuse nothing and leave the deques alone.
LEMMA QuietHints ==
  ASSUME HintInv, UNCHANGED <<log, clientLog>>, hint' \in [Call -> Hint],
         \A r \in Call : hint'[r] = NoHint \/ (hint'[r] = hint[r] /\ call'[r] = call[r])
  PROVE  HintInv'
<1> SUFFICES ASSUME NEW r \in Call, hint'[r].limit # "none"
             PROVE  IsLongEnough(FullLog(r), hint[r].size, hint[r].due, hint[r].limit)'
  BY DEF HintInv
<1>1. hint'[r] = hint[r] /\ call'[r] = call[r]
  BY DEF NoHint
<1>2. IsLongEnough(FullLog(r), hint[r].size, hint[r].due, hint[r].limit)
  BY <1>1 DEF HintInv
<1> QED
  BY <1>1, <1>2 DEF IsLongEnough, FullLog, LimitOf, WidthOf

\* A refusal by deque s leaves the hint it computes and changes no deque.
LEMMA RefusalHints ==
  ASSUME HintInv, now \in Nat, NEW r \in Call, NEW limit \in {"daily", "global", "client"},
         NEW s \in Stamps, NEW k \in 0..Len(s), Len(s) - k = LimitOf(limit),
         s = (IF limit = "client" THEN clientLog[call[r].process][call[r].client]
                                  ELSE log[call[r].process]),
         Refuse(r, s, k, WidthOf(limit), limit)
  PROVE  HintInv'
<1> DEFINE due == now + RetryAfter(s[k + 1], WidthOf(limit))
           new == [due |-> due, size |-> Len(s), limit |-> limit]
<1>1. hint' = [hint EXCEPT ![r] = new] /\ UNCHANGED <<log, clientLog, call>>
  BY DEF Refuse
<1>2. due \in Nat /\ Len(s) \in Nat /\ IsLongEnough(s, Len(s), due, limit)
  BY RefusalIsLongEnough
<1> HIDE DEF due
<1>3. new \in Hint /\ new.limit = limit /\ new.size = Len(s) /\ new.due = due
  BY <1>2 DEF Hint
<1> HIDE DEF new
<1>4. hint' \in [Call -> Hint] /\ hint'[r] = new /\ \A q \in Call \ {r} : hint'[q] = hint[q]
  BY <1>1, <1>3 DEF HintInv
<1>5. ASSUME NEW q \in Call, hint'[q].limit # "none"
      PROVE  IsLongEnough(FullLog(q), hint[q].size, hint[q].due, hint[q].limit)'
  <2>1. CASE q = r
    <3>1. FullLog(q)' = s
      BY <1>1, <1>3, <1>4, <2>1 DEF FullLog
    <3> QED
      BY <1>2, <1>3, <1>4, <2>1, <3>1 DEF IsLongEnough, LimitOf, WidthOf
  <2>2. CASE q # r
    <3>1. hint'[q] = hint[q] /\ FullLog(q)' = FullLog(q)
      BY <1>1, <1>4, <2>2 DEF FullLog
    <3>2. IsLongEnough(FullLog(q), hint[q].size, hint[q].due, hint[q].limit)
      BY <1>5, <3>1 DEF HintInv
    <3> QED
      BY <3>1, <3>2 DEF IsLongEnough, LimitOf, WidthOf
  <2> QED
    BY <2>1, <2>2
<1> QED
  BY <1>4, <1>5 DEF HintInv

\* acquire: a refusal leaves a hint that is long enough, an admission none.
LEMMA AcquireHints ==
  ASSUME WindowInv, ClientInv, HintInv, NEW r \in Call,
         call \in [Call -> [process : Process, client : Client]], Acquire(r)
  PROVE  HintInv'
<1>1. PICK p \in Process, c \in Client : p = call[r].process /\ c = call[r].client
  OBVIOUS
<1>2. PICK s, t : s = log[p] /\ t = clientLog[p][c]
  OBVIOUS
<1>3. PICK h \in 0..Len(s), dh \in 0..Len(s), ch \in 0..Len(t) :
        /\ IsPruned(s, head[p], h, Window)
        /\ IsPruned(s, dailyHead[p], dh, DailyWindow)
        /\ IsPruned(t, clientHead[p][c], ch, Window)
        /\ \/ Len(s) - dh >= LocalDaily /\ Refuse(r, s, dh, DailyWindow, "daily")
           \/ Len(s) - h >= GlobalRequests /\ Refuse(r, s, h, Window, "global")
           \/ Len(t) - ch >= ClientRequests /\ Refuse(r, t, ch, Window, "client")
           \/ CapacityRefusal(r, p, c, ch)
           \/ Admit(r, p, c, ch)
  BY ZenonT(60), <1>1, <1>2 DEF Acquire
<1>4. /\ now \in Nat /\ s \in Stamps /\ t \in Stamps
      /\ head[p] \in Nat /\ dailyHead[p] \in Nat /\ clientHead[p][c] \in Nat
      /\ Deque(s, head[p], GlobalRequests, Window)
      /\ Deque(s, dailyHead[p], LocalDaily, DailyWindow)
      /\ Deque(t, clientHead[p][c], ClientRequests, Window)
  BY <1>2 DEF WindowInv, ClientInv, ClientTypes, ClientDeque
<1>5. Len(s) \in Nat /\ Len(t) \in Nat /\ h \in Nat /\ dh \in Nat /\ ch \in Nat
  BY <1>4, LenProperties DEF Stamps
<1>6. /\ Len(s) - h <= GlobalRequests /\ Len(s) - dh <= LocalDaily
      /\ Len(t) - ch <= ClientRequests
  <2>1. /\ Len(s) - head[p] <= GlobalRequests /\ Len(s) - dailyHead[p] <= LocalDaily
        /\ Len(t) - clientHead[p][c] <= ClientRequests
    BY <1>4 DEF Deque
  <2>2. h >= head[p] /\ dh >= dailyHead[p] /\ ch >= clientHead[p][c]
    BY <1>3, <1>4, <1>5 DEF IsPruned
  <2>3. /\ GlobalRequests \in Nat /\ LocalDaily \in Nat /\ ClientRequests \in Nat
        /\ head[p] \in Nat /\ dailyHead[p] \in Nat /\ clientHead[p][c] \in Nat
    BY <1>4, SettingsAssumption
  <2>4. Len(s) - h <= GlobalRequests
    BY <1>5, <2>1, <2>2, <2>3
  <2>5. Len(s) - dh <= LocalDaily
    BY <1>5, <2>1, <2>2, <2>3
  <2>6. Len(t) - ch <= ClientRequests
    BY <1>5, <2>1, <2>2, <2>3
  <2> QED
    BY <2>4, <2>5, <2>6
<1>7. CASE Len(s) - dh >= LocalDaily /\ Refuse(r, s, dh, DailyWindow, "daily")
  <2>1. LocalDaily = LimitOf("daily") /\ DailyWindow = WidthOf("daily")
    BY DEF LimitOf, WidthOf
  <2>2. Len(s) - dh = LimitOf("daily")
    BY <1>5, <1>6, <1>7, <2>1, SettingsAssumption
  <2> QED
    BY <1>1, <1>2, <1>4, <1>7, <2>1, <2>2, RefusalHints
<1>8. CASE Len(s) - h >= GlobalRequests /\ Refuse(r, s, h, Window, "global")
  <2>1. Len(s) - h = LimitOf("global") /\ Window = WidthOf("global")
    BY SMTT(30), <1>5, <1>6, <1>8, SettingsAssumption DEF LimitOf, WidthOf
  <2> QED
    BY <1>1, <1>2, <1>4, <1>8, <2>1, RefusalHints
<1>9. CASE Len(t) - ch >= ClientRequests /\ Refuse(r, t, ch, Window, "client")
  <2>1. Len(t) - ch = LimitOf("client") /\ Window = WidthOf("client")
    BY SMTT(30), <1>5, <1>6, <1>9, SettingsAssumption DEF LimitOf, WidthOf
  <2> QED
    BY <1>1, <1>2, <1>4, <1>9, <2>1, RefusalHints
<1>10. NoHint \in Hint /\ NoHint.limit = "none"
  BY DEF NoHint, Hint
<1>11. CASE CapacityRefusal(r, p, c, ch)
  <2>1. hint' = [hint EXCEPT ![r] = NoHint] /\ UNCHANGED <<log, clientLog, call>>
    BY <1>11 DEF CapacityRefusal
  <2> QED
    BY <1>10, <2>1, QuietHints DEF HintInv
<1>12. CASE Admit(r, p, c, ch)
  <2>1. /\ hint' = [hint EXCEPT ![r] = NoHint] /\ call' = call
        /\ log' = [log EXCEPT ![p] = Append(@, now)]
        /\ clientLog' = [clientLog EXCEPT ![p][c] = Append(@, now)]
    BY <1>12 DEF Admit
  <2>2. /\ hint' \in [Call -> Hint] /\ hint'[r] = NoHint
        /\ \A q \in Call \ {r} : hint'[q] = hint[q]
    BY <1>10, <2>1 DEF HintInv
  <2>3. ASSUME NEW q \in Process, NEW d \in Client
        PROVE  /\ log[q] \in Stamps /\ clientLog[q][d] \in Stamps
               /\ log'[q] = log[q] \/ log'[q] = Append(log[q], now)
               /\ \/ clientLog'[q][d] = clientLog[q][d]
                  \/ clientLog'[q][d] = Append(clientLog[q][d], now)
    BY <2>1 DEF WindowInv, ClientInv, ClientTypes
  <2>4. ASSUME NEW q \in Call, hint'[q].limit # "none"
        PROVE  IsLongEnough(FullLog(q), hint[q].size, hint[q].due, hint[q].limit)'
    <3>1. q # r /\ hint'[q] = hint[q] /\ call'[q] = call[q]
          /\ call[q].process \in Process /\ call[q].client \in Client
      BY <1>10, <2>1, <2>2, <2>4
    <3>2. IsLongEnough(FullLog(q), hint[q].size, hint[q].due, hint[q].limit)
      BY <2>4, <3>1 DEF HintInv
    <3>3. /\ FullLog(q) \in Stamps
          /\ FullLog(q)' = FullLog(q) \/ FullLog(q)' = Append(FullLog(q), now)
      BY <2>3, <3>1 DEF FullLog
    <3>4. PICK a, b : a = FullLog(q) /\ b = FullLog(q)'
      OBVIOUS
    <3>5. hint[q].size \in Nat
      BY DEF HintInv, Hint
    <3>6. IsLongEnough(b, hint[q].size, hint[q].due, hint[q].limit)
      BY <1>4, <3>2, <3>3, <3>4, <3>5, LongEnoughStays
    <3> QED
      BY <3>1, <3>4, <3>6 DEF IsLongEnough, LimitOf, WidthOf
  <2> QED
    BY <2>2, <2>4 DEF HintInv
<1> QED
  BY <1>3, <1>7, <1>8, <1>9, <1>11, <1>12

\* Once the hint has passed, and nobody was admitted meanwhile, fewer stamps
\* than the limit are left in the window.
LEMMA HintsSuffice ==
  ASSUME WindowInv, ClientInv, HintInv,
         call \in [Call -> [process : Process, client : Client]]
  PROVE  RetryAfterSuffices
<1> SUFFICES ASSUME NEW r \in Call, hint[r].limit # "none", now >= hint[r].due,
                    Len(FullLog(r)) = hint[r].size
             PROVE  Cardinality({i \in DOMAIN FullLog(r) :
                                   ~Expired(FullLog(r)[i], WidthOf(hint[r].limit))})
                      < LimitOf(hint[r].limit)
  BY DEF RetryAfterSuffices, FullLog, WidthOf, LimitOf
<1>1. PICK s, n, width : s = FullLog(r) /\ n = LimitOf(hint[r].limit)
                         /\ width = WidthOf(hint[r].limit)
  OBVIOUS
<1>2. /\ s \in Stamps /\ Ordered(s)
      /\ n \in Nat \ {0} /\ width \in Nat /\ now \in Nat /\ hint[r].due \in Nat
  BY <1>1, LimitsArePositive DEF FullLog, WindowInv, ClientInv, ClientTypes, HintInv, Hint
<1>3. Len(s) \in Nat /\ DOMAIN s = 1..Len(s) /\ \A i \in 1..Len(s) : s[i] \in Nat
  BY <1>2, LenProperties, ElementOfSeq DEF Stamps
<1>4. n <= Len(s) /\ s[Len(s) - n + 1] + width <= hint[r].due
  BY <1>1 DEF HintInv, IsLongEnough
<1> DEFINE j == Len(s) - n + 1
<1>5. j \in 1..Len(s) /\ s[j] + width <= now /\ Len(s) - j = n - 1
  BY <1>2, <1>3, <1>4
<1> HIDE DEF j
<1> DEFINE Left == {i \in DOMAIN s : ~Expired(s[i], width)}
<1>6. ASSUME NEW i \in Left PROVE i \in (j + 1)..Len(s)
  <2>1. i <= j => s[i] <= s[j]
    BY <1>2, <1>3, <1>5 DEF Ordered
  <2> QED
    BY <1>2, <1>3, <1>5, <2>1 DEF Expired
<1>7. IsFiniteSet((j + 1)..Len(s)) /\ Cardinality((j + 1)..Len(s)) = n - 1
  <2>1. IsFiniteSet((j + 1)..Len(s)) /\ Cardinality((j + 1)..Len(s)) =
          IF j + 1 > Len(s) THEN 0 ELSE Len(s) - (j + 1) + 1
    <3>1. j + 1 \in Int /\ Len(s) \in Int
      BY <1>3, <1>5
    <3> QED
      BY <3>1, FS_Interval
  <2>2. CASE j + 1 > Len(s)
    BY <1>2, <1>3, <1>5, <2>1, <2>2
  <2>3. CASE ~ (j + 1 > Len(s))
    BY <1>2, <1>3, <1>5, <2>1, <2>3
  <2> QED
    BY <2>2, <2>3
<1>8. Left \subseteq (j + 1)..Len(s)
  BY <1>6
<1> HIDE DEF Left
<1>9. IsFiniteSet(Left) /\ Cardinality(Left) <= n - 1
  BY <1>7, <1>8, FS_Subset
<1>10. Cardinality(Left) < n
  BY <1>2, <1>9, FS_CardinalityType
<1> QED
  BY <1>1, <1>10 DEF Left

-----------------------------------------------------------------------------
(***************************************************************************)
(* Leases, slots and the budget.                                           *)
(***************************************************************************)

Waiting(p) == {r \in Holding(p) : pc[r] = "leased"}

CountTypes ==
  /\ now \in Nat
  /\ log \in [Process -> Stamps]
  /\ active \in [Process -> Nat]
  /\ wasted \in [Process -> Nat] /\ served \in [Process -> Nat]
  /\ today \in 0..MaxDay /\ usage \in [0..MaxDay -> Nat]
  /\ pc \in [Call -> {"idle", "leased", "running"}]
  /\ call \in [Call -> [process : Process, client : Client]]

\* The counters of one process.
Counted(p) ==
  /\ IsFiniteSet(Holding(p))
  /\ active[p] = Cardinality(Holding(p))
  /\ active[p] <= MaxConcurrency
  /\ Len(log[p]) = served[p] + wasted[p] + Cardinality(Waiting(p))

CountInv ==
  /\ CountTypes
  /\ \A p \in Process : Counted(p)
  /\ \A d \in 0..MaxDay : usage[d] <= DailyRequests

\* The sets of leases that are held and waiting, and their sizes.
LEMMA Sizes ==
  ASSUME CountInv, NEW p \in Process
  PROVE  /\ Cardinality(Holding(p)) \in Nat
         /\ IsFiniteSet(Waiting(p)) /\ Cardinality(Waiting(p)) \in Nat
         /\ Len(log[p]) \in Nat
<1>1. IsFiniteSet(Holding(p)) /\ Waiting(p) \in SUBSET Holding(p)
  BY DEF CountInv, Counted, Waiting
<1>2. Len(log[p]) \in Nat
  BY LenProperties DEF CountInv, CountTypes, Stamps
<1> QED
  BY <1>1, <1>2, FS_Subset, FS_CardinalityType

\* A process none of whose leases, stamps and counters change stays counted.
LEMMA OthersStayCounted ==
  ASSUME CountInv, NEW q \in Process,
         Holding(q)' = Holding(q), Waiting(q)' = Waiting(q),
         log'[q] = log[q], active'[q] = active[q],
         wasted'[q] = wasted[q], served'[q] = served[q]
  PROVE  Counted(q)'
BY DEF CountInv, Counted

\* acquire: a lease more, a slot more and a call waiting, or nothing at all.
LEMMA AcquireCounts ==
  ASSUME CountInv, NEW r \in Call, Acquire(r)
  PROVE  CountInv'
<1>0. PICK p \in Process : p = call[r].process
  BY DEF CountInv, CountTypes
<1>1. /\ pc[r] = "idle" /\ UNCHANGED <<today, usage, wasted, served, call>>
      /\ \/ UNCHANGED <<log, active, pc>>
         \/ /\ active[p] < MaxConcurrency
            /\ log' = [log EXCEPT ![p] = Append(@, now)]
            /\ active' = [active EXCEPT ![p] = @ + 1]
            /\ pc' = [pc EXCEPT ![r] = "leased"]
  <2>1. ~Full(p) => active[p] < MaxConcurrency
    BY SettingsAssumption DEF Full, CountInv, CountTypes
  <2> QED
    BY <1>0, <2>1 DEF Acquire, Refuse, CapacityRefusal, Admit
<1>2. now' = now
  BY DEF Acquire, Refuse, CapacityRefusal, Admit
<1>3. CASE UNCHANGED <<log, active, pc>>
  <2>1. CountTypes'
    BY <1>1, <1>2, <1>3 DEF CountInv, CountTypes
  <2>2. \A q \in Process : Holding(q)' = Holding(q) /\ Waiting(q)' = Waiting(q)
    BY <1>1, <1>3 DEF Holding, Waiting
  <2>3. \A q \in Process : Counted(q)'
    BY <1>1, <1>3, <2>2, OthersStayCounted
  <2> QED
    BY <1>1, <2>1, <2>3 DEF CountInv
<1>4. CASE /\ active[p] < MaxConcurrency
           /\ log' = [log EXCEPT ![p] = Append(@, now)]
           /\ active' = [active EXCEPT ![p] = @ + 1]
           /\ pc' = [pc EXCEPT ![r] = "leased"]
  <2>1. /\ log'[p] = Append(log[p], now) /\ active'[p] = active[p] + 1
        /\ pc'[r] = "leased" /\ \A c \in Call \ {r} : pc'[c] = pc[c]
        /\ \A q \in Process \ {p} : log'[q] = log[q] /\ active'[q] = active[q]
    BY <1>2, <1>4 DEF CountInv, CountTypes
  <2>2. /\ Append(log[p], now) \in Stamps
        /\ Len(Append(log[p], now)) = Len(log[p]) + 1
    BY <1>2, AppendProperties, LenProperties DEF CountInv, CountTypes, Stamps
  <2>3. CountTypes'
    BY <1>1, <1>2, <1>4, <2>2 DEF CountInv, CountTypes
  <2>4. /\ Holding(p)' = Holding(p) \cup {r} /\ r \notin Holding(p)
        /\ Waiting(p)' = Waiting(p) \cup {r} /\ r \notin Waiting(p)
    BY <1>1, <1>0, <2>1 DEF Holding, Waiting
  <2>5. \A q \in Process \ {p} : Holding(q)' = Holding(q) /\ Waiting(q)' = Waiting(q)
    BY <1>1, <1>0, <2>1 DEF Holding, Waiting
  <2>6. Counted(p)'
    <3>1. /\ IsFiniteSet(Holding(p)) /\ active[p] = Cardinality(Holding(p))
          /\ Len(log[p]) = served[p] + wasted[p] + Cardinality(Waiting(p))
          /\ served[p] \in Nat /\ wasted[p] \in Nat /\ active[p] \in Nat
      BY <1>2 DEF CountInv, CountTypes, Counted
    <3>2. IsFiniteSet(Waiting(p)) /\ Cardinality(Waiting(p)) \in Nat
      BY <1>2, Sizes
    <3>3. /\ IsFiniteSet(Holding(p)') /\ Cardinality(Holding(p)') = Cardinality(Holding(p)) + 1
          /\ Cardinality(Waiting(p)') = Cardinality(Waiting(p)) + 1
      <4> DEFINE H == Holding(p)
                 W == Waiting(p)
      <4>1. IsFiniteSet(H \cup {r}) /\ Cardinality(H \cup {r}) = Cardinality(H) + 1
        <5> HIDE DEF H
        <5> QED
          BY <2>4, <3>1, FS_AddElement DEF H
      <4>2. Cardinality(W \cup {r}) = Cardinality(W) + 1
        <5> HIDE DEF W
        <5> QED
          BY <2>4, <3>2, FS_AddElement DEF W
      <4> QED
        BY <2>4, <4>1, <4>2
    <3>4. /\ active'[p] = Cardinality(Holding(p)') /\ active'[p] <= MaxConcurrency
          /\ Len(log'[p]) = served[p] + wasted[p] + Cardinality(Waiting(p)')
      BY SMTT(30), <1>4, <2>1, <2>2, <3>1, <3>2, <3>3, SettingsAssumption
    <3> QED
      BY <1>1, <3>3, <3>4 DEF Counted
  <2>7. \A q \in Process \ {p} : Counted(q)'
    BY <1>1, <2>1, <2>5, OthersStayCounted
  <2> QED
    BY <1>1, <2>3, <2>6, <2>7 DEF CountInv
<1> QED
  BY <1>1, <1>3, <1>4

\* The budget is charged: the call waits no more and is served.
LEMMA ChargeCounts ==
  ASSUME CountInv, NEW r \in Call, Charge(r)
  PROVE  CountInv'
<1>0. PICK p \in Process : p = call[r].process
  BY DEF CountInv, CountTypes
<1>1. /\ pc[r] = "leased" /\ usage[today] < DailyRequests
      /\ usage' = [usage EXCEPT ![today] = @ + 1]
      /\ pc' = [pc EXCEPT ![r] = "running"]
      /\ served' = [served EXCEPT ![p] = @ + 1]
      /\ UNCHANGED <<now, log, active, today, call, wasted>>
  BY <1>0 DEF Charge, HasBudget, windows
<1>3. /\ served'[p] = served[p] + 1 /\ \A q \in Process \ {p} : served'[q] = served[q]
      /\ pc'[r] = "running" /\ \A c \in Call \ {r} : pc'[c] = pc[c]
  BY <1>1 DEF CountInv, CountTypes
<1>4. CountTypes'
  BY <1>1 DEF CountInv, CountTypes
<1>5. ASSUME NEW d \in 0..MaxDay PROVE usage'[d] <= DailyRequests
  <2>1. /\ usage[d] \in Nat /\ usage[d] <= DailyRequests /\ DailyRequests \in Nat
        /\ usage'[d] = IF d = today THEN usage[d] + 1 ELSE usage[d]
    BY <1>1, SettingsAssumption DEF CountInv, CountTypes
  <2> QED
    BY <1>1, <2>1
<1>6. /\ \A q \in Process : Holding(q)' = Holding(q)
      /\ \A q \in Process \ {p} : Waiting(q)' = Waiting(q)
      /\ Waiting(p)' = Waiting(p) \ {r} /\ r \in Waiting(p)
  BY <1>1, <1>3, <1>0 DEF Holding, Waiting
<1>7. Counted(p)'
  <2>1. /\ IsFiniteSet(Waiting(p)) /\ Cardinality(Waiting(p)) \in Nat
        /\ Cardinality(Waiting(p)') = Cardinality(Waiting(p)) - 1
    BY <1>6, Sizes, FS_RemoveElement
  <2>2. served[p] \in Nat /\ wasted[p] \in Nat
    BY DEF CountInv, CountTypes
  <2>3. Len(log[p]) = served'[p] + wasted[p] + Cardinality(Waiting(p)')
    BY SMTT(30), <1>3, <2>1, <2>2 DEF CountInv, Counted
  <2> QED
    BY <1>1, <1>6, <2>3 DEF CountInv, Counted
<1>8. \A q \in Process \ {p} : Counted(q)'
  BY <1>1, <1>3, <1>6, OthersStayCounted
<1> QED
  BY <1>4, <1>5, <1>7, <1>8 DEF CountInv

\* The release gives back the one lease of its call.
LEMMA ReleaseCounts ==
  ASSUME CountInv, NEW r \in Call, pc[r] # "idle", Release(call[r].process),
         pc' = [pc EXCEPT ![r] = "idle"],
         UNCHANGED <<now, log, today, usage, call, served>>,
         IF pc[r] = "leased"
           THEN wasted' = [wasted EXCEPT ![call[r].process] = @ + 1]
           ELSE wasted' = wasted
  PROVE  CountInv'
<1>0. PICK p \in Process : p = call[r].process
  BY DEF CountInv, CountTypes
<1>1. r \in Holding(p)
  BY <1>0 DEF CountInv, CountTypes, Holding
<1>2. /\ pc'[r] = "idle" /\ \A c \in Call \ {r} : pc'[c] = pc[c]
      /\ \A q \in Process \ {p} : active'[q] = active[q] /\ wasted'[q] = wasted[q]
  BY <1>0 DEF CountInv, CountTypes, Release
<1>3. /\ Holding(p)' = Holding(p) \ {r}
      /\ Waiting(p)' = Waiting(p) \ {r}
      /\ r \in Waiting(p) <=> pc[r] = "leased"
      /\ \A q \in Process \ {p} : Holding(q)' = Holding(q) /\ Waiting(q)' = Waiting(q)
  BY <1>2, <1>0 DEF Holding, Waiting
<1>4. /\ IsFiniteSet(Holding(p)) /\ active[p] = Cardinality(Holding(p)) /\ active[p] <= MaxConcurrency
      /\ Len(log[p]) = served[p] + wasted[p] + Cardinality(Waiting(p))
      /\ served[p] \in Nat /\ wasted[p] \in Nat /\ active[p] \in Nat
      /\ IsFiniteSet(Waiting(p)) /\ Cardinality(Waiting(p)) \in Nat
  BY <1>1, Sizes DEF CountInv, CountTypes, Counted
<1>5. /\ IsFiniteSet(Holding(p)') /\ Cardinality(Holding(p)') = active[p] - 1
      /\ Cardinality(Holding(p)') \in Nat
      /\ Cardinality(Waiting(p)') =
           IF pc[r] = "leased" THEN Cardinality(Waiting(p)) - 1 ELSE Cardinality(Waiting(p))
  <2> DEFINE H == Holding(p)
             W == Waiting(p)
  <2>1. IsFiniteSet(H \ {r}) /\ Cardinality(H \ {r}) = Cardinality(H) - 1
    <3> HIDE DEF H
    <3> QED
      BY <1>1, <1>4, FS_RemoveElement DEF H
  <2>2. Cardinality(W \ {r}) = IF r \in W THEN Cardinality(W) - 1 ELSE Cardinality(W)
    <3> HIDE DEF W
    <3> QED
      BY <1>4, FS_RemoveElement DEF W
  <2>3. Cardinality(H \ {r}) \in Nat
    BY <2>1, FS_CardinalityType
  <2> QED
    BY <1>3, <1>4, <2>1, <2>2, <2>3
<1>6. active'[p] = active[p] - 1
  BY <1>4, <1>5, <1>0 DEF Release, CountInv, CountTypes
<1>7. wasted'[p] = IF pc[r] = "leased" THEN wasted[p] + 1 ELSE wasted[p]
  BY <1>0 DEF CountInv, CountTypes
<1>8. CountTypes'
  <2>1. active' \in [Process -> Nat]
    BY <1>4, <1>0 DEF CountInv, CountTypes, Release
  <2>2. wasted' \in [Process -> Nat]
    <3>1. wasted \in [Process -> Nat] /\ wasted[p] + 1 \in Nat
      BY DEF CountInv, CountTypes
    <3>2. wasted' = [wasted EXCEPT ![p] = wasted[p] + 1] \/ wasted' = wasted
      BY <1>0
    <3> QED
      BY <3>1, <3>2
  <2>3. pc' \in [Call -> {"idle", "leased", "running"}]
    BY DEF CountInv, CountTypes
  <2> QED
    BY <2>1, <2>2, <2>3 DEF CountInv, CountTypes
<1>9. Counted(p)'
  <2>1. active'[p] = Cardinality(Holding(p)') /\ active'[p] <= MaxConcurrency
    BY <1>4, <1>5, <1>6, SettingsAssumption
  <2>2. Len(log[p]) = served[p] + wasted'[p] + Cardinality(Waiting(p)')
    BY <1>4, <1>5, <1>7
  <2> QED
    BY <1>5, <2>1, <2>2 DEF Counted
<1>10. \A q \in Process \ {p} : Counted(q)'
  BY <1>2, <1>3, OthersStayCounted
<1> QED
  BY <1>8, <1>9, <1>10 DEF CountInv

\* Steps that hold and give back no lease: another request, time, a new day.
LEMMA QuietCounts ==
  ASSUME CountInv, call' \in [Call -> [process : Process, client : Client]],
         \A r \in Call : pc[r] # "idle" => call'[r] = call[r],
         now' \in Nat, today' \in 0..MaxDay,
         UNCHANGED <<log, active, usage, pc, wasted, served>>
  PROVE  CountInv'
<1>1. \A q \in Process : Holding(q)' = Holding(q) /\ Waiting(q)' = Waiting(q)
  BY DEF Holding, Waiting
<1>2. \A q \in Process : Counted(q)'
  BY <1>1, OthersStayCounted
<1> QED
  BY <1>2 DEF CountInv, CountTypes

-----------------------------------------------------------------------------
(***************************************************************************)
(* Sums over sets.                                                         *)
(***************************************************************************)

\* Induction over the naturals, for a set of them.
LEMMA SetInduction ==
  ASSUME NEW S, 0 \in S, \A n \in Nat : n \in S => n + 1 \in S
  PROVE  Nat \subseteq S
<1> DEFINE R == {p \in Nat \X Nat : p[1] < p[2]}
           T == Nat \ S
<1>1. IsWellFoundedOn(R, Nat)
  BY NatLessThanWellFounded DEF OpToRel
<1> HIDE DEF R
<1>2. SUFFICES ASSUME T # {} PROVE FALSE
  OBVIOUS
<1>3. PICK x \in T : \A y \in T : ~ (<<y, x>> \in R)
  BY <1>1, <1>2, WFMin
<1>4. x # 0 /\ x - 1 \in Nat
  BY <1>3
<1>5. x - 1 \in T
  BY <1>3, <1>4
<1>6. <<x - 1, x>> \in R
  BY <1>3, <1>4 DEF R
<1> QED
  BY <1>3, <1>5, <1>6

\* The element a sum takes next, and the sums g of the subsets of S.
Chosen(T) == CHOOSE x \in T : TRUE

SumOf(f, g, T) == IF T = {} THEN 0 ELSE f[Chosen(T)] + g[T \ {Chosen(T)}]

IsSum(f, S, g) == g = [T \in SUBSET S |-> SumOf(f, g, T)]

\* The sum of f over a set, as the budget is stated with it.
Total(f, S) == MapThenSumSet(LAMBDA x : f[x], S)

\* A smaller set is left when an element is taken out.
LEMMA Smaller ==
  ASSUME NEW S, IsFiniteSet(S), NEW T \in SUBSET S, T # {}
  PROVE  /\ Chosen(T) \in T /\ T \ {Chosen(T)} \in SUBSET S
         /\ IsFiniteSet(T) /\ Cardinality(T) \in Nat
         /\ Cardinality(T \ {Chosen(T)}) = Cardinality(T) - 1
         /\ Cardinality(T \ {Chosen(T)}) \in Nat
<1>1. Chosen(T) \in T
  BY DEF Chosen
<1>2. IsFiniteSet(T) /\ Cardinality(T) \in Nat
  BY FS_Subset, FS_CardinalityType
<1>3. IsFiniteSet(T \ {Chosen(T)}) /\ Cardinality(T \ {Chosen(T)}) = Cardinality(T) - 1
  BY <1>1, <1>2, FS_RemoveElement
<1> QED
  BY <1>1, <1>2, <1>3, FS_CardinalityType

\* The sums of all subsets exist.
LEMMA SumExists ==
  ASSUME NEW S, IsFiniteSet(S), NEW f
  PROVE  \E g : IsSum(f, S, g)
<1> DEFINE Upto(n, g) == /\ g = [T \in SUBSET S |-> g[T]]
                         /\ \A T \in SUBSET S : Cardinality(T) <= n => g[T] = SumOf(f, g, T)
           N == {n \in Nat : \E g : Upto(n, g)}
<1>1. 0 \in N
  <2> DEFINE g == [T \in SUBSET S |-> 0]
  <2>1. ASSUME NEW T \in SUBSET S, Cardinality(T) <= 0 PROVE T = {}
    BY <2>1, FS_Subset, FS_EmptySet, FS_CardinalityType
  <2>2. \A T \in SUBSET S : Cardinality(T) <= 0 => g[T] = SumOf(f, g, T)
    BY <2>1 DEF SumOf
  <2>3. Upto(0, g)
    BY <2>2
  <2> QED
    BY <2>3
<1>2. ASSUME NEW n \in Nat, n \in N PROVE n + 1 \in N
  <2>1. PICK g : Upto(n, g)
    BY <1>2
  <2> DEFINE h == [T \in SUBSET S |-> SumOf(f, g, T)]
  <2>2. ASSUME NEW T \in SUBSET S, Cardinality(T) <= n + 1 PROVE h[T] = SumOf(f, h, T)
    <3>1. CASE T = {}
      BY <3>1 DEF SumOf
    <3>2. CASE T # {}
      <4>1. T \ {Chosen(T)} \in SUBSET S /\ Cardinality(T \ {Chosen(T)}) <= n
        BY <2>2, <3>2, Smaller
      <4>2. h[T \ {Chosen(T)}] = g[T \ {Chosen(T)}]
        BY <2>1, <4>1
      <4> QED
        BY <4>2 DEF SumOf
    <3> QED
      BY <3>1, <3>2
  <2>3. Upto(n + 1, h)
    BY <2>2
  <2>4. \E e : Upto(n + 1, e)
    BY <2>3
  <2> HIDE DEF Upto
  <2> QED
    BY <2>4
<1> HIDE DEF N
<1>3. Cardinality(S) \in N
  BY <1>1, <1>2, SetInduction, FS_CardinalityType
<1>4. PICK g : Upto(Cardinality(S), g)
  BY <1>3 DEF N
<1>5. \A T \in SUBSET S : Cardinality(T) <= Cardinality(S)
  BY FS_Subset
<1>6. IsSum(f, S, g)
  BY <1>4, <1>5 DEF IsSum
<1> QED
  BY <1>6

\* Hence a sum can be computed element by element.
LEMMA SumBy ==
  ASSUME NEW S, IsFiniteSet(S), NEW f
  PROVE  \E g : /\ \A T \in SUBSET S : g[T] = SumOf(f, g, T)
                /\ Total(f, S) = g[S]
<1> DEFINE g == CHOOSE g : IsSum(f, S, g)
<1>1. IsSum(f, S, g)
  BY SumExists
<1>2. Total(f, S) = g[S]
  BY DEF Total, MapThenSumSet, MapThenFoldSet, IsSum, SumOf, Chosen
<1> HIDE DEF g
<1>3. \A T \in SUBSET S : g[T] = SumOf(f, g, T)
  BY <1>1 DEF IsSum
<1> QED
  BY <1>2, <1>3

\* What nobody contributed to sums to nothing.
LEMMA SumOfNothing ==
  ASSUME NEW S, IsFiniteSet(S), NEW f, \A x \in S : f[x] = 0
  PROVE  Total(f, S) = 0
<1>1. PICK g : /\ \A T \in SUBSET S : g[T] = SumOf(f, g, T)
               /\ Total(f, S) = g[S]
  BY SumBy
<1> DEFINE N == {n \in Nat : \A T \in SUBSET S : Cardinality(T) = n => g[T] = 0}
<1>2. 0 \in N
  BY <1>1, FS_Subset, FS_EmptySet DEF SumOf
<1>3. ASSUME NEW n \in Nat, n \in N PROVE n + 1 \in N
  <2> SUFFICES ASSUME NEW T \in SUBSET S, Cardinality(T) = n + 1 PROVE g[T] = 0
    OBVIOUS
  <2>1. T # {}
    BY FS_EmptySet
  <2>2. Chosen(T) \in S /\ T \ {Chosen(T)} \in SUBSET S /\ Cardinality(T \ {Chosen(T)}) = n
    BY <2>1, Smaller
  <2>3. g[T \ {Chosen(T)}] = 0 /\ f[Chosen(T)] = 0
    BY <1>3, <2>2
  <2>4. g[T] = SumOf(f, g, T)
    BY <1>1
  <2> QED
    BY <2>1, <2>3, <2>4 DEF SumOf
<1> HIDE DEF N
<1>4. Cardinality(S) \in N
  BY <1>2, <1>3, SetInduction, FS_CardinalityType
<1> QED
  BY <1>1, <1>4 DEF N

\* One more in one place is one more in all.
LEMMA SumIncreases ==
  ASSUME NEW S, IsFiniteSet(S), NEW f \in [S -> Nat], NEW d \in S,
         NEW h, h = [f EXCEPT ![d] = @ + 1]
  PROVE  /\ Total(f, S) \in Nat
         /\ Total(h, S) = Total(f, S) + 1
<1>1. PICK g : /\ \A T \in SUBSET S : g[T] = SumOf(f, g, T)
               /\ Total(f, S) = g[S]
  BY SumBy
<1>2. PICK k : /\ \A T \in SUBSET S : k[T] = SumOf(h, k, T)
               /\ Total(h, S) = k[S]
  BY SumBy
<1> DEFINE More(T) == g[T] \in Nat /\ k[T] = IF d \in T THEN g[T] + 1 ELSE g[T]
           N == {n \in Nat : \A T \in SUBSET S : Cardinality(T) = n => More(T)}
<1>3. 0 \in N
  <2> SUFFICES ASSUME NEW T \in SUBSET S, Cardinality(T) = 0 PROVE More(T)
    OBVIOUS
  <2>1. T = {}
    BY FS_Subset, FS_EmptySet
  <2>2. g[T] = 0 /\ k[T] = 0
    BY <1>1, <1>2, <2>1 DEF SumOf
  <2> QED
    BY <2>1, <2>2
<1>4. ASSUME NEW n \in Nat, n \in N PROVE n + 1 \in N
  <2> SUFFICES ASSUME NEW T \in SUBSET S, Cardinality(T) = n + 1 PROVE More(T)
    OBVIOUS
  <2>1. T # {}
    BY FS_EmptySet
  <2> DEFINE x == Chosen(T)
             U == T \ {x}
  <2>2. x \in T /\ x \in S /\ U \in SUBSET S /\ Cardinality(U) = n
    BY <2>1, Smaller
  <2>3. More(U)
    BY <1>4, <2>2
  <2>4. g[T] = f[x] + g[U] /\ k[T] = h[x] + k[U]
    BY <1>1, <1>2, <2>1 DEF SumOf
  <2>5. f[x] \in Nat /\ h[x] = IF x = d THEN f[x] + 1 ELSE f[x]
    BY <2>2
  <2>6. d \in U <=> d \in T /\ x # d
    OBVIOUS
  <2> HIDE DEF x, U
  <2> QED
    BY <2>2, <2>3, <2>4, <2>5, <2>6
<1> HIDE DEF N
<1>5. Cardinality(S) \in N
  BY <1>3, <1>4, SetInduction, FS_CardinalityType
<1>6. More(S)
  BY <1>5 DEF N
<1> QED
  BY <1>1, <1>2, <1>6

\* The calls charged are the calls begun.
BudgetInv == Total(usage, 0..MaxDay) = Total(served, Process)

\* Each call that is charged is one that begins.
LEMMA ChargeSums ==
  ASSUME CountInv, BudgetInv, NEW r \in Call, Charge(r)
  PROVE  BudgetInv'
<1>1. PICK p \in Process : p = call[r].process
  BY DEF CountInv, CountTypes
<1>2. PICK u, v, u2, v2 : u = usage /\ v = served /\ u2 = usage' /\ v2 = served'
  OBVIOUS
<1>3. /\ u \in [0..MaxDay -> Nat] /\ v \in [Process -> Nat] /\ today \in 0..MaxDay
      /\ u2 = [u EXCEPT ![today] = @ + 1] /\ v2 = [v EXCEPT ![p] = @ + 1]
  BY <1>1, <1>2 DEF Charge, CountInv, CountTypes
<1>4. IsFiniteSet(0..MaxDay) /\ IsFiniteSet(Process)
  BY FS_Interval, BoundsAssumption, ProcessAssumption
<1>5. /\ Total(u2, 0..MaxDay) = Total(u, 0..MaxDay) + 1
      /\ Total(v2, Process) = Total(v, Process) + 1
  BY ZenonT(60), <1>3, <1>4, SumIncreases
<1>6. Total(u, 0..MaxDay) = Total(v, Process)
  BY <1>2 DEF BudgetInv
<1> QED
  BY <1>2, <1>5, <1>6 DEF BudgetInv

-----------------------------------------------------------------------------
(***************************************************************************)
(* The theorems.                                                           *)
(***************************************************************************)

GuardInv == WindowInv /\ CountInv /\ BudgetInv

\* An idle guard and an empty table.
LEMMA InitGuard == Init => GuardInv
<1> SUFFICES ASSUME Init PROVE GuardInv
  OBVIOUS
<1>1. \A p \in Process : Holding(p) = {} /\ Waiting(p) = {}
  BY DEF Init, Holding, Waiting
<1>2. IsFiniteSet({}) /\ Cardinality({}) = 0
  BY FS_EmptySet
<1>3. <<>> \in Stamps /\ Len(<<>>) = 0 /\ DOMAIN <<>> = {}
  BY EmptySeq DEF Stamps
<1>4. WindowInv
  <2>1. \A n \in Nat : \A width : Deque(<<>>, 0, n, width)
    BY <1>3 DEF Deque, Spread
  <2> QED
    BY <1>3, <2>1, SettingsAssumption DEF Init, WindowInv
<1>5. CountInv
  <2>1. CountTypes
    BY <1>3, BoundsAssumption DEF Init, CountTypes
  <2>2. ASSUME NEW p \in Process PROVE Counted(p)
    <3>1. /\ log[p] = <<>> /\ active[p] = 0 /\ served[p] = 0 /\ wasted[p] = 0
          /\ Holding(p) = {} /\ Waiting(p) = {} /\ 0 <= MaxConcurrency
      BY <1>1, SettingsAssumption DEF Init
    <3> QED
      BY <1>2, <1>3, <3>1 DEF Counted
  <2>3. \A d \in 0..MaxDay : usage[d] <= DailyRequests
    BY SettingsAssumption DEF Init
  <2> QED
    BY <2>1, <2>2, <2>3 DEF CountInv
<1>6. BudgetInv
  <2>1. IsFiniteSet(0..MaxDay) /\ IsFiniteSet(Process)
    BY FS_Interval, BoundsAssumption, ProcessAssumption
  <2>2. Total(usage, 0..MaxDay) = 0
    BY <2>1, SumOfNothing DEF Init
  <2>3. Total(served, Process) = 0
    BY <2>1, SumOfNothing DEF Init
  <2> QED
    BY <2>2, <2>3 DEF BudgetInv
<1> QED
  BY <1>4, <1>5, <1>6 DEF GuardInv

\* Every step keeps the windows and the counters.
LEMMA NextCounts ==
  ASSUME WindowInv, CountInv, [Next]_vars
  PROVE  WindowInv' /\ CountInv'
<1>1. now \in Nat /\ \A r \in Call : call[r].process \in Process
  BY DEF CountInv, CountTypes
<1>2. UNCHANGED <<now, log, head, dailyHead>> => WindowInv'
  BY <1>1, WindowsAge
<1>3. ASSUME NEW r \in Call, Acquire(r) PROVE WindowInv' /\ CountInv'
  BY <1>1, <1>3, AcquireWindows, AcquireCounts
<1>4. ASSUME NEW r \in Call, Charge(r) PROVE WindowInv' /\ CountInv'
  BY <1>2, <1>4, ChargeCounts DEF Charge, windows
<1>5. ASSUME NEW r \in Call, RefusedByBudget(r) \/ EndCall(r) PROVE WindowInv' /\ CountInv'
  BY <1>2, <1>5, ReleaseCounts DEF RefusedByBudget, EndCall, windows
<1>6. ASSUME NEW r \in Call, Turn(r) PROVE WindowInv' /\ CountInv'
  <2>1. CountInv'
    BY <1>6, QuietCounts DEF Turn, windows, CountInv, CountTypes
  <2> QED
    BY <1>2, <1>6, <2>1 DEF Turn, windows
<1>7. CASE Tick
  <2>1. now' \in Nat /\ now <= now' /\ UNCHANGED <<windows, active, today, usage, pc, call, wasted, served>>
    BY <1>1, <1>7 DEF Tick
  <2>2. CountInv'
    BY <2>1, QuietCounts DEF windows, CountInv, CountTypes
  <2> QED
    BY <2>1, <2>2, WindowsAge DEF windows
<1>8. CASE NextDay
  <2>1. today' \in 0..MaxDay /\ UNCHANGED <<windows, now, active, usage, pc, call, wasted, served>>
    BY <1>8, BoundsAssumption DEF NextDay, CountInv, CountTypes
  <2>2. CountInv'
    BY <2>1, QuietCounts DEF windows, CountInv, CountTypes
  <2> QED
    BY <1>2, <2>1, <2>2 DEF windows
<1>9. CASE UNCHANGED vars
  <2>1. UNCHANGED <<windows, now, active, today, usage, pc, call, wasted, served>>
    BY <1>9 DEF vars, windows
  <2>2. CountInv'
    BY <2>1, QuietCounts DEF windows, CountInv, CountTypes
  <2> QED
    BY <1>2, <2>1, <2>2 DEF windows
<1> QED
  BY <1>3, <1>4, <1>5, <1>6, <1>7, <1>8, <1>9 DEF Next

\* Every step charges what it begins.
LEMMA NextBudget ==
  ASSUME CountInv, BudgetInv, [Next]_vars
  PROVE  BudgetInv'
<1>1. UNCHANGED <<usage, served>> => BudgetInv'
  BY DEF BudgetInv
<1>2. ASSUME NEW r \in Call, Acquire(r) PROVE BudgetInv'
  BY <1>1, <1>2 DEF Acquire, Refuse, CapacityRefusal, Admit
<1>3. ASSUME NEW r \in Call, Charge(r) PROVE BudgetInv'
  BY <1>3, ChargeSums
<1>4. ASSUME NEW r \in Call, RefusedByBudget(r) \/ EndCall(r) \/ Turn(r) PROVE BudgetInv'
  BY <1>1, <1>4 DEF RefusedByBudget, EndCall, Turn
<1>5. CASE Tick \/ NextDay \/ UNCHANGED vars
  BY <1>1, <1>5 DEF Tick, NextDay, vars
<1> QED
  BY <1>2, <1>3, <1>4, <1>5 DEF Next

\* Every step keeps windows, counts and budget.
LEMMA NextGuard == GuardInv /\ [Next]_vars => GuardInv'
BY NextCounts, NextBudget DEF GuardInv

\* The invariant holds in every reachable state.
THEOREM GuardHolds == Spec => []GuardInv
BY InitGuard, NextGuard, PTL DEF Spec

\* No process admits more than its global limit in any window, wherever the
\* window begins, or more than its daily limit in any rolling day.
THEOREM WindowsHold == Spec => [](GlobalLimit /\ LocalDailyLimit)
<1>1. GuardInv => GlobalLimit /\ LocalDailyLimit
  BY DEF GuardInv, WindowInv, Deque, GlobalLimit, LocalDailyLimit
<1> QED
  BY <1>1, GuardHolds, PTL

\* Leases are given back once, whichever way their call ends, and slots of the
\* windows are taken by calls that were served, wait or were refused by the
\* budget.
THEOREM LeasesAndSlotsHold == Spec => [](LeasesAreCounted /\ SlotsAreAccounted)
<1>1. GuardInv => LeasesAreCounted /\ SlotsAreAccounted
  BY DEF GuardInv, CountInv, Counted, Waiting, LeasesAreCounted, SlotsAreAccounted
<1> QED
  BY <1>1, GuardHolds, PTL

\* All processes together stay within the budget of every day, and are charged
\* for exactly the calls they begin.
THEOREM BudgetHolds == Spec => []BudgetIsShared
<1>1. GuardInv => BudgetIsShared
  BY DEF GuardInv, CountInv, BudgetInv, Total, BudgetIsShared
<1> QED
  BY <1>1, GuardHolds, PTL

-----------------------------------------------------------------------------
(***************************************************************************)
(* The callers' side needs that more clients are tracked than requests are *)
(* let into a window: 4096 against the default of 12.                      *)
(***************************************************************************)

CallerInv == GuardInv /\ ClientInv /\ HintInv

\* Nobody has asked yet.
LEMMA InitCallers == Init => CallerInv
<1> SUFFICES ASSUME Init PROVE CallerInv
  OBVIOUS
<1>1. <<>> \in Stamps /\ Len(<<>>) = 0 /\ DOMAIN <<>> = {} /\ <<>> \in Seq(Client)
  BY EmptySeq DEF Stamps
<1>2. Ordered(<<>>) /\ Distinct(<<>>) /\ Deque(<<>>, 0, ClientRequests, Window)
  BY <1>1, SettingsAssumption DEF Ordered, Distinct, Deque, Spread
<1>3. ClientTypes
  BY <1>1 DEF Init, ClientTypes
<1>4. ASSUME NEW p \in Process PROVE Ordered(log[p]) /\ TrackedInOrder(p)
  BY <1>1, <1>2, SettingsAssumption DEF Init, TrackedInOrder
<1>5. ASSUME NEW p \in Process, NEW c \in Client
      PROVE  ClientDeque(p, c) /\ Ordered(clientLog[p][c])
  BY <1>2 DEF Init, ClientDeque
<1>6. HintInv
  BY DEF Init, HintInv, Hint, NoHint
<1> QED
  BY <1>3, <1>4, <1>5, <1>6, InitGuard DEF CallerInv, ClientInv

\* Every step keeps the deques of the clients and the hints.
LEMMA NextCallers ==
  ASSUME GlobalRequests <= MaxTracked, CallerInv, [Next]_vars
  PROVE  CallerInv'
<1>1. /\ WindowInv /\ CountInv /\ ClientInv /\ HintInv /\ GuardInv'
      /\ now \in Nat /\ call \in [Call -> [process : Process, client : Client]]
  BY NextGuard DEF CallerInv, GuardInv, CountInv, CountTypes
<1>2. ASSUME UNCHANGED <<log, clientLog, clientHead, tracked>>, now' \in Nat, now <= now'
      PROVE  ClientInv'
  BY <1>1, <1>2, ClientsAge
<1>3. ASSUME UNCHANGED <<log, clientLog, hint, call>> PROVE HintInv'
  BY <1>1, <1>3, QuietHints DEF HintInv
<1>4. ASSUME NEW r \in Call, Acquire(r) PROVE ClientInv' /\ HintInv'
  BY <1>1, <1>4, AcquireClients, AcquireHints
<1>5. ASSUME NEW r \in Call, Charge(r) \/ RefusedByBudget(r) \/ EndCall(r)
      PROVE  ClientInv' /\ HintInv'
  <2>1. UNCHANGED <<log, clientLog, clientHead, tracked, hint, call, now>>
    BY <1>5 DEF Charge, RefusedByBudget, EndCall, windows
  <2> QED
    BY <1>1, <1>2, <1>3, <2>1
<1>6. ASSUME NEW r \in Call, Turn(r) PROVE ClientInv' /\ HintInv'
  <2>1. /\ UNCHANGED <<log, clientLog, clientHead, tracked, now>>
        /\ hint' = [hint EXCEPT ![r] = NoHint]
        /\ \A q \in Call \ {r} : call'[q] = call[q]
    BY <1>6 DEF Turn, windows
  <2>2. /\ hint' \in [Call -> Hint]
        /\ \A q \in Call : hint'[q] = NoHint \/ (hint'[q] = hint[q] /\ call'[q] = call[q])
    BY <1>1, <2>1 DEF HintInv, Hint, NoHint
  <2> QED
    BY <1>1, <1>2, <2>1, <2>2, QuietHints
<1>7. ASSUME Tick \/ NextDay \/ UNCHANGED vars PROVE ClientInv' /\ HintInv'
  <2>1. /\ UNCHANGED <<log, clientLog, clientHead, tracked, hint, call>>
        /\ now' \in Nat /\ now <= now'
    BY <1>1, <1>7 DEF Tick, NextDay, vars, windows
  <2> QED
    BY <1>2, <1>3, <2>1
<1>8. \/ \E r \in Call : Acquire(r)
      \/ \E r \in Call : Charge(r) \/ RefusedByBudget(r) \/ EndCall(r)
      \/ \E r \in Call : Turn(r)
      \/ Tick \/ NextDay \/ UNCHANGED vars
  BY DEF Next
<1>9. ClientInv' /\ HintInv'
  BY <1>4, <1>5, <1>6, <1>7, <1>8
<1> QED
  BY <1>1, <1>9 DEF CallerInv

\* What it says of the limits.
LEMMA CallersAreLimited ==
  ASSUME CallerInv
  PROVE  TypeOK /\ ClientLimit /\ RetryAfterSuffices
<1> USE DEF CallerInv, GuardInv
<1>1. TypeOK
  BY DEF TypeOK, WindowInv, CountInv, CountTypes, ClientInv, ClientTypes, HintInv
<1>2. ClientLimit
  BY DEF ClientLimit, ClientInv, ClientDeque, Deque
<1>3. RetryAfterSuffices
  BY HintsSuffice DEF CountInv, CountTypes
<1> QED
  BY <1>1, <1>2, <1>3

\* Every variable keeps its type, no client gets more than its limit into a
\* window although clients are forgotten, and whoever waits as Retry-After
\* says finds room if nobody came first.
THEOREM ClientsAreLimited ==
  ASSUME GlobalRequests <= MaxTracked
  PROVE  Spec => [](TypeOK /\ ClientLimit /\ RetryAfterSuffices)
<1>1. CallerInv /\ [Next]_vars => CallerInv'
  BY NextCallers
<1> QED
  BY <1>1, InitCallers, CallersAreLimited, PTL DEF Spec

-----------------------------------------------------------------------------
(***************************************************************************)
(* The same in the behaviours that are checked, of which those of the      *)
(* local guard are some of this specification's.                           *)
(***************************************************************************)

IsLocal == part \in {"local", "shared"}

\* A step of the checked instance.
LEMMA PartsStep ==
  ASSUME [MCNext]_<<vars, redis, part>>
  PROVE  part' = part /\ (IsLocal => [Next]_vars)
BY DEF MCNext, IsLocal, vars

\* The local guard keeps every limit it states and its word to those it refuses.
THEOREM LocalLimitsAreKept ==
  ASSUME GlobalRequests <= MaxTracked
  PROVE  MCSpec => []LocalLimitsHold
<1>1. MCInit => (IsLocal => CallerInv)
  BY InitCallers DEF MCInit, IsLocal
<1>2. (IsLocal => CallerInv) /\ [MCNext]_<<vars, redis, part>> => (IsLocal => CallerInv)'
  BY PartsStep, NextCallers DEF IsLocal
<1>3. (IsLocal => CallerInv) => LocalLimitsHold
  <2>1. CallerInv => GlobalLimit /\ LocalDailyLimit
    BY DEF CallerInv, GuardInv, WindowInv, Deque, GlobalLimit, LocalDailyLimit
  <2>2. CallerInv => SlotsAreAccounted
    BY DEF CallerInv, GuardInv, CountInv, Counted, Waiting, SlotsAreAccounted
  <2> QED
    BY <2>1, <2>2, CallersAreLimited DEF LocalLimitsHold, IsLocal
<1> QED
  BY <1>1, <1>2, <1>3, PTL DEF MCSpec

\* Processes that share the budget stay within it, day by day.
THEOREM DaysStayInBudget == MCSpec => []DayBudgetHolds
<1>1. MCInit => (IsLocal => GuardInv)
  BY InitGuard DEF MCInit, IsLocal
<1>2. (IsLocal => GuardInv) /\ [MCNext]_<<vars, redis, part>> => (IsLocal => GuardInv)'
  BY PartsStep, NextGuard DEF IsLocal
<1>3. (IsLocal => GuardInv) => DayBudgetHolds
  <2>1. GuardInv => LeasesAreCounted
    BY DEF GuardInv, CountInv, Counted, LeasesAreCounted
  <2>2. GuardInv => BudgetIsShared
    BY DEF GuardInv, CountInv, BudgetInv, Total, BudgetIsShared
  <2> QED
    BY <2>1, <2>2 DEF DayBudgetHolds, IsLocal
<1> QED
  BY <1>1, <1>2, <1>3, PTL DEF MCSpec

-----------------------------------------------------------------------------
(***************************************************************************)
(* The two instances of the guard in Redis: their settings are such that   *)
(* what RedisTrafficGuardProofs shows applies to them.                     *)
(***************************************************************************)

RP == INSTANCE RedisTrafficGuardProofs
  WITH Process <- {p1}, Skew <- [p \in {p1} |-> 0], Client <- {c1, c2},
       MaxConcurrency <- 2, GlobalRequests <- 2, ClientRequests <- 1, DailyRequests <- 4,
       Window <- 2, DayLength <- 4, LeaseTTL <- 2, MaxCall <- 0, MaxDelay <- 1,
       MaxTime <- 3, MaxAdmitted <- 5

LP == INSTANCE RedisTrafficGuardProofs
  WITH Process <- {p1, p2}, Skew <- [p \in {p1, p2} |-> IF p = p1 THEN 0 ELSE 1],
       Client <- {c1},
       MaxConcurrency <- 1, GlobalRequests <- 9, ClientRequests <- 9, DailyRequests <- 9,
       Window <- 9, DayLength <- 9, LeaseTTL <- 4, MaxCall <- 1, MaxDelay <- 1,
       MaxTime <- 4, MaxAdmitted <- 3

\* The settings of the instance with rates.
LEMMA RatesAreSound == RP!RateSettings
<1>1. \A p \in {p1} : [q \in {p1} |-> 0][p] = 0
  OBVIOUS
<1>2. RP!SettingsAreSound
  BY DEF RP!SettingsAreSound
<1>3. RP!OneIsFurthestAhead
  BY <1>1 DEF RP!OneIsFurthestAhead
<1> QED
  BY <1>2, <1>3 DEF RP!RateSettings

\* The settings of the instance with leases.
LEMMA LeasesAreSound == LP!SettingsAreSound /\ LP!LeasesOutliveCalls
<1>1. LP!SettingsAreSound
  BY DEF LP!SettingsAreSound
<1>2. \A p \in {p1, p2} : [q \in {p1, p2} |-> IF q = p1 THEN 0 ELSE 1][p] \in {0, 1}
  OBVIOUS
<1>3. LP!LeasesOutliveCalls
  BY <1>2 DEF LP!LeasesOutliveCalls
<1> QED
  BY <1>1, <1>3

\* What this instance computes is what the specification does with its settings.
LEMMA RateInstanceComputes ==
  /\ \A t : Rate!Bucket(t) = RP!Bucket(t) /\ Rate!Day(t) = RP!Day(t)
  /\ \A key : Rate!Value(key) = RP!Value(key)
  /\ \A key, ttl : Rate!Increased(key, ttl) = RP!Increased(key, ttl)
  /\ \A t : Rate!Alive(t) = RP!Alive(t)
  /\ \A n, limit : Rate!Below(n, limit) = RP!Below(n, limit)
  /\ \A r, w : Rate!GoTo(r, w) = RP!GoTo(r, w)
  /\ \A b, c : Rate!Refusal(b, c) = RP!Refusal(b, c)
  /\ \A S, b : Rate!InBucket(S, b) = RP!InBucket(S, b)
  /\ \A S, t : Rate!AdmittedFrom(S, t) = RP!AdmittedFrom(S, t)
  /\ Rate!Ahead = RP!Ahead /\ Rate!MaxStamp = RP!MaxStamp
  /\ \A S : Rate!Cardinality(S) = RP!Cardinality(S)
<1>1. \A t : Rate!Bucket(t) = RP!Bucket(t) /\ Rate!Day(t) = RP!Day(t)
  BY DEF Rate!Bucket, RP!Bucket, Rate!Day, RP!Day
<1>2. \A key : Rate!Value(key) = RP!Value(key)
  BY DEF Rate!Value, RP!Value
<1>3. \A key, ttl : Rate!Increased(key, ttl) = RP!Increased(key, ttl)
  BY <1>2 DEF Rate!Increased, RP!Increased
<1>4. \A t : Rate!Alive(t) = RP!Alive(t)
  BY DEF Rate!Alive, RP!Alive
<1>5. /\ \A n, limit : Rate!Below(n, limit) = RP!Below(n, limit)
      /\ \A b, c : Rate!Refusal(b, c) = RP!Refusal(b, c)
  BY DEF Rate!Below, RP!Below, Rate!Refusal, RP!Refusal
<1>6. \A r, w : Rate!GoTo(r, w) = RP!GoTo(r, w)
  BY DEF Rate!GoTo, RP!GoTo
<1>7. /\ \A S, b : Rate!InBucket(S, b) = RP!InBucket(S, b)
      /\ \A S, t : Rate!AdmittedFrom(S, t) = RP!AdmittedFrom(S, t)
  BY <1>1 DEF Rate!InBucket, RP!InBucket, Rate!AdmittedFrom, RP!AdmittedFrom
<1>8. Rate!Ahead = RP!Ahead /\ Rate!MaxStamp = RP!MaxStamp
  BY DEF Rate!MaxStamp, RP!MaxStamp, Rate!Ahead, RP!Ahead
<1>9. \A S : Rate!Cardinality(S) = RP!Cardinality(S)
  BY DEF Rate!Cardinality, RP!Cardinality
<1> QED
  BY <1>1, <1>2, <1>3, <1>4, <1>5, <1>6, <1>7, <1>8, <1>9

\* The steps of this instance are steps of the specification with its settings.
LEMMA RateInstanceSteps ==
  /\ Rate!Init => RP!Init
  /\ Rate!Next => RP!Next
  /\ Rate!vars = RP!vars
<1>1. Rate!Init => RP!Init
  BY RateInstanceComputes DEF Rate!Init, RP!Init, Rate!NoKey, RP!NoKey
<1>2. Rate!Next => RP!Next
  <2>1. \A r : Rate!Send(r) => RP!Send(r)
    BY RateInstanceComputes DEF Rate!Send, RP!Send
  <2>2. \A r : Rate!RequestLost(r) => RP!RequestLost(r)
    BY RateInstanceComputes DEF Rate!RequestLost, RP!RequestLost
  <2>3. \A r : Rate!Admitted(r) => RP!Admitted(r)
    BY RateInstanceComputes DEF Rate!Admitted, RP!Admitted
  <2>4. \A r : Rate!Refused(r) => RP!Refused(r)
    BY RateInstanceComputes DEF Rate!Refused, RP!Refused
  <2>5. \A r : Rate!EndCall(r) => RP!EndCall(r)
    BY RateInstanceComputes DEF Rate!EndCall, RP!EndCall
  <2>6. \A r : Rate!Release(r) => RP!Release(r)
    BY RateInstanceComputes DEF Rate!Release, RP!Release
  <2>7. \A r : Rate!ReleaseFails(r) => RP!ReleaseFails(r)
    BY RateInstanceComputes DEF Rate!ReleaseFails, RP!ReleaseFails
  <2>8. Rate!Tick => RP!Tick
    BY DEF Rate!Tick, RP!Tick
  <2> QED
    BY <2>1, <2>2, <2>3, <2>4, <2>5, <2>6, <2>7, <2>8 DEF Rate!Next, RP!Next
<1>3. Rate!vars = RP!vars
  BY DEF Rate!vars, RP!vars
<1> QED
  BY <1>1, <1>2, <1>3

\* What this instance computes is what the specification does with its settings.
LEMMA LeasesInstanceComputes ==
  /\ \A t : Leases!Bucket(t) = LP!Bucket(t) /\ Leases!Day(t) = LP!Day(t)
  /\ \A key : Leases!Value(key) = LP!Value(key)
  /\ \A key, ttl : Leases!Increased(key, ttl) = LP!Increased(key, ttl)
  /\ \A t : Leases!Alive(t) = LP!Alive(t)
  /\ \A n, limit : Leases!Below(n, limit) = LP!Below(n, limit)
  /\ \A r, w : Leases!GoTo(r, w) = LP!GoTo(r, w)
  /\ \A b, c : Leases!Refusal(b, c) = LP!Refusal(b, c)
  /\ Leases!Ahead = LP!Ahead /\ Leases!MaxStamp = LP!MaxStamp
  /\ \A S : Leases!Cardinality(S) = LP!Cardinality(S)
<1>1. \A t : Leases!Bucket(t) = LP!Bucket(t) /\ Leases!Day(t) = LP!Day(t)
  BY DEF Leases!Bucket, LP!Bucket, Leases!Day, LP!Day
<1>2. \A key : Leases!Value(key) = LP!Value(key)
  BY DEF Leases!Value, LP!Value
<1>3. \A key, ttl : Leases!Increased(key, ttl) = LP!Increased(key, ttl)
  BY <1>2 DEF Leases!Increased, LP!Increased
<1>4. \A t : Leases!Alive(t) = LP!Alive(t)
  BY DEF Leases!Alive, LP!Alive
<1>5. /\ \A n, limit : Leases!Below(n, limit) = LP!Below(n, limit)
      /\ \A b, c : Leases!Refusal(b, c) = LP!Refusal(b, c)
  BY DEF Leases!Below, LP!Below, Leases!Refusal, LP!Refusal
<1>6. \A r, w : Leases!GoTo(r, w) = LP!GoTo(r, w)
  BY DEF Leases!GoTo, LP!GoTo
<1>7. Leases!Ahead = LP!Ahead /\ Leases!MaxStamp = LP!MaxStamp
  BY DEF Leases!MaxStamp, LP!MaxStamp, Leases!Ahead, LP!Ahead
<1>8. \A S : Leases!Cardinality(S) = LP!Cardinality(S)
  BY DEF Leases!Cardinality, LP!Cardinality
<1> QED
  BY <1>1, <1>2, <1>3, <1>4, <1>5, <1>6, <1>7, <1>8

\* The steps of this instance are steps of the specification with its settings.
LEMMA LeasesInstanceSteps ==
  /\ Leases!Init => LP!Init
  /\ Leases!Next => LP!Next
  /\ Leases!vars = LP!vars
<1>1. Leases!Init => LP!Init
  BY LeasesInstanceComputes DEF Leases!Init, LP!Init, Leases!NoKey, LP!NoKey
<1>2. Leases!Next => LP!Next
  <2>1. \A r : Leases!Send(r) => LP!Send(r)
    BY LeasesInstanceComputes DEF Leases!Send, LP!Send
  <2>2. \A r : Leases!RequestLost(r) => LP!RequestLost(r)
    BY LeasesInstanceComputes DEF Leases!RequestLost, LP!RequestLost
  <2>3. \A r : Leases!Admitted(r) => LP!Admitted(r)
    BY LeasesInstanceComputes DEF Leases!Admitted, LP!Admitted
  <2>4. \A r : Leases!Refused(r) => LP!Refused(r)
    BY LeasesInstanceComputes DEF Leases!Refused, LP!Refused
  <2>5. \A r : Leases!EndCall(r) => LP!EndCall(r)
    BY LeasesInstanceComputes DEF Leases!EndCall, LP!EndCall
  <2>6. \A r : Leases!Release(r) => LP!Release(r)
    BY LeasesInstanceComputes DEF Leases!Release, LP!Release
  <2>7. \A r : Leases!ReleaseFails(r) => LP!ReleaseFails(r)
    BY LeasesInstanceComputes DEF Leases!ReleaseFails, LP!ReleaseFails
  <2>8. Leases!Tick => LP!Tick
    BY DEF Leases!Tick, LP!Tick
  <2> QED
    BY <2>1, <2>2, <2>3, <2>4, <2>5, <2>6, <2>7, <2>8 DEF Leases!Next, LP!Next
<1>3. Leases!vars = LP!vars
  BY DEF Leases!vars, LP!vars
<1> QED
  BY <1>1, <1>2, <1>3

\* Processes whose clocks differ run no more calls together than the limit.
THEOREM CallsStayTogetherLimited == MCSpec => []CallsTogetherAreLimited
<1> DEFINE Inv == part = "leases" => LP!LeaseInv
<1>1. MCInit => Inv
  BY LeasesInstanceSteps, LeasesAreSound, LP!InitLeases DEF MCInit
<1>2. Inv /\ [MCNext]_<<vars, redis, part>> => Inv'
  <2> SUFFICES ASSUME Inv, [MCNext]_<<vars, redis, part>>, part' = "leases"
               PROVE  LP!LeaseInv'
    OBVIOUS
  <2>1. part = "leases" /\ (Leases!Next \/ UNCHANGED Leases!vars)
    BY DEF MCNext, vars, redis, Leases!vars
  <2>2. LP!Next \/ UNCHANGED LP!vars
    BY <2>1, LeasesInstanceSteps DEF Leases!vars, LP!vars
  <2> QED
    BY <2>1, <2>2, LeasesAreSound, LP!LeaseStep
<1>3. Inv => CallsTogetherAreLimited
  <2>1. Leases!Running = LP!Running
    BY DEF Leases!Running, LP!Running
  <2>2. LP!ConcurrencyIsShared => Leases!ConcurrencyIsShared
    BY <2>1, LeasesInstanceComputes DEF LP!ConcurrencyIsShared, Leases!ConcurrencyIsShared
  <2> QED
    BY <2>2 DEF LP!LeaseInv, CallsTogetherAreLimited
<1> QED
  BY <1>1, <1>2, <1>3, PTL DEF MCSpec

\* The fixed windows of Redis admit at most twice the rate, and no day more
\* than its budget before it is over.
THEOREM RatesAtMostDouble == MCSpec => []RateAtMostDoubles
<1> DEFINE Inv == part = "rate" => RP!RateInv /\ RP!DayInv
<1>1. MCInit => Inv
  BY RateInstanceSteps, RatesAreSound, RP!InitRate DEF MCInit
<1>2. Inv /\ [MCNext]_<<vars, redis, part>> => Inv'
  <2> SUFFICES ASSUME Inv, [MCNext]_<<vars, redis, part>>, part' = "rate"
               PROVE  RP!RateInv' /\ RP!DayInv'
    OBVIOUS
  <2>1. part = "rate" /\ (Rate!Next \/ UNCHANGED Rate!vars)
    BY DEF MCNext, vars, redis, Rate!vars
  <2>2. RP!Next \/ UNCHANGED RP!vars
    BY <2>1, RateInstanceSteps DEF Rate!vars, RP!vars
  <2> QED
    BY <2>1, <2>2, RatesAreSound, RP!RateStep, RP!DayStep
<1>3. Inv => RateAtMostDoubles
  <2> SUFFICES ASSUME Inv, part = "rate"
               PROVE  Rate!TypeOK /\ Rate!KeysAgree /\ Rate!DailyBudget /\ Rate!RateIsBounded
    BY DEF RateAtMostDoubles
  <2>1. RP!TypeOK /\ RP!KeysAgree /\ RP!RateIsBounded /\ RP!DailyBudget
    BY RatesAreSound, RP!RatesFollow, RP!DaysFollow
  <2>2. Rate!TypeOK
    BY <2>1, RateInstanceComputes
    DEF RP!TypeOK, Rate!TypeOK, RP!Key, Rate!Key, RP!Request, Rate!Request
  <2>3. Rate!KeysAgree
    BY <2>1, RateInstanceComputes DEF RP!KeysAgree, Rate!KeysAgree
  <2>4. Rate!DailyBudget /\ Rate!RateIsBounded
    BY <2>1, RateInstanceComputes DEF RP!DailyBudget, Rate!DailyBudget, RP!RateIsBounded,
                                      Rate!RateIsBounded, RP!BucketsMet, Rate!BucketsMet
  <2> QED
    BY <2>2, <2>3, <2>4
<1> QED
  BY <1>1, <1>2, <1>3, PTL DEF MCSpec
=============================================================================
