------------------------- MODULE AuditOutboxProofs -------------------------
(***************************************************************************)
(* Proofs about AuditOutbox, for any sets of events, writers and           *)
(* dispatchers and any batch size.                                         *)
(***************************************************************************)
EXTENDS MCAuditOutbox, WellFoundedInduction, TLAPS

\* The shape of a row.
AnyRow ==
  [status : {"none", "pending", "published", "old", "purged"},
   owner : Dispatcher \cup {Nobody},
   lock : {"none", "live", "expired"},
   due : BOOLEAN]

\* The places of a run.
Places == {"idle", "claiming", "delivering", "delivered", "refused", "down"}

\* As much of TypeOK as the proof needs: nothing of the chain, nor of what a
\* batch is made of.
Shapes ==
  /\ outbox \in [Event -> AnyRow]
  /\ at \in [Dispatcher -> Places]
  /\ DOMAIN batch = Dispatcher

\* A dispatcher marks as published what it has just delivered.
DeliveredWasAccepted ==
  \A d \in Dispatcher : at[d] = "delivered" => Head(batch[d]) \in accepted

\* The inductive invariant.
IndInv == Shapes /\ DeliveredWasAccepted /\ PublishedWereAccepted

\* Initially there is nothing to deliver.
LEMMA InitIndInv == Init => IndInv
  BY DEF Init, IndInv, Shapes, AnyRow, Places, DeliveredWasAccepted, PublishedWereAccepted, NoRow

\* What is done to the rows, as far as their publication goes.
PublishesOnlyAccepted ==
  /\ accepted \subseteq accepted'
  /\ \A e \in Event :
       \/ outbox'[e].status \in {"none", "pending"}
       \/ outbox[e].status \in {"published", "old", "purged"}
       \/ e \in accepted

\* Steps that publish accepted events only preserve the invariant.
LEMMA StepIndInv ==
  IndInv /\ Shapes' /\ PublishesOnlyAccepted /\ DeliveredWasAccepted' => IndInv'
  BY DEF IndInv, Shapes, PublishesOnlyAccepted,
         DeliveredWasAccepted, PublishedWereAccepted

\* Marking the record at hand with a row of the right shape.
LEMMA MarkStep ==
  ASSUME Shapes, NEW d \in Dispatcher, NEW row, Mark(d, row),
         row \in AnyRow
  PROVE  /\ outbox' \in [Event -> AnyRow]
         /\ \A e \in Event : outbox'[e] = outbox[e] \/ (outbox'[e] = row /\ e = Head(batch[d]))
  BY DEF Shapes, Mark

\* What the handlers write are rows.
LEMMA RowShapes ==
  /\ NoRow \in AnyRow /\ Pending \in AnyRow
  /\ \A row \in AnyRow :
       /\ Published(row) \in AnyRow
       /\ Retried(row) \in AnyRow /\ Retried(row).status = row.status
       /\ [row EXCEPT !.status = "old"] \in AnyRow
       /\ [row EXCEPT !.status = "purged"] \in AnyRow
       /\ [row EXCEPT !.lock = "expired"] \in AnyRow
       /\ [row EXCEPT !.lock = "expired"].status = row.status
       /\ [row EXCEPT !.due = TRUE] \in AnyRow
       /\ [row EXCEPT !.due = TRUE].status = row.status
       /\ \A d \in Dispatcher : /\ Locked(row, d) \in AnyRow
                                /\ Locked(row, d).status = row.status
  BY DEF AnyRow, NoRow, Pending, Published, Retried, Locked

\* Every step preserves the invariant.
LEMMA NextIndInv == IndInv /\ [Next]_vars => IndInv'
<1> SUFFICES ASSUME IndInv, [Next]_vars PROVE IndInv'
  OBVIOUS
<1>0. Shapes /\ DeliveredWasAccepted
  BY DEF IndInv
<1> USE DEF PublishesOnlyAccepted, Places
<1>1. ASSUME NEW w \in Writer, Write(w) PROVE IndInv'
  <2>1. UNCHANGED <<at, batch, accepted>>
    BY <1>1, Zenon DEF Write, AppendAudit, Commit, Rollback
  <2>2. \/ \E e \in Event : outbox' = [outbox EXCEPT ![e] = Pending]
        \/ outbox' = [e \in Event |-> IF Undone(w, e) THEN NoRow ELSE outbox[e]]
        \/ UNCHANGED outbox
    BY <1>1, Zenon DEF Write, AppendAudit, Commit, Rollback
  <2>3. /\ \A e \in Event : outbox'[e] \in {outbox[e], NoRow, Pending}
        /\ outbox' = [e \in Event |-> outbox'[e]]
    BY <1>0, <2>2 DEF Shapes
  <2>4. Shapes'
    <3>1. outbox' \in [Event -> AnyRow]
      BY <1>0, <2>3, RowShapes DEF Shapes
    <3> QED
      BY <1>0, <2>1, <3>1 DEF Shapes
  <2>5. PublishesOnlyAccepted
    <3>1. NoRow.status = "none" /\ Pending.status = "pending"
      BY DEF NoRow, Pending
    <3>2. \A e \in Event : /\ outbox[e] \in AnyRow
                           /\ \/ outbox'[e].status \in {"none", "pending"}
                              \/ outbox'[e] = outbox[e]
      BY <1>0, <2>3, <3>1 DEF Shapes
    <3> QED
      BY <2>1, <3>2 DEF AnyRow
  <2> QED
    BY <1>0, <2>1, <2>4, <2>5, StepIndInv DEF DeliveredWasAccepted
<1>2. ASSUME NEW d \in Dispatcher, Purge(d) PROVE IndInv'
  <2>1. Shapes'
    BY <1>0, <1>2, RowShapes DEF Purge, Shapes
  <2>2. PublishesOnlyAccepted
    BY <1>0, <1>2 DEF Purge, Purgeable, Shapes, AnyRow
  <2>3. DeliveredWasAccepted'
    BY <1>0, <1>2 DEF Purge, Shapes, DeliveredWasAccepted
  <2> QED
    BY <2>1, <2>2, <2>3, StepIndInv
<1>3. ASSUME NEW d \in Dispatcher, Claim(d) PROVE IndInv'
  <2>1. outbox' = [e \in Event |-> IF Holds(d, e)' THEN Locked(outbox[e], d) ELSE outbox[e]]
    BY <1>3 DEF Claim
  <2>2. \A e \in Event : outbox'[e] \in {outbox[e], Locked(outbox[e], d)}
    BY <2>1
  <2>3. \A e \in Event : /\ outbox[e] \in AnyRow
                         /\ Locked(outbox[e], d) \in AnyRow
                         /\ Locked(outbox[e], d).status = outbox[e].status
    BY <1>0, RowShapes DEF Shapes
  <2>4. Shapes'
    <3>1. outbox' \in [Event -> AnyRow]
      BY <2>1, <2>3
    <3>2. at' \in [Dispatcher -> Places] /\ DOMAIN batch' = Dispatcher
      BY <1>0, <1>3, Zenon DEF Claim, Shapes
    <3> QED
      BY <3>1, <3>2 DEF Shapes
  <2>5. PublishesOnlyAccepted
    <3>1. UNCHANGED accepted
      BY <1>3 DEF Claim
    <3>2. \A e \in Event : outbox'[e].status = outbox[e].status
      BY <2>2, <2>3
    <3> QED
      BY <2>3, <3>1, <3>2 DEF AnyRow
  <2>6. DeliveredWasAccepted'
    BY <1>0, <1>3 DEF Claim, Shapes, DeliveredWasAccepted
  <2> QED
    BY <2>4, <2>5, <2>6, StepIndInv
<1>4. ASSUME NEW d \in Dispatcher, Deliver(d) PROVE IndInv'
  <2>1. Shapes'
    BY <1>0, <1>4 DEF Deliver, Shapes
  <2>2. PublishesOnlyAccepted
    BY <1>0, <1>4 DEF Deliver, Shapes, AnyRow
  <2>3. DeliveredWasAccepted'
    BY <1>0, <1>4 DEF Deliver, Shapes, DeliveredWasAccepted
  <2> QED
    BY <2>1, <2>2, <2>3, StepIndInv
<1>5. ASSUME NEW d \in Dispatcher, MarkPublished(d) PROVE IndInv'
  <2> DEFINE row == Published(outbox[Head(batch[d])])
  <2>1. Mark(d, row) \/ UNCHANGED outbox
    BY <1>5 DEF MarkPublished
  <2>2. /\ UNCHANGED accepted
        /\ Head(batch[d]) \in accepted
        /\ \A c \in Dispatcher \ {d} : at'[c] = at[c] /\ batch'[c] = batch[c]
        /\ at'[d] # "delivered"
        /\ at' \in [Dispatcher -> Places]
        /\ DOMAIN batch' = Dispatcher
    BY <1>0, <1>5 DEF MarkPublished, Advance, Shapes, DeliveredWasAccepted
  <2>3. row \in AnyRow
    BY DEF Published, AnyRow
  <2>4. Shapes'
    BY <1>0, <2>1, <2>2, <2>3, MarkStep DEF Shapes
  <2>5. \A e \in Event : outbox'[e] = outbox[e] \/ e \in accepted
    BY <1>0, <2>1, <2>2, <2>3, MarkStep
  <2>6. PublishesOnlyAccepted
    BY <1>0, <2>2, <2>5 DEF Shapes, AnyRow
  <2>7. DeliveredWasAccepted'
    BY <1>0, <2>2 DEF DeliveredWasAccepted
  <2> QED
    BY <2>4, <2>6, <2>7, StepIndInv
<1>6. ASSUME NEW d \in Dispatcher, MarkFailed(d) PROVE IndInv'
  <2> DEFINE e == Head(batch[d])
  <2>1. /\ UNCHANGED accepted
        /\ \A c \in Dispatcher \ {d} : at'[c] = at[c] /\ batch'[c] = batch[c]
        /\ at'[d] # "delivered"
        /\ at' \in [Dispatcher -> Places]
        /\ DOMAIN batch' = Dispatcher
    BY <1>0, <1>6 DEF MarkFailed, Advance, Shapes
  <2>2. \/ UNCHANGED outbox
        \/ outbox' = [outbox EXCEPT ![e] = Retried(outbox[e])]
    BY <1>6 DEF MarkFailed, Mark
  <2>3. Shapes'
    <3>1. outbox' \in [Event -> AnyRow]
      <4>1. ASSUME e \in Event PROVE Retried(outbox[e]) \in AnyRow
        BY <1>0, <4>1, RowShapes DEF Shapes
      <4> QED
        BY <1>0, <2>2, <4>1 DEF Shapes
    <3> QED
      BY <2>1, <3>1 DEF Shapes
  <2>4. PublishesOnlyAccepted
    <3>1. \A f \in Event : outbox[f] \in AnyRow /\ outbox'[f].status = outbox[f].status
      BY ZenonT(60), <1>0, <2>2, RowShapes DEF Shapes
    <3> QED
      BY <2>1, <3>1 DEF AnyRow
  <2>5. DeliveredWasAccepted'
    BY <1>0, <2>1 DEF DeliveredWasAccepted
  <2> QED
    BY <2>3, <2>4, <2>5, StepIndInv
<1>7. ASSUME NEW d \in Dispatcher, Crash(d) \/ Restart(d) PROVE IndInv'
  <2>1. Shapes'
    BY <1>0, <1>7 DEF Crash, Restart, Shapes
  <2>2. PublishesOnlyAccepted
    BY <1>0, <1>7 DEF Crash, Restart, Shapes, AnyRow
  <2>3. DeliveredWasAccepted'
    BY <1>0, <1>7 DEF Crash, Restart, Shapes, DeliveredWasAccepted
  <2> QED
    BY <2>1, <2>2, <2>3, StepIndInv
<1>8. ASSUME NEW e \in Event, LockExpires(e) \/ BackoffElapses(e) \/ Ages(e)
      PROVE IndInv'
  <2>1. /\ UNCHANGED <<at, batch, accepted>>
        /\ outbox[e] \in AnyRow
        /\ \/ outbox' = [outbox EXCEPT ![e] = [outbox[e] EXCEPT !.lock = "expired"]]
           \/ outbox' = [outbox EXCEPT ![e] = [outbox[e] EXCEPT !.due = TRUE]]
           \/ /\ outbox[e].status = "published"
              /\ outbox' = [outbox EXCEPT ![e] = [outbox[e] EXCEPT !.status = "old"]]
    BY <1>0, <1>8 DEF LockExpires, BackoffElapses, Ages, Shapes
  <2>2. Shapes'
    BY <1>0, <2>1, RowShapes DEF Shapes
  <2>3. PublishesOnlyAccepted
    <3>1. \A f \in Event : /\ outbox[f] \in AnyRow
                           /\ \/ outbox'[f].status = outbox[f].status
                              \/ outbox[f].status = "published"
      BY <1>0, <2>1, RowShapes DEF Shapes
    <3> QED
      BY <2>1, <3>1 DEF AnyRow
  <2>4. DeliveredWasAccepted'
    BY <1>0, <2>1 DEF DeliveredWasAccepted
  <2> QED
    BY <2>2, <2>3, <2>4, StepIndInv
<1>9. CASE UNCHANGED vars
  BY <1>9 DEF vars, IndInv, Shapes, DeliveredWasAccepted, PublishedWereAccepted
<1> QED
  BY <1>1, <1>2, <1>3, <1>4, <1>5, <1>6, <1>7, <1>8, <1>9 DEF Next, RunOnce

\* No row is published or purged before the sink has accepted its event.
THEOREM NothingIsForgotten == Spec => []PublishedWereAccepted
<1>1. IndInv => PublishedWereAccepted
  BY DEF IndInv
<1> QED
  BY <1>1, InitIndInv, NextIndInv, PTL DEF Spec

-----------------------------------------------------------------------------
(***************************************************************************)
(* Rows of the chain about some events.                                    *)
(***************************************************************************)

\* Induction over a set of numbers.
LEMMA SetInduction ==
  ASSUME NEW S, 0 \in S, \A n \in Nat : n \in S => n + 1 \in S
  PROVE  Nat \subseteq S
<1> DEFINE R == {p \in Nat \X Nat : p[1] < p[2]}
           T == Nat \ S
<1>1. IsWellFoundedOn(R, Nat)
  BY NatLessThanWellFounded DEF OpToRel
<1> HIDE DEF R
<1>2. SUFFICES ASSUME T # {} PROVE FALSE
  OBVIOUS
<1>3. PICK x \in T : \A y \in T : ~ (<<y, x>> \in R)
  BY <1>1, <1>2, WFMin
<1>4. x # 0 /\ x - 1 \in Nat
  OBVIOUS
<1>5. x - 1 \in T
  OBVIOUS
<1>6. <<x - 1, x>> \in R
  BY <1>4 DEF R
<1> QED
  BY <1>3, <1>5, <1>6

\* What the recursive function of Kept is at n, and what it means to be it.
KeptUpTo(s, E, f, n) ==
  IF n = 0 THEN <<>> ELSE IF s[n].id \in E THEN Append(f[n - 1], s[n]) ELSE f[n - 1]

IsKept(s, E, N, f) == f = [n \in 0..N |-> KeptUpTo(s, E, f, n)]

\* There is such a function, up to any length.
LEMMA KeptExists ==
  ASSUME NEW s, NEW E, NEW N \in Nat
  PROVE  \E f : IsKept(s, E, N, f)
<1> DEFINE S == {m \in Nat : \E f : IsKept(s, E, m, f)}
<1>1. 0 \in S
  <2> DEFINE f == [n \in 0..0 |-> <<>>]
  <2>1. IsKept(s, E, 0, f)
    BY DEF IsKept, KeptUpTo
  <2> QED
    BY <2>1
<1>2. ASSUME NEW m \in Nat, m \in S PROVE m + 1 \in S
  <2>1. PICK f : IsKept(s, E, m, f)
    BY <1>2
  <2> DEFINE g == [n \in 0..(m + 1) |-> IF n = m + 1 THEN KeptUpTo(s, E, f, n) ELSE f[n]]
  <2>2. ASSUME NEW n \in 0..(m + 1) PROVE g[n] = KeptUpTo(s, E, g, n)
    <3>1. CASE n \in 0..m
      <4>1. g[n] = f[n] /\ (n # 0 => g[n - 1] = f[n - 1])
        BY <3>1
      <4>2. f[n] = KeptUpTo(s, E, f, n)
        BY <2>1, <3>1 DEF IsKept
      <4> QED
        BY <3>1, <4>1, <4>2 DEF KeptUpTo
    <3>2. CASE n = m + 1
      <4>1. g[n] = KeptUpTo(s, E, f, n) /\ g[n - 1] = f[n - 1] /\ n # 0
        BY <3>2
      <4> QED
        BY <4>1 DEF KeptUpTo
    <3> QED
      BY <3>1, <3>2
  <2>3. IsKept(s, E, m + 1, g)
    BY <2>2 DEF IsKept
  <2> HIDE DEF g
  <2> QED
    BY <2>3
<1> HIDE DEF S
<1>3. N \in S
  BY <1>1, <1>2, SetInduction
<1> QED
  BY <1>3 DEF S

\* Hence Kept can be computed record by record.
LEMMA KeptBy ==
  ASSUME NEW s, NEW E, Len(s) \in Nat
  PROVE  \E f : /\ f[0] = <<>>
                /\ \A n \in 1..Len(s) :
                     f[n] = IF s[n].id \in E THEN Append(f[n - 1], s[n]) ELSE f[n - 1]
                /\ Kept(s, E) = f[Len(s)]
<1> DEFINE f == CHOOSE f : IsKept(s, E, Len(s), f)
<1>1. IsKept(s, E, Len(s), f)
  BY KeptExists
<1>2. Kept(s, E) = f[Len(s)]
  BY DEF Kept, IsKept, KeptUpTo
<1> HIDE DEF f
<1>3. \A n \in 0..Len(s) : f[n] = KeptUpTo(s, E, f, n)
  BY <1>1 DEF IsKept
<1>4. 0 \in 0..Len(s) /\ \A n \in 1..Len(s) : n \in 0..Len(s) /\ n # 0
  OBVIOUS
<1> QED
  BY <1>2, <1>3, <1>4 DEF KeptUpTo

\* What it keeps are rows about the events asked for.
LEMMA KeptMembers ==
  ASSUME NEW R, NEW s \in Seq(R), NEW E
  PROVE  /\ Kept(s, E) \in Seq(R)
         /\ \A i \in 1..Len(Kept(s, E)) :
              \E j \in 1..Len(s) : s[j].id \in E /\ Kept(s, E)[i] = s[j]
<1> DEFINE Fits(t, n) == /\ t \in Seq(R)
                         /\ \A i \in 1..Len(t) : \E j \in 1..n : s[j].id \in E /\ t[i] = s[j]
<1>1. Len(s) \in Nat /\ \A i \in 1..Len(s) : s[i] \in R
  OBVIOUS
<1>2. PICK f : /\ f[0] = <<>>
               /\ \A n \in 1..Len(s) :
                    f[n] = IF s[n].id \in E THEN Append(f[n - 1], s[n]) ELSE f[n - 1]
               /\ Kept(s, E) = f[Len(s)]
  BY <1>1, KeptBy
<1> DEFINE S == {n \in Nat : n <= Len(s) => Fits(f[n], n)}
<1>3. 0 \in S
  <2>1. <<>> \in Seq(R) /\ Len(<<>>) = 0 /\ 1..0 = {}
    OBVIOUS
  <2>2. Fits(<<>>, 0)
    BY <2>1
  <2> HIDE DEF Fits
  <2> QED
    BY <1>2, <2>2
<1>4. ASSUME NEW n \in Nat, n \in S PROVE n + 1 \in S
  <2> SUFFICES ASSUME n + 1 <= Len(s) PROVE Fits(f[n + 1], n + 1)
    OBVIOUS
  <2>1. Fits(f[n], n)
    BY <1>1, <1>4
  <2>2. /\ n + 1 \in 1..Len(s) /\ s[n + 1] \in R
        /\ f[n + 1] = IF s[n + 1].id \in E THEN Append(f[n], s[n + 1]) ELSE f[n]
    BY <1>1, <1>2
  <2>3. CASE s[n + 1].id \in E
    <3>1. /\ f[n + 1] \in Seq(R) /\ Len(f[n + 1]) = Len(f[n]) + 1
          /\ \A i \in 1..Len(f[n]) : f[n + 1][i] = f[n][i]
          /\ f[n + 1][Len(f[n]) + 1] = s[n + 1]
      BY <2>1, <2>2, <2>3
    <3>2. ASSUME NEW i \in 1..Len(f[n + 1])
          PROVE  \E j \in 1..(n + 1) : s[j].id \in E /\ f[n + 1][i] = s[j]
      <4>1. CASE i \in 1..Len(f[n])
        BY <2>1, <3>1, <4>1
      <4>2. CASE i = Len(f[n]) + 1
        BY <2>3, <3>1, <4>2
      <4> QED
        BY <2>1, <3>1, <4>1, <4>2
    <3> QED
      BY <3>1, <3>2
  <2>4. CASE s[n + 1].id \notin E
    BY <2>1, <2>2, <2>4
  <2> QED
    BY <2>3, <2>4
<1> HIDE DEF S
<1>5. Len(s) \in S
  BY <1>1, <1>3, <1>4, SetInduction
<1>6. Fits(f[Len(s)], Len(s))
  BY <1>1, <1>5 DEF S
<1> QED
  BY <1>2, <1>6

\* It keeps no more of them than there are.
LEMMA KeptDistinct ==
  ASSUME NEW R, NEW s \in Seq(R), NEW E,
         \A i, j \in 1..Len(s) : s[i].id = s[j].id => i = j
  PROVE  \A i, j \in 1..Len(Kept(s, E)) : Kept(s, E)[i].id = Kept(s, E)[j].id => i = j
<1> DEFINE Fits(t, n) ==
      /\ t \in Seq(R)
      /\ \A i \in 1..Len(t) : \E j \in 1..n : t[i] = s[j]
      /\ \A i, j \in 1..Len(t) : t[i].id = t[j].id => i = j
<1>1. Len(s) \in Nat /\ \A i \in 1..Len(s) : s[i] \in R
  OBVIOUS
<1>2. PICK f : /\ f[0] = <<>>
               /\ \A n \in 1..Len(s) :
                    f[n] = IF s[n].id \in E THEN Append(f[n - 1], s[n]) ELSE f[n - 1]
               /\ Kept(s, E) = f[Len(s)]
  BY <1>1, KeptBy
<1> DEFINE S == {n \in Nat : n <= Len(s) => Fits(f[n], n)}
<1>3. 0 \in S
  <2>1. <<>> \in Seq(R) /\ Len(<<>>) = 0 /\ 1..0 = {}
    OBVIOUS
  <2>2. Fits(<<>>, 0)
    BY <2>1
  <2> HIDE DEF Fits
  <2> QED
    BY <1>2, <2>2
<1>4. ASSUME NEW n \in Nat, n \in S PROVE n + 1 \in S
  <2> SUFFICES ASSUME n + 1 <= Len(s) PROVE Fits(f[n + 1], n + 1)
    OBVIOUS
  <2>1. Fits(f[n], n)
    BY <1>1, <1>4
  <2>2. /\ n + 1 \in 1..Len(s) /\ s[n + 1] \in R
        /\ f[n + 1] = IF s[n + 1].id \in E THEN Append(f[n], s[n + 1]) ELSE f[n]
    BY <1>1, <1>2
  <2>3. CASE s[n + 1].id \in E
    <3>1. /\ f[n + 1] \in Seq(R) /\ Len(f[n + 1]) = Len(f[n]) + 1
          /\ \A i \in 1..Len(f[n]) : f[n + 1][i] = f[n][i]
          /\ f[n + 1][Len(f[n]) + 1] = s[n + 1]
      BY <2>1, <2>2, <2>3
    <3>2. ASSUME NEW i \in 1..Len(f[n + 1])
          PROVE  \E j \in 1..(n + 1) : f[n + 1][i] = s[j]
      BY SMTT(30), <2>1, <3>1
    <3>3. ASSUME NEW i \in 1..Len(f[n]) PROVE f[n + 1][i].id # s[n + 1].id
      <4>1. PICK j \in 1..n : f[n][i] = s[j]
        BY <2>1
      <4> QED
        BY <2>2, <3>1, <4>1
    <3>4. ASSUME NEW i \in 1..Len(f[n + 1]), NEW j \in 1..Len(f[n + 1]),
                 f[n + 1][i].id = f[n + 1][j].id
          PROVE  i = j
      <4>1. CASE i \in 1..Len(f[n]) /\ j \in 1..Len(f[n])
        BY <2>1, <3>1, <3>4, <4>1
      <4>2. CASE i = Len(f[n]) + 1 \/ j = Len(f[n]) + 1
        BY SMTT(30), <2>1, <3>1, <3>3, <3>4, <4>2
      <4> QED
        BY <2>1, <3>1, <4>1, <4>2
    <3> QED
      BY <3>1, <3>2, <3>4
  <2>4. CASE s[n + 1].id \notin E
    BY <2>1, <2>2, <2>4
  <2> QED
    BY <2>3, <2>4
<1> HIDE DEF S
<1>5. Len(s) \in S
  BY <1>1, <1>3, <1>4, SetInduction
<1>6. Fits(f[Len(s)], Len(s))
  BY <1>1, <1>5 DEF S
<1> QED
  BY <1>2, <1>6

\* If the events asked for come before the others, it keeps a prefix.
LEMMA KeptPrefix ==
  ASSUME NEW R, NEW s \in Seq(R), NEW E, NEW k \in 0..Len(s),
         \A i \in 1..Len(s) : s[i].id \in E <=> i <= k
  PROVE  Kept(s, E) = SubSeq(s, 1, k)
<1> DEFINE Upto(n) == SubSeq(s, 1, IF n <= k THEN n ELSE k)
<1>1. Len(s) \in Nat /\ \A i \in 1..Len(s) : s[i] \in R
  OBVIOUS
<1>2. PICK f : /\ f[0] = <<>>
               /\ \A n \in 1..Len(s) :
                    f[n] = IF s[n].id \in E THEN Append(f[n - 1], s[n]) ELSE f[n - 1]
               /\ Kept(s, E) = f[Len(s)]
  BY <1>1, KeptBy
<1> DEFINE S == {n \in Nat : n <= Len(s) => f[n] = Upto(n)}
<1>3. 0 \in S
  <2>1. Upto(0) = <<>>
    BY <1>1
  <2> HIDE DEF Upto
  <2> QED
    BY <1>2, <2>1
<1>4. ASSUME NEW n \in Nat, n \in S PROVE n + 1 \in S
  <2> SUFFICES ASSUME n + 1 <= Len(s) PROVE f[n + 1] = Upto(n + 1)
    OBVIOUS
  <2>1. f[n] = Upto(n)
    BY <1>1, <1>4
  <2>2. /\ n + 1 \in 1..Len(s) /\ s[n + 1] \in R
        /\ f[n + 1] = IF s[n + 1].id \in E THEN Append(f[n], s[n + 1]) ELSE f[n]
    BY <1>1, <1>2
  <2>3. CASE n + 1 <= k
    <3>1. f[n + 1] = Append(SubSeq(s, 1, n), s[n + 1])
      BY <2>1, <2>2, <2>3
    <3>2. SubSeq(s, 1, n + 1) = Append(SubSeq(s, 1, n), s[n + 1])
      BY <1>1, <2>2
    <3> QED
      BY <2>3, <3>1, <3>2
  <2>4. CASE ~(n + 1 <= k)
    BY <2>1, <2>2, <2>4
  <2> QED
    BY <2>3, <2>4
<1> HIDE DEF S
<1>5. Len(s) \in S
  BY <1>1, <1>3, <1>4, SetInduction
<1>6. f[Len(s)] = Upto(Len(s)) /\ Upto(Len(s)) = SubSeq(s, 1, k)
  BY <1>1, <1>5 DEF S
<1> QED
  BY <1>2, <1>6

-----------------------------------------------------------------------------
(***************************************************************************)
(* The chain.                                                              *)
(***************************************************************************)

\* The records of the chain.
Record == [id : Event, prev : Event \cup {NoEvent}]

\* What the type says of the chain.
LEMMA ChainRecords ==
  ASSUME TypeOK
  PROVE  /\ chain \in Seq(Record) /\ Len(chain) \in Nat /\ DOMAIN chain = 1..Len(chain)
         /\ \A i \in 1..Len(chain) : chain[i] \in Record /\ chain[i].id \in Event
<1>1. chain \in Seq(Record)
  BY DEF TypeOK, Record
<1>2. \A r \in Record : r.id \in Event
  BY DEF Record
<1> HIDE DEF Record
<1> QED
  BY <1>1, <1>2

USE DEF Opened

\* What other connections see is the chain up to its first open event.
LEMMA CommittedPrefix ==
  ASSUME TypeOK, NEW n \in 0..Len(chain),
         \A i \in DOMAIN chain : chain[i].id \notin Opened <=> i <= n
  PROVE  CommittedChain = SubSeq(chain, 1, n)
<1> DEFINE E == {e \in Event : e \notin Opened}
<1>1. /\ chain \in Seq(Record) /\ DOMAIN chain = 1..Len(chain)
      /\ \A i \in 1..Len(chain) : chain[i].id \in Event
  BY ChainRecords
<1>2. \A i \in 1..Len(chain) : chain[i].id \in E <=> i <= n
  BY <1>1
<1> HIDE DEF E
<1>3. Kept(chain, E) = SubSeq(chain, 1, n)
  BY <1>1, <1>2, KeptPrefix
<1> QED
  BY <1>3 DEF CommittedChain, E, Committed

\* The writer that holds the lock of the chain sees all of it.
LEMMA NewestIsLast ==
  ASSUME TypeOK, NEW w \in Writer, ChainFree(w)
  PROVE  NewestFor(w) = IF chain = <<>> THEN NoEvent ELSE chain[Len(chain)].id
<1> DEFINE E == {e \in Event : e \notin Opened \/ e \in open[w]}
<1>1. /\ chain \in Seq(Record) /\ Len(chain) \in Nat
      /\ \A i \in 1..Len(chain) : chain[i].id \in Event
  BY ChainRecords
<1>2. \A e : e \in Opened => e \in open[w]
  BY DEF ChainFree, Opened
<1>5. \A i \in 1..Len(chain) : chain[i].id \in E <=> i <= Len(chain)
  BY <1>1, <1>2
<1>3. SubSeq(chain, 1, Len(chain)) = chain /\ Len(chain) \in 0..Len(chain)
  BY <1>1
<1> HIDE DEF E
<1>4. Kept(chain, E) = chain
  BY <1>1, <1>5, <1>3, KeptPrefix
<1> QED
  BY <1>4 DEF NewestFor, E, Committed

\* _append_audit links the new row to the last one.
LEMMA AppendInv == ASSUME ChainInv, NEW w \in Writer, AppendAudit(w) PROVE ChainInv'
<1> USE DEF ChainInv
<1>1. PICK e \in Event :
        /\ \A i \in DOMAIN chain : chain[i].id # e
        /\ ChainFree(w)
        /\ chain'  = Append(chain, [id |-> e, prev |-> NewestFor(w)])
        /\ open'   = [open EXCEPT ![w] = @ \cup {e}]
        /\ outbox' = [outbox EXCEPT ![e] = Pending]
        /\ UNCHANGED <<at, batch, accepted>>
  BY DEF AppendAudit
<1>2. /\ chain \in Seq(Record) /\ Len(chain) \in Nat /\ DOMAIN chain = 1..Len(chain)
      /\ \A i \in 1..Len(chain) : chain[i] \in Record /\ chain[i].id \in Event
  BY ChainRecords
<1>3. NewestFor(w) = IF Len(chain) = 0 THEN NoEvent ELSE chain[Len(chain)].id
  BY <1>1, <1>2, NewestIsLast
<1>4. [id |-> e, prev |-> NewestFor(w)] \in Record
  BY <1>2, <1>3 DEF Record
<1>5. /\ chain' \in Seq(Record) /\ Len(chain') = Len(chain) + 1
      /\ DOMAIN chain' = 1..(Len(chain) + 1)
      /\ \A i \in 1..Len(chain) : chain'[i] = chain[i]
      /\ chain'[Len(chain) + 1] = [id |-> e, prev |-> NewestFor(w)]
  BY <1>1, <1>2, <1>4
<1>6. /\ Chained' = Chained \cup {e}
      /\ e \notin Chained
      /\ \A f \in Event \ {e} : f \notin Opened' <=> f \notin Opened
      /\ e \in Opened'
  <2>1. Chained' = Chained \cup {e} /\ e \notin Chained
    BY <1>1, <1>2, <1>5 DEF Chained
  <2>2. \A v \in Writer : open'[v] = IF v = w THEN open[v] \cup {e} ELSE open[v]
    BY <1>1 DEF TypeOK
  <2> QED
    BY <2>1, <2>2 DEF Opened
<1>7. TypeOK'
  <2>1. chain' \in Seq([id : Event, prev : Event \cup {NoEvent}])
    BY <1>5 DEF Record
  <2>2. outbox' \in [Event -> Row]
    BY <1>1 DEF TypeOK, Pending, Row
  <2> QED
    BY <1>1, <2>1, <2>2 DEF TypeOK
<1>8. ChainIsLinked'
  <2>1. ASSUME NEW i \in 1..(Len(chain) + 1), NEW j \in 1..(Len(chain) + 1),
               chain'[i].id = chain'[j].id
        PROVE  i = j
    BY <1>1, <1>2, <1>5, <2>1 DEF ChainIsLinked
  <2>2. ASSUME NEW i \in 1..(Len(chain) + 1)
        PROVE  chain'[i].prev = IF i = 1 THEN NoEvent ELSE chain'[i - 1].id
    <3>1. CASE i \in 1..Len(chain)
      <4>1. chain[i].prev = IF i = 1 THEN NoEvent ELSE chain[i - 1].id
        BY <1>2, <3>1 DEF ChainIsLinked
      <4> QED
        BY <1>2, <1>5, <3>1, <4>1
    <3>2. CASE i = Len(chain) + 1
      BY <1>2, <1>3, <1>5, <3>2
    <3> QED
      BY <1>2, <3>1, <3>2
  <2> QED
    BY <1>5, <2>1, <2>2 DEF ChainIsLinked
<1>9. OpenIsLast'
  <2>1. \A v \in Writer : open'[v] = IF v = w THEN open[v] \cup {e} ELSE open[v]
    BY <1>1 DEF TypeOK
  <2>2. \A u, v \in Writer : open'[u] # {} /\ open'[v] # {} => u = v
    BY <1>1, <2>1 DEF ChainFree
  <2>3. \A v \in Writer : open'[v] \subseteq Chained'
    <3>1. \A v \in Writer : open[v] \subseteq Chained
      BY DEF OpenIsLast
    <3> HIDE DEF ChainInv
    <3> QED
      BY <1>6, <2>1, <3>1
  <2>4. PICK n \in 0..Len(chain) : \A i \in DOMAIN chain : chain[i].id \notin Opened <=> i <= n
    BY DEF OpenIsLast
  <2>5. n \in 0..Len(chain') /\ \A i \in DOMAIN chain' : chain'[i].id \notin Opened' <=> i <= n
    <3>1. ASSUME NEW i \in 1..Len(chain) PROVE chain'[i].id \notin Opened' <=> i <= n
      <4>1. chain[i].id \in Event \ {e}
        BY <1>1, <1>2 DEF Record
      <4> QED
        BY <1>2, <1>5, <1>6, <2>4, <4>1
    <3>2. chain'[Len(chain) + 1].id \in Opened'
      BY <1>5, <1>6
    <3> QED
      BY <1>2, <1>5, <2>4, <3>1, <3>2
  <2> QED
    BY <2>2, <2>3, <2>5 DEF OpenIsLast
<1>10. RowsAreChained'
  <2>1. \A f \in Event : outbox'[f] = IF f = e THEN Pending ELSE outbox[f]
    BY <1>1 DEF TypeOK
  <2>2. Pending.status # "none" /\ Pending.lock = "none"
    BY DEF Pending
  <2>3. \A d, f : Holds(d, f)' <=> Holds(d, f)
    BY <1>1 DEF Holds
  <2>4. accepted' = accepted /\ accepted \subseteq Event
    BY <1>1 DEF TypeOK
  <2> QED
    BY <1>6, <2>1, <2>2, <2>3, <2>4 DEF RowsAreChained
<1>11. BatchesFit'
  BY <1>1 DEF BatchesFit
<1> QED
  BY <1>7, <1>8, <1>9, <1>10, <1>11

\* A commit leaves nothing open.
LEMMA CommitInv == ASSUME ChainInv, NEW w \in Writer, Commit(w) PROVE ChainInv'
<1> USE DEF ChainInv
<1>1. /\ open[w] # {} /\ open' = [open EXCEPT ![w] = {}]
      /\ UNCHANGED <<chain, outbox, at, batch, accepted>>
  BY DEF Commit
<1>2. \A v \in Writer : open'[v] = {}
  BY <1>1 DEF TypeOK, OpenIsLast
<1>3. \A e : e \notin Opened'
  BY <1>2 DEF Opened
<1>4. Chained' = Chained /\ \A d, e : Holds(d, e)' <=> Holds(d, e)
  BY <1>1 DEF Chained, Holds
<1>5. TypeOK' /\ ChainIsLinked' /\ BatchesFit'
  BY <1>1 DEF TypeOK, ChainIsLinked, BatchesFit
<1>6. OpenIsLast'
  <2>1. Len(chain) \in Nat /\ DOMAIN chain = 1..Len(chain)
    BY DEF TypeOK
  <2>2. Len(chain') \in 0..Len(chain') /\ \A i \in DOMAIN chain' : chain'[i].id \notin Opened' <=> i <= Len(chain')
    BY <1>1, <1>3, <2>1
  <2> QED
    BY <1>2, <2>2 DEF OpenIsLast
<1>7. RowsAreChained'
  BY <1>1, <1>3, <1>4 DEF RowsAreChained
<1> QED
  BY <1>5, <1>6, <1>7

\* A rollback takes the end of the chain away, and nothing else.
LEMMA RollbackInv == ASSUME ChainInv, NEW w \in Writer, Rollback(w) PROVE ChainInv'
<1> USE DEF ChainInv
<1>1. /\ open[w] # {} /\ chain' = Kept(chain, Event \ open[w])
      /\ outbox' = [e \in Event |-> IF e \in open[w] THEN NoRow ELSE outbox[e]]
      /\ open' = [open EXCEPT ![w] = {}]
      /\ UNCHANGED <<at, batch, accepted>>
  BY DEF Rollback, Undone
<1>2. /\ \A v \in Writer : open'[v] = {}
      /\ \A e : e \notin Opened <=> e \notin open[w]
  BY <1>1 DEF TypeOK, OpenIsLast, Opened
<1>3. PICK n \in 0..Len(chain) : \A i \in DOMAIN chain : chain[i].id \notin Opened <=> i <= n
  BY DEF OpenIsLast
<1>4. /\ chain \in Seq(Record) /\ Len(chain) \in Nat /\ DOMAIN chain = 1..Len(chain)
      /\ \A i \in 1..Len(chain) : chain[i] \in Record /\ chain[i].id \in Event
  BY ChainRecords
<1>5. chain' = SubSeq(chain, 1, n)
  <2>1. \A i \in 1..Len(chain) : chain[i].id \in Event \ open[w] <=> i <= n
    BY <1>2, <1>3, <1>4
  <2> QED
    BY <1>1, <1>4, <2>1, KeptPrefix
<1>6. /\ chain' \in Seq(Record) /\ Len(chain') = n /\ DOMAIN chain' = 1..n
      /\ \A i \in 1..n : chain'[i] = chain[i]
  BY <1>4, <1>5
<1>7. \A e : e \in Chained' <=> e \in Chained /\ e \notin Opened
  BY <1>3, <1>4, <1>6 DEF Chained
<1>8. \A e : e \notin Opened'
  BY <1>2 DEF Opened
<1>9. \A e \in Event : outbox'[e] = IF e \notin Opened THEN outbox[e] ELSE NoRow
  BY <1>1, <1>2
<1>10. TypeOK'
  <2>1. chain' \in Seq([id : Event, prev : Event \cup {NoEvent}])
    BY <1>6 DEF Record
  <2>2. outbox' \in [Event -> Row]
    BY <1>1 DEF TypeOK, Row
  <2> QED
    BY <1>1, <2>1, <2>2 DEF TypeOK
<1>11. ChainIsLinked'
  <2>1. n \in Nat /\ n <= Len(chain)
    BY <1>4
  <2> QED
    BY <1>4, <1>6, <2>1 DEF ChainIsLinked
<1>12. OpenIsLast'
  <2>1. n \in 0..Len(chain') /\ \A i \in DOMAIN chain' : chain'[i].id \notin Opened' <=> i <= n
    BY <1>4, <1>6, <1>8
  <2> QED
    BY <1>2, <2>1 DEF OpenIsLast
<1>13. RowsAreChained'
  <2>1. NoRow.status = "none" /\ NoRow.lock = "none"
    BY DEF NoRow
  <2>2. \A d, e : Holds(d, e)' <=> Holds(d, e)
    BY <1>1 DEF Holds
  <2>3. accepted' = accepted
    BY <1>1
  <2> QED
    BY <1>7, <1>8, <1>9, <2>1, <2>2, <2>3 DEF RowsAreChained
<1>14. BatchesFit'
  BY <1>1 DEF BatchesFit
<1> QED
  BY <1>10, <1>11, <1>12, <1>13, <1>14

-----------------------------------------------------------------------------
(***************************************************************************)
(* The dispatchers.                                                        *)
(***************************************************************************)

\* A step that leaves the chain alone.
LEMMA QuietChain ==
  ASSUME ChainInv, UNCHANGED <<chain, open>>, TypeOK', BatchesFit',
         \A e \in Event : outbox'[e].status = "none" <=> outbox[e].status = "none",
         \A e \in Event : outbox'[e].lock # "none" => outbox[e].lock # "none" \/ e \notin Opened,
         \A d \in Dispatcher, e \in Event : Holds(d, e)' => e \in Chained /\ e \notin Opened,
         \A e \in accepted' : e \in Chained /\ e \notin Opened
  PROVE  ChainInv'
<1>1. Chained' = Chained /\ Opened' = Opened
  BY DEF Chained, Opened
<1>2. ChainIsLinked' /\ OpenIsLast'
  BY <1>1 DEF ChainInv, ChainIsLinked, OpenIsLast
<1>3. RowsAreChained'
  BY <1>1 DEF ChainInv, RowsAreChained
<1> QED
  BY <1>2, <1>3 DEF ChainInv

\* A batch that claim_outbox_events may return.
IsBatch(rows) ==
  /\ rows \in Seq(Event)
  /\ \A i, j \in 1..Len(rows) : rows[i] = rows[j] => i = j
  /\ \A i \in 1..Len(rows) : Claimable(rows[i])

\* The claimable rows that were created first are one.
LEMMA FirstRowsAreABatch ==
  ASSUME ChainInv, NEW m, m \in 0..Len(Kept(chain, {e \in Event : Claimable(e)}))
  PROVE  IsBatch([i \in 1..m |-> Kept(chain, {e \in Event : Claimable(e)})[i].id])
<1> DEFINE E == {e \in Event : Claimable(e)}
           rows == Kept(chain, E)
           ids == [i \in 1..m |-> rows[i].id]
<1>1. chain \in Seq(Record) /\ DOMAIN chain = 1..Len(chain)
  BY ChainRecords DEF ChainInv
<1>2. \A i, j \in 1..Len(chain) : chain[i].id = chain[j].id => i = j
  BY <1>1 DEF ChainInv, ChainIsLinked
<1> HIDE DEF E
<1>3. /\ rows \in Seq(Record)
      /\ \A i \in 1..Len(rows) : \E j \in 1..Len(chain) : chain[j].id \in E /\ rows[i] = chain[j]
  BY <1>1, KeptMembers
<1>4. \A i, j \in 1..Len(rows) : rows[i].id = rows[j].id => i = j
  BY <1>1, <1>2, KeptDistinct
<1>5. \A i \in 1..Len(rows) : rows[i].id \in E
  BY <1>3
<1> HIDE DEF rows
<1>6. Len(rows) \in Nat /\ m \in Nat /\ m <= Len(rows)
  BY <1>3 DEF rows, E
<1>7. /\ \A i \in 1..m : ids[i] \in Event /\ Claimable(ids[i])
      /\ \A i, j \in 1..m : ids[i] = ids[j] => i = j
  BY <1>4, <1>5, <1>6 DEF E
<1>8. ids \in Seq(Event) /\ Len(ids) = m
  BY <1>6, <1>7
<1> HIDE DEF ids
<1>9. IsBatch(ids)
  BY <1>7, <1>8 DEF IsBatch
<1> QED
  BY <1>9 DEF ids, rows, E

\* The claim picks what a claim may pick.
LEMMA OldestIsABatch == ASSUME ChainInv PROVE IsBatch(Oldest)
<1> DEFINE rows == Kept(chain, {e \in Event : Claimable(e)})
           m == IF Len(rows) < Batch THEN Len(rows) ELSE Batch
<1>1. rows \in Seq(Record)
  BY ChainRecords, KeptMembers DEF ChainInv
<1> HIDE DEF rows
<1>2. m \in 0..Len(rows)
  BY <1>1, BatchAssumption
<1> QED
  BY <1>2, FirstRowsAreABatch DEF Oldest, rows

\* claim_outbox_events with the rows it returns.
TakesBatch(d, rows) ==
  /\ at[d] = "claiming"
  /\ batch' = [batch EXCEPT ![d] = rows]
  /\ at' = [at EXCEPT ![d] = IF rows = <<>> THEN "idle" ELSE "delivering"]
  /\ outbox' = [e \in Event |-> IF Holds(d, e)' THEN Locked(outbox[e], d) ELSE outbox[e]]
  /\ UNCHANGED <<chain, open, accepted>>

\* What it does to batches and rows.
LEMMA TakesBatchMeans ==
  ASSUME ChainInv, NEW d \in Dispatcher, NEW rows, IsBatch(rows), TakesBatch(d, rows)
  PROVE  /\ \A c \in Dispatcher \ {d} : at'[c] = at[c] /\ batch'[c] = batch[c]
         /\ batch'[d] = rows
         /\ \A c \in Dispatcher \ {d}, e \in Event : Holds(c, e)' <=> Holds(c, e)
         /\ \A e \in Event : Holds(d, e)' => Claimable(e)
         /\ \A e \in Event :
              outbox'[e] = IF Holds(d, e)' THEN [outbox[e] EXCEPT !.owner = d, !.lock = "live"]
                           ELSE outbox[e]
<1>1. /\ \A c \in Dispatcher \ {d} : at'[c] = at[c] /\ batch'[c] = batch[c]
      /\ batch'[d] = rows
  BY DEF TakesBatch, ChainInv, TypeOK
<1>2. \A e \in Event : Holds(d, e)' => Claimable(e)
  BY <1>1 DEF Holds, IsBatch
<1> QED
  BY <1>1, <1>2 DEF Holds, TakesBatch, Locked

\* Taking a batch keeps the invariant and every live lock.
LEMMA TakesBatchInv ==
  ASSUME ChainInv, NEW d \in Dispatcher, NEW rows, IsBatch(rows), TakesBatch(d, rows)
  PROVE  ChainInv' /\ \A e \in Event : RespectsLock(e)
<1>1. /\ \A c \in Dispatcher \ {d} : at'[c] = at[c] /\ batch'[c] = batch[c]
      /\ batch'[d] = rows
      /\ \A c \in Dispatcher \ {d}, e \in Event : Holds(c, e)' <=> Holds(c, e)
      /\ \A e \in Event : Holds(d, e)' => Claimable(e)
      /\ \A e \in Event :
           outbox'[e] = IF Holds(d, e)' THEN [outbox[e] EXCEPT !.owner = d, !.lock = "live"]
                        ELSE outbox[e]
  BY TakesBatchMeans
<1>2. ASSUME NEW e \in Event
      PROVE  /\ outbox'[e] \in Row
             /\ outbox'[e].status = outbox[e].status
             /\ outbox'[e].lock # "none" => outbox[e].lock # "none" \/ e \notin Opened
             /\ outbox[e].lock = "live" => outbox'[e] = outbox[e]
  <2>1. outbox[e] \in Row
    BY DEF ChainInv, TypeOK
  <2>2. CASE ~ Holds(d, e)'
    BY <1>1, <2>1, <2>2
  <2>3. CASE Holds(d, e)'
    <3>1. /\ outbox'[e] = [outbox[e] EXCEPT !.owner = d, !.lock = "live"]
          /\ outbox[e].status = "pending" /\ outbox[e].due /\ outbox[e].lock # "live"
          /\ e \notin Opened
      BY <1>1, <2>3 DEF Claimable, Committed
    <3> QED
      BY <2>1, <3>1 DEF Row, NoRow
  <2> QED
    BY <2>2, <2>3
<1>3. TypeOK'
  <2>1. outbox' \in [Event -> Row]
    BY <1>2 DEF TakesBatch
  <2>2. batch' \in [Dispatcher -> Seq(Event)]
    BY DEF TakesBatch, IsBatch, ChainInv, TypeOK
  <2>3. at' \in [Dispatcher -> Places]
    BY DEF TakesBatch, ChainInv, TypeOK, Places
  <2> QED
    BY <2>1, <2>2, <2>3 DEF TakesBatch, ChainInv, TypeOK, Places
<1>4. BatchesFit'
  <2>1. ASSUME NEW c \in Dispatcher
        PROVE  /\ at'[c] \in {"delivering", "delivered", "refused"} <=> batch'[c] # <<>>
               /\ \A i, j \in DOMAIN batch'[c] : batch'[c][i] = batch'[c][j] => i = j
    <3>1. CASE c = d
      <4>1. at'[c] = IF rows = <<>> THEN "idle" ELSE "delivering"
        BY <3>1 DEF TakesBatch, ChainInv, TypeOK
      <4>2. at'[c] \in {"delivering", "delivered", "refused"} <=> batch'[c] # <<>>
        BY <1>1, <3>1, <4>1, Zenon
      <4>3. DOMAIN rows = 1..Len(rows) /\ batch'[c] = rows
        <5>1. rows \in Seq(Event)
          BY DEF IsBatch
        <5>2. DOMAIN rows = 1..Len(rows)
          BY <5>1
        <5>3. batch'[c] = rows
          BY <1>1, <3>1, Zenon
        <5> QED
          BY <5>2, <5>3
      <4>4. \A i, j \in 1..Len(rows) : rows[i] = rows[j] => i = j
        BY DEF IsBatch
      <4> QED
        BY <4>2, <4>3, <4>4
    <3>2. CASE c # d
      BY <1>1, <3>2 DEF ChainInv, BatchesFit
    <3> QED
      BY <3>1, <3>2
  <2> QED
    BY <2>1 DEF BatchesFit
<1>5. ASSUME NEW c \in Dispatcher, NEW e \in Event, Holds(c, e)'
      PROVE  e \in Chained /\ e \notin Opened
  <2>1. Claimable(e) => e \in Chained /\ e \notin Opened
    BY DEF Claimable, Committed, ChainInv, RowsAreChained
  <2>2. Holds(c, e) => e \in Chained /\ e \notin Opened
    BY DEF ChainInv, RowsAreChained
  <2> QED
    BY <1>1, <1>5, <2>1, <2>2
<1>6. \A e \in accepted' : e \in Chained /\ e \notin Opened
  BY DEF TakesBatch, ChainInv, RowsAreChained
<1>7. ChainInv'
  BY <1>2, <1>3, <1>4, <1>5, <1>6, QuietChain DEF TakesBatch
<1> QED
  BY <1>2, <1>7 DEF RespectsLock


\* Steps that leave the chain, the batches and what was accepted alone keep
\* the invariant if the rows they write are about the same events.
LEMMA RowStep ==
  ASSUME ChainInv, UNCHANGED <<chain, open, accepted>>,
         outbox' \in [Event -> Row],
         \A e \in Event : outbox'[e].status = "none" <=> outbox[e].status = "none",
         \A e \in Event : outbox'[e].lock # "none" => outbox[e].lock # "none",
         at' \in [Dispatcher -> Places], batch' \in [Dispatcher -> Seq(Event)],
         BatchesFit',
         \A d \in Dispatcher, e \in Event : Holds(d, e)' => Holds(d, e)
  PROVE  ChainInv'
<1>1. TypeOK'
  BY DEF ChainInv, TypeOK, Places
<1>2. \A d \in Dispatcher, e \in Event : Holds(d, e)' => e \in Chained /\ e \notin Opened
  BY DEF ChainInv, RowsAreChained
<1>3. \A e \in accepted' : e \in Chained /\ e \notin Opened
  BY DEF ChainInv, RowsAreChained
<1> QED
  BY <1>1, <1>2, <1>3, QuietChain

\* The rows that the handlers write, field by field.
LEMMA RowFields ==
  ASSUME NEW row \in Row
  PROVE  /\ DOMAIN row = {"status", "owner", "lock", "due"}
         /\ row.status \in {"none", "pending", "published", "old", "purged"}
         /\ row.owner \in Dispatcher \cup {Nobody}
         /\ row.lock \in {"none", "live", "expired"}
         /\ row.due \in BOOLEAN
         /\ row.status # "pending" => row.owner = Nobody /\ row.lock = "none" /\ ~ row.due
         /\ row.owner = Nobody <=> row.lock = "none"
         /\ row.lock # "none" => row.due
<1>1. CASE row = NoRow
  BY <1>1 DEF NoRow
<1>2. CASE row # NoRow
  BY <1>2, NoneAssumption DEF Row
<1> QED
  BY <1>1, <1>2

\* The rows that occur are those of the type.
LEMMA RowIs ==
  ASSUME NEW row, NEW status, NEW owner, NEW lock, NEW due \in BOOLEAN,
         row = [status |-> status, owner |-> owner, lock |-> lock, due |-> due],
         \/ status = "pending" /\ owner = Nobody /\ lock = "none"
         \/ status = "pending" /\ owner \in Dispatcher /\ lock \in {"live", "expired"} /\ due
         \/ status \in {"published", "old", "purged"} /\ owner = Nobody /\ lock = "none" /\ ~ due
  PROVE  row \in Row
<1>1. due \in {TRUE} <=> due
  OBVIOUS
<1>2. due \in {FALSE} <=> ~ due
  OBVIOUS
<1> QED
  BY <1>1, <1>2 DEF Row

\* Changing the last field of a row.
LEMMA DueChanges ==
  ASSUME NEW x, NEW o, NEW l, NEW b, NEW v
  PROVE  [[status |-> x, owner |-> o, lock |-> l, due |-> b] EXCEPT !.due = v]
         = [status |-> x, owner |-> o, lock |-> l, due |-> v]
  OBVIOUS

\* Every change of a row makes a row again.
LEMMA RowChanges ==
  ASSUME NEW row \in Row
  PROVE  /\ row.status = "old" => [row EXCEPT !.status = "purged"] \in Row
         /\ row.status = "published" => [row EXCEPT !.status = "old"] \in Row
         /\ row.status = "pending" => [row EXCEPT !.due = TRUE] \in Row
         /\ row.lock = "live" => [row EXCEPT !.lock = "expired"] \in Row
         /\ row.status = "pending" => Retried(row) \in Row
         /\ row.status = "pending" => Published(row) \in Row
<1>1. row = [status |-> row.status, owner |-> row.owner, lock |-> row.lock, due |-> row.due]
  <2>1. row \in AnyRow
    <3>1. NoRow \in AnyRow
      BY DEF NoRow, AnyRow
    <3>2. /\ {"none", "pending", "published", "old", "purged"}
              = {"none"} \cup {"pending"} \cup {"published", "old", "purged"}
          /\ {TRUE} \subseteq BOOLEAN /\ {FALSE} \subseteq BOOLEAN
      OBVIOUS
    <3> QED
      BY <3>1, <3>2, Zenon DEF Row, AnyRow
  <2> QED
    BY <2>1 DEF AnyRow
<1> DEFINE x == row.status
           o == row.owner
           l == row.lock
           b == row.due
<1>2. /\ row = [status |-> x, owner |-> o, lock |-> l, due |-> b]
      /\ b \in BOOLEAN /\ o \in Dispatcher \cup {Nobody} /\ l \in {"none", "live", "expired"}
      /\ x # "pending" => o = Nobody /\ l = "none" /\ ~ b
      /\ o = Nobody <=> l = "none"
      /\ l # "none" => b
      /\ row.status = x /\ row.lock = l
  BY <1>1, RowFields
<1> HIDE DEF x, o, l, b
<1>3. /\ [row EXCEPT !.status = "purged"] = [status |-> "purged", owner |-> o, lock |-> l, due |-> b]
      /\ [row EXCEPT !.status = "old"] = [status |-> "old", owner |-> o, lock |-> l, due |-> b]
      /\ [row EXCEPT !.due = TRUE] = [status |-> x, owner |-> o, lock |-> l, due |-> TRUE]
      /\ [row EXCEPT !.lock = "expired"] = [status |-> x, owner |-> o, lock |-> "expired", due |-> b]
      /\ Retried(row) = [status |-> x, owner |-> Nobody, lock |-> "none", due |-> FALSE]
      /\ Published(row) = [status |-> "published", owner |-> Nobody, lock |-> "none", due |-> FALSE]
  <2>1. [row EXCEPT !.status = "purged"] = [status |-> "purged", owner |-> o, lock |-> l, due |-> b]
    BY <1>2
  <2>2. [row EXCEPT !.status = "old"] = [status |-> "old", owner |-> o, lock |-> l, due |-> b]
    BY <1>2
  <2>3. \A v : [row EXCEPT !.due = v] = [status |-> x, owner |-> o, lock |-> l, due |-> v]
    <3> DEFINE same == [status |-> x, owner |-> o, lock |-> l, due |-> b]
    <3>1. row = same
      BY <1>2
    <3>2. \A v : [same EXCEPT !.due = v] = [status |-> x, owner |-> o, lock |-> l, due |-> v]
      BY DueChanges
    <3> HIDE DEF same
    <3> QED
      BY <3>1, <3>2
  <2>4. [row EXCEPT !.lock = "expired"] = [status |-> x, owner |-> o, lock |-> "expired", due |-> b]
    BY <1>2
  <2>5. Retried(row) = [status |-> x, owner |-> Nobody, lock |-> "none", due |-> FALSE]
    <3> DEFINE late == [row EXCEPT !.due = FALSE]
    <3>1. late = [status |-> x, owner |-> o, lock |-> l, due |-> FALSE]
      BY <2>3
    <3>2. Retried(row) = [late EXCEPT !.owner = Nobody, !.lock = "none"]
      BY DEF Retried
    <3> HIDE DEF late
    <3> QED
      BY <3>1, <3>2
  <2>6. Published(row) = [status |-> "published", owner |-> Nobody, lock |-> "none", due |-> FALSE]
    BY DEF Published
  <2> QED
    BY <2>1, <2>2, <2>3, <2>4, <2>5, <2>6
<1>4. x = "old" => [row EXCEPT !.status = "purged"] \in Row
  BY <1>2, <1>3, RowIs
<1>5. x = "published" => [row EXCEPT !.status = "old"] \in Row
  BY <1>2, <1>3, RowIs
<1>6. x = "pending" => [row EXCEPT !.due = TRUE] \in Row
  BY <1>2, <1>3, RowIs
<1>7. l = "live" => [row EXCEPT !.lock = "expired"] \in Row
  BY <1>2, <1>3, RowIs
<1>8. x = "pending" => Retried(row) \in Row
  BY <1>2, <1>3, RowIs
<1>9. Published(row) \in Row
  BY <1>2, <1>3, RowIs
<1> QED
  BY <1>2, <1>4, <1>5, <1>6, <1>7, <1>8, <1>9

\* purge_operational_records touches no row that is not published.
LEMMA PurgeInv ==
  ASSUME ChainInv, NEW d \in Dispatcher, Purge(d)
  PROVE  ChainInv' /\ \A e \in Event : RespectsLock(e)
<1> USE DEF ChainInv
<1>1. ASSUME NEW e \in Event
      PROVE  /\ outbox'[e] \in Row
             /\ outbox'[e].status = "none" <=> outbox[e].status = "none"
             /\ outbox'[e].lock = outbox[e].lock
             /\ outbox[e].lock = "live" => outbox'[e] = outbox[e]
  <2>1. outbox[e] \in Row
    BY DEF TypeOK
  <2>2. outbox'[e] = IF outbox[e].status = "old" THEN [outbox[e] EXCEPT !.status = "purged"]
                     ELSE outbox[e]
    BY DEF Purge, Purgeable
  <2>3. CASE outbox[e].status = "old"
    <3>1. [outbox[e] EXCEPT !.status = "purged"] \in Row
      BY <2>1, <2>3, RowChanges
    <3>2. DOMAIN outbox[e] = {"status", "owner", "lock", "due"} /\ outbox[e].lock = "none"
      BY <2>1, <2>3, RowFields
    <3>3. outbox'[e] = [outbox[e] EXCEPT !.status = "purged"]
      BY <2>2, <2>3
    <3>4. outbox'[e].status = "purged" /\ outbox'[e].lock = "none"
      BY <3>2, <3>3
    <3> QED
      BY <2>3, <3>1, <3>2, <3>3, <3>4
  <2>4. CASE outbox[e].status # "old"
    BY <2>1, <2>2, <2>4
  <2> QED
    BY <2>3, <2>4
<1>2. outbox' \in [Event -> Row]
  BY <1>1 DEF Purge
<1>3. /\ UNCHANGED <<chain, open, batch, accepted>>
      /\ at' \in [Dispatcher -> Places] /\ batch' \in [Dispatcher -> Seq(Event)]
      /\ \A c \in Dispatcher : at'[c] = IF c = d THEN "claiming" ELSE at[c]
      /\ at[d] = "idle"
  BY DEF Purge, TypeOK, Places
<1>4. BatchesFit'
  BY <1>3 DEF BatchesFit
<1>5. \A c \in Dispatcher, e \in Event : Holds(c, e)' => Holds(c, e)
  BY <1>3 DEF Holds
<1>6. ChainInv'
  BY <1>1, <1>2, <1>3, <1>4, <1>5, RowStep
<1> QED
  BY <1>1, <1>6 DEF RespectsLock

\* The record a dispatcher works on.
LEMMA HeadIsHeld ==
  ASSUME ChainInv, NEW d \in Dispatcher, at[d] \in {"delivering", "delivered", "refused"}
  PROVE  /\ batch[d] \in Seq(Event) /\ batch[d] # <<>>
         /\ Head(batch[d]) \in Event /\ Holds(d, Head(batch[d]))
         /\ Head(batch[d]) \in Chained /\ Head(batch[d]) \notin Opened
<1>1. batch[d] \in Seq(Event) /\ batch[d] # <<>>
  BY DEF ChainInv, TypeOK, BatchesFit
<1>2. Head(batch[d]) = batch[d][1] /\ 1 \in DOMAIN batch[d] /\ Head(batch[d]) \in Event
  BY <1>1
<1>3. Holds(d, Head(batch[d]))
  BY <1>2 DEF Holds
<1> QED
  BY <1>1, <1>2, <1>3 DEF ChainInv, RowsAreChained

\* _deliver hands over an event that no rollback takes back.
LEMMA DeliverInv ==
  ASSUME ChainInv, NEW d \in Dispatcher, Deliver(d)
  PROVE  ChainInv' /\ \A e \in Event : RespectsLock(e)
<1> USE DEF ChainInv
<1>1. /\ UNCHANGED <<chain, open, outbox, batch>> /\ at[d] = "delivering"
      /\ accepted' \in {accepted, accepted \cup {Head(batch[d])}}
      /\ at' \in [Dispatcher -> Places]
      /\ \A c \in Dispatcher \ {d} : at'[c] = at[c]
      /\ at'[d] \in {"delivered", "refused"}
  BY DEF Deliver, TypeOK, Places
<1>2. /\ Head(batch[d]) \in Event /\ Head(batch[d]) \in Chained /\ Head(batch[d]) \notin Opened
      /\ batch[d] # <<>>
  BY <1>1, HeadIsHeld
<1>3. TypeOK'
  BY <1>1, <1>2 DEF TypeOK, Places
<1>4. BatchesFit'
  BY <1>1, <1>2 DEF BatchesFit
<1>5. \A c \in Dispatcher, e \in Event : Holds(c, e)' => e \in Chained /\ e \notin Opened
  BY <1>1 DEF Holds, RowsAreChained
<1>6. \A e \in accepted' : e \in Chained /\ e \notin Opened
  BY <1>1, <1>2 DEF RowsAreChained
<1>7. ChainInv'
  BY <1>1, <1>3, <1>4, <1>5, <1>6, QuietChain
<1> QED
  BY <1>1, <1>7 DEF RespectsLock

\* What a mark does to the rows: nothing if the row is not the dispatcher's.
LEMMA MarkRows ==
  ASSUME ChainInv, NEW d \in Dispatcher, at[d] \in {"delivered", "refused"},
         NEW row, Mark(d, row) \/ UNCHANGED outbox,
         row \in {Published(outbox[Head(batch[d])]), Retried(outbox[Head(batch[d])])}
  PROVE  /\ outbox' \in [Event -> Row]
         /\ \A e \in Event :
              /\ outbox'[e].status = "none" <=> outbox[e].status = "none"
              /\ outbox'[e].lock # "none" => outbox[e].lock # "none"
              /\ outbox'[e] = outbox[e] \/ (e = Head(batch[d]) /\ outbox[e].owner = d)
<1> DEFINE h == Head(batch[d])
<1>1. h \in Event
  BY HeadIsHeld
<1>2. outbox \in [Event -> Row]
  BY DEF ChainInv, TypeOK
<1>3. CASE UNCHANGED outbox
  BY <1>2, <1>3
<1>4. CASE Owns(d, h) /\ outbox' = [outbox EXCEPT ![h] = row]
  <2>1. /\ row \in Row /\ row.status # "none" /\ row.lock = "none"
        /\ outbox[h].status = "pending" /\ outbox[h].owner = d
    <3>1. outbox[h] \in Row /\ outbox[h].status = "pending" /\ outbox[h].owner = d
      BY <1>1, <1>2, <1>4 DEF Owns
    <3>2. row \in Row
      BY <3>1, RowChanges
    <3>3. CASE row = Published(outbox[h])
      BY <3>1, <3>2, <3>3 DEF Published
    <3>4. CASE row = Retried(outbox[h])
      <4>1. DOMAIN outbox[h] = {"status", "owner", "lock", "due"}
        BY <3>1, RowFields
      <4>2. Retried(outbox[h]).status = outbox[h].status /\ Retried(outbox[h]).lock = "none"
        BY <4>1 DEF Retried
      <4> QED
        BY <3>1, <3>2, <3>4, <4>2
    <3> QED
      BY <3>3, <3>4
  <2>2. \A e \in Event : outbox'[e] = IF e = h THEN row ELSE outbox[e]
    BY <1>2, <1>4
  <2>3. outbox' \in [Event -> Row]
    BY <1>2, <1>4, <2>1
  <2> HIDE DEF h
  <2> QED
    BY <2>1, <2>2, <2>3 DEF h
<1> QED
  BY <1>3, <1>4 DEF Mark

\* The empty batch.
LEMMA EmptyHasNoLength == \A s \in Seq(Event) : s = <<>> <=> Len(s) = 0
  OBVIOUS

\* The tail of a batch.
LEMMA AdvanceMeans ==
  ASSUME ChainInv, NEW d \in Dispatcher, at[d] \in {"delivered", "refused"}, Advance(d)
  PROVE  /\ at' \in [Dispatcher -> Places] /\ batch' \in [Dispatcher -> Seq(Event)]
         /\ BatchesFit'
         /\ at'[d] # at[d]
         /\ \A c \in Dispatcher \ {d} : at'[c] = at[c] /\ batch'[c] = batch[c]
         /\ \A c \in Dispatcher, e \in Event : Holds(c, e)' => Holds(c, e)
         /\ \A e : e = Head(batch[d]) => ~ Holds(d, e)'
<1> USE DEF ChainInv
<1>1. batch[d] \in Seq(Event) /\ batch[d] # <<>>
  BY HeadIsHeld
<1> DEFINE t == Tail(batch[d])
           n == Len(batch[d])
<1>2. /\ t \in Seq(Event) /\ n \in Nat /\ n >= 1 /\ Len(t) = n - 1
      /\ DOMAIN t = 1..(n - 1) /\ DOMAIN batch[d] = 1..n
      /\ \A i \in 1..(n - 1) : t[i] = batch[d][i + 1]
      /\ Head(batch[d]) = batch[d][1]
      /\ t = <<>> <=> n = 1
  <2>1. t \in Seq(Event) /\ n \in Nat /\ n >= 1 /\ Len(t) = n - 1
    BY <1>1
  <2>2. DOMAIN t = 1..(n - 1) /\ DOMAIN batch[d] = 1..n
    BY <1>1, <2>1
  <2>3. \A i \in 1..(n - 1) : t[i] = batch[d][i + 1]
    BY <1>1, <2>1
  <2>4. Head(batch[d]) = batch[d][1]
    BY <1>1
  <2>5. t = <<>> <=> Len(t) = 0
    BY <2>1, EmptyHasNoLength
  <2>6. n = 1 <=> n - 1 = 0
    BY <2>1
  <2> HIDE DEF t, n
  <2> QED
    BY <2>1, <2>2, <2>3, <2>4, <2>5, <2>6
<1>3. /\ \A c \in Dispatcher \ {d} : at'[c] = at[c] /\ batch'[c] = batch[c]
      /\ batch'[d] = t
      /\ at'[d] = IF n = 1 THEN "idle" ELSE "delivering"
      /\ at' \in [Dispatcher -> Places]
  BY DEF Advance, TypeOK, Places
<1>4. batch' \in [Dispatcher -> Seq(Event)]
  BY <1>2 DEF Advance, TypeOK
<1>5. \A i, j \in 1..n : batch[d][i] = batch[d][j] => i = j
  BY <1>2 DEF BatchesFit
<1> HIDE DEF t, n
<1>6. BatchesFit'
  <2>1. ASSUME NEW c \in Dispatcher
        PROVE  /\ at'[c] \in {"delivering", "delivered", "refused"} <=> batch'[c] # <<>>
               /\ \A i, j \in DOMAIN batch'[c] : batch'[c][i] = batch'[c][j] => i = j
    <3>1. CASE c = d
      <4>1. ASSUME NEW i \in 1..(n - 1), NEW j \in 1..(n - 1), t[i] = t[j] PROVE i = j
        <5>1. i + 1 \in 1..n /\ j + 1 \in 1..n /\ batch[d][i + 1] = batch[d][j + 1]
          BY <1>2, <4>1
        <5>2. i + 1 = j + 1
          BY <1>5, <5>1
        <5> QED
          BY <5>2
      <4>2. at'[d] \in {"delivering", "delivered", "refused"} <=> t # <<>>
        BY <1>2, <1>3
      <4> QED
        BY <1>2, <1>3, <3>1, <4>1, <4>2
    <3>2. CASE c # d
      BY <1>3, <3>2 DEF BatchesFit
    <3> QED
      BY <3>1, <3>2
  <2> QED
    BY <2>1 DEF BatchesFit
<1>7. ASSUME NEW c \in Dispatcher, NEW e \in Event, Holds(c, e)' PROVE Holds(c, e)
  <2>1. CASE c = d
    <3>1. PICK i \in 1..(n - 1) : t[i] = e
      BY <1>2, <1>3, <1>7, <2>1 DEF Holds
    <3>2. i + 1 \in DOMAIN batch[d] /\ batch[d][i + 1] = e
      BY <1>2, <3>1
    <3> QED
      BY <2>1, <3>2 DEF Holds
  <2>2. CASE c # d
    BY <1>3, <1>7, <2>2 DEF Holds
  <2> QED
    BY <2>1, <2>2
<1>8. ASSUME NEW e, e = Head(batch[d]) PROVE ~ Holds(d, e)'
  <2>1. ASSUME NEW i \in 1..(n - 1) PROVE t[i] # e
    <3>1. i + 1 \in 1..n /\ 1 \in 1..n /\ i + 1 # 1 /\ t[i] = batch[d][i + 1]
      BY <1>2
    <3> QED
      BY <1>2, <1>5, <1>8, <3>1
  <2>2. batch'[d] = t /\ DOMAIN t = 1..(n - 1)
    BY <1>2, <1>3
  <2> QED
    BY <2>1, <2>2 DEF Holds
<1> QED
  BY <1>3, <1>4, <1>6, <1>7, <1>8


\* Marks, in time or late, change the rows of the dispatcher that sends them.
LEMMA MarkPublishedInv ==
  ASSUME ChainInv, NEW d \in Dispatcher, MarkPublished(d)
  PROVE  ChainInv' /\ \A e \in Event : RespectsLock(e)
<1> USE DEF ChainInv
<1> DEFINE row == Published(outbox[Head(batch[d])])
<1>1. /\ at[d] = "delivered" /\ UNCHANGED <<chain, open, accepted>>
      /\ Mark(d, row) \/ UNCHANGED outbox
      /\ \/ Advance(d)
         \/ at' = [at EXCEPT ![d] = "refused"] /\ UNCHANGED batch
  BY DEF MarkPublished
<1>2. /\ outbox' \in [Event -> Row]
      /\ \A e \in Event :
           /\ outbox'[e].status = "none" <=> outbox[e].status = "none"
           /\ outbox'[e].lock # "none" => outbox[e].lock # "none"
           /\ outbox'[e] = outbox[e] \/ (e = Head(batch[d]) /\ outbox[e].owner = d)
  BY <1>1, MarkRows
<1>3. /\ at' \in [Dispatcher -> Places] /\ batch' \in [Dispatcher -> Seq(Event)]
      /\ BatchesFit'
      /\ at'[d] # at[d]
      /\ \A c \in Dispatcher, e \in Event : Holds(c, e)' => Holds(c, e)
  <2>1. CASE Advance(d)
    BY <1>1, <2>1, AdvanceMeans
  <2>2. CASE at' = [at EXCEPT ![d] = "refused"] /\ UNCHANGED batch
    <3>1. at' \in [Dispatcher -> Places] /\ batch' \in [Dispatcher -> Seq(Event)] /\ at'[d] # at[d]
      BY <1>1, <2>2 DEF TypeOK, Places
    <3>2. \A c \in Dispatcher : at'[c] = IF c = d THEN "refused" ELSE at[c]
      BY <2>2 DEF TypeOK
    <3>3. BatchesFit'
      BY <1>1, <2>2, <3>2 DEF BatchesFit
    <3> QED
      BY <2>2, <3>1, <3>3 DEF Holds
  <2> QED
    BY <1>1, <2>1, <2>2
<1>4. ChainInv'
  BY <1>1, <1>2, <1>3, RowStep
<1>5. Holds(d, Head(batch[d]))
  BY <1>1, HeadIsHeld
<1> QED
  BY <1>2, <1>3, <1>4, <1>5 DEF RespectsLock

\* The same of mark_outbox_failed.
LEMMA MarkFailedInv ==
  ASSUME ChainInv, NEW d \in Dispatcher, MarkFailed(d)
  PROVE  ChainInv' /\ \A e \in Event : RespectsLock(e)
<1> DEFINE row == Retried(outbox[Head(batch[d])])
<1>1. /\ at[d] = "refused" /\ UNCHANGED <<chain, open, accepted>>
      /\ Mark(d, row) /\ Advance(d)
  BY DEF MarkFailed
<1>2. /\ outbox' \in [Event -> Row]
      /\ \A e \in Event :
           /\ outbox'[e].status = "none" <=> outbox[e].status = "none"
           /\ outbox'[e].lock # "none" => outbox[e].lock # "none"
           /\ outbox'[e] = outbox[e] \/ (e = Head(batch[d]) /\ outbox[e].owner = d)
  BY <1>1, MarkRows
<1>3. /\ at' \in [Dispatcher -> Places] /\ batch' \in [Dispatcher -> Seq(Event)]
      /\ BatchesFit'
      /\ at'[d] # at[d]
      /\ \A c \in Dispatcher, e \in Event : Holds(c, e)' => Holds(c, e)
  BY <1>1, AdvanceMeans
<1>4. ChainInv'
  BY <1>1, <1>2, <1>3, RowStep
<1>5. Holds(d, Head(batch[d]))
  BY <1>1, HeadIsHeld
<1> QED
  BY <1>2, <1>3, <1>4, <1>5 DEF RespectsLock

\* A dispatcher that dies forgets its batch and leaves its locks.
LEMMA CrashInv ==
  ASSUME ChainInv, NEW d \in Dispatcher, Crash(d) \/ Restart(d)
  PROVE  ChainInv' /\ \A e \in Event : RespectsLock(e)
<1> USE DEF ChainInv
<1>1. /\ UNCHANGED <<chain, open, outbox, accepted>>
      /\ at' \in [Dispatcher -> Places] /\ batch' \in [Dispatcher -> Seq(Event)]
      /\ \A c \in Dispatcher \ {d} : at'[c] = at[c] /\ batch'[c] = batch[c]
      /\ at'[d] \in {"down", "idle"}
      /\ batch'[d] = <<>>
  <2>1. CASE Crash(d)
    BY <2>1 DEF Crash, TypeOK, Places
  <2>2. CASE Restart(d)
    <3>1. batch[d] = <<>>
      BY <2>2 DEF Restart, BatchesFit
    <3> QED
      BY <2>2, <3>1 DEF Restart, TypeOK, Places
  <2> QED
    BY <2>1, <2>2
<1>2. BatchesFit'
  BY <1>1 DEF BatchesFit
<1>3. \A c \in Dispatcher, e \in Event : Holds(c, e)' => Holds(c, e)
  BY <1>1 DEF Holds
<1>4. ChainInv'
  BY <1>1, <1>2, <1>3, RowStep DEF TypeOK
<1> QED
  BY <1>1, <1>4 DEF RespectsLock

\* The passing of time changes no row but its own.
LEMMA TimeInv ==
  ASSUME ChainInv, NEW e \in Event, LockExpires(e) \/ BackoffElapses(e) \/ Ages(e)
  PROVE  ChainInv' /\ \A f \in Event : RespectsLock(f)
<1> USE DEF ChainInv
<1>1. outbox \in [Event -> Row]
  BY DEF TypeOK
<1>2. /\ UNCHANGED <<chain, open, at, batch, accepted>>
      /\ \A f \in Event \ {e} : outbox'[f] = outbox[f]
      /\ outbox' = [f \in Event |-> outbox'[f]]
      /\ \/ outbox[e].lock = "live" /\ outbox'[e] = [outbox[e] EXCEPT !.lock = "expired"]
         \/ /\ outbox[e].status = "pending" /\ ~ outbox[e].due
            /\ outbox'[e] = [outbox[e] EXCEPT !.due = TRUE]
         \/ outbox[e].status = "published" /\ outbox'[e] = [outbox[e] EXCEPT !.status = "old"]
  BY <1>1 DEF LockExpires, BackoffElapses, Ages
<1>3. /\ outbox'[e] \in Row
      /\ outbox'[e].status = "none" <=> outbox[e].status = "none"
      /\ outbox'[e].lock # "none" => outbox[e].lock # "none"
      /\ outbox[e].lock = "live" => outbox'[e] = [outbox[e] EXCEPT !.lock = "expired"]
  <2>1. outbox[e] \in Row /\ DOMAIN outbox[e] = {"status", "owner", "lock", "due"}
    BY <1>1, RowFields
  <2>2. CASE outbox[e].lock = "live" /\ outbox'[e] = [outbox[e] EXCEPT !.lock = "expired"]
    <3>1. outbox'[e] \in Row
      BY <2>1, <2>2, RowChanges
    <3>2. outbox'[e].status = outbox[e].status
      BY <2>1, <2>2
    <3> QED
      BY <2>2, <3>1, <3>2
  <2>3. CASE /\ outbox[e].status = "pending" /\ ~ outbox[e].due
             /\ outbox'[e] = [outbox[e] EXCEPT !.due = TRUE]
    <3>1. outbox'[e] \in Row
      BY <2>1, <2>3, RowChanges
    <3>2. outbox'[e].status = outbox[e].status /\ outbox'[e].lock = outbox[e].lock
      BY <2>1, <2>3
    <3>3. outbox[e].lock = "none"
      BY <2>1, <2>3, RowFields
    <3> QED
      BY <3>1, <3>2, <3>3
  <2>4. CASE outbox[e].status = "published" /\ outbox'[e] = [outbox[e] EXCEPT !.status = "old"]
    <3>1. outbox'[e] \in Row
      BY <2>1, <2>4, RowChanges
    <3>2. outbox'[e].status = "old" /\ outbox'[e].lock = outbox[e].lock
      BY <2>1, <2>4
    <3>3. outbox[e].lock = "none"
      BY <2>1, <2>4, RowFields
    <3> QED
      BY <2>4, <3>1, <3>2, <3>3
  <2> QED
    BY <1>2, <2>2, <2>3, <2>4
<1>4. outbox' \in [Event -> Row]
  BY <1>1, <1>2, <1>3
<1>5. ChainInv'
  <2>1. \A f \in Event : /\ outbox'[f].status = "none" <=> outbox[f].status = "none"
                         /\ outbox'[f].lock # "none" => outbox[f].lock # "none"
    BY <1>2, <1>3
  <2>2. at' \in [Dispatcher -> Places] /\ batch' \in [Dispatcher -> Seq(Event)]
    BY <1>2 DEF TypeOK, Places
  <2>3. BatchesFit' /\ \A d \in Dispatcher, f \in Event : Holds(d, f)' => Holds(d, f)
    BY <1>2 DEF BatchesFit, Holds
  <2> QED
    BY <1>2, <1>4, <2>1, <2>2, <2>3, RowStep
<1> QED
  BY <1>2, <1>3, <1>5 DEF RespectsLock

\* A transaction changes the rows of its own events, and nobody locks those.
LEMMA WriteInv ==
  ASSUME ChainInv, NEW w \in Writer, Write(w)
  PROVE  ChainInv' /\ \A e \in Event : RespectsLock(e)
<1>1. ChainInv'
  BY AppendInv, CommitInv, RollbackInv, Zenon DEF Write
<1>2. ASSUME NEW e \in Event, outbox[e].lock = "live" PROVE outbox'[e] = outbox[e]
  <2>1. outbox \in [Event -> Row]
    BY DEF ChainInv, TypeOK
  <2>2. outbox[e].status # "none"
    BY <1>2, <2>1, RowFields
  <2>3. e \in Chained /\ e \notin Opened
    BY <1>2, <2>2 DEF ChainInv, RowsAreChained
  <2>4. CASE AppendAudit(w)
    BY <2>1, <2>3, <2>4 DEF AppendAudit, Chained
  <2>5. CASE Commit(w)
    BY <2>5 DEF Commit
  <2>6. CASE Rollback(w)
    BY <2>3, <2>6 DEF Rollback, Undone, Opened
  <2> QED
    BY <2>4, <2>5, <2>6 DEF Write
<1> QED
  BY <1>1, <1>2 DEF RespectsLock

\* Every step of dispatchers that take what IsBatch allows keeps the
\* invariant and leaves the locked rows to their owners.
ChainStep ==
  \/ \E w \in Writer : Write(w)
  \/ \E d \in Dispatcher :
       \/ Purge(d) \/ Deliver(d) \/ MarkPublished(d) \/ MarkFailed(d) \/ Crash(d) \/ Restart(d)
       \/ \E rows : IsBatch(rows) /\ TakesBatch(d, rows)
  \/ \E e \in Event : LockExpires(e) \/ BackoffElapses(e) \/ Ages(e)
  \/ UNCHANGED vars

\* Every step keeps the invariant and every live lock.
LEMMA ChainStepInv ==
  ASSUME ChainInv, ChainStep
  PROVE  ChainInv' /\ \A e \in Event : RespectsLock(e)
<1>1. ASSUME NEW d \in Dispatcher, NEW rows, IsBatch(rows), TakesBatch(d, rows)
      PROVE  ChainInv' /\ \A e \in Event : RespectsLock(e)
  BY <1>1, TakesBatchInv, Zenon
<1>2. CASE UNCHANGED vars
  <2>1. UNCHANGED <<chain, open, outbox, at, batch, accepted>>
    BY <1>2 DEF vars
  <2>2. /\ outbox' \in [Event -> Row]
        /\ at' \in [Dispatcher -> Places] /\ batch' \in [Dispatcher -> Seq(Event)]
    BY <2>1 DEF ChainInv, TypeOK, Places
  <2>3. BatchesFit' /\ \A d \in Dispatcher, e \in Event : Holds(d, e)' => Holds(d, e)
    BY <2>1 DEF ChainInv, BatchesFit, Holds
  <2>4. ChainInv'
    BY <2>1, <2>2, <2>3, RowStep
  <2> QED
    BY <2>1, <2>4 DEF RespectsLock
<1>3. ASSUME NEW d \in Dispatcher,
             Purge(d) \/ Deliver(d) \/ MarkPublished(d) \/ MarkFailed(d) \/ Crash(d) \/ Restart(d)
      PROVE  ChainInv' /\ \A e \in Event : RespectsLock(e)
  BY <1>3, PurgeInv, DeliverInv, MarkPublishedInv, MarkFailedInv, CrashInv, Zenon
<1>4. ASSUME NEW e \in Event, LockExpires(e) \/ BackoffElapses(e) \/ Ages(e)
      PROVE  ChainInv' /\ \A f \in Event : RespectsLock(f)
  BY <1>4, TimeInv, Zenon
<1>5. ASSUME NEW w \in Writer, Write(w) PROVE ChainInv' /\ \A e \in Event : RespectsLock(e)
  BY <1>5, WriteInv, Zenon
<1> QED
  <2>1. CASE \E d \in Dispatcher :
       \/ Purge(d) \/ Deliver(d) \/ MarkPublished(d) \/ MarkFailed(d) \/ Crash(d) \/ Restart(d)
       \/ \E rows : IsBatch(rows) /\ TakesBatch(d, rows)
    BY <1>1, <1>3, <2>1, Zenon
  <2>2. CASE \E e \in Event : LockExpires(e) \/ BackoffElapses(e) \/ Ages(e)
    BY <1>4, <2>2, Zenon
  <2>3. CASE \E w \in Writer : Write(w)
    BY <1>5, <2>3, Zenon
  <2> QED
    BY <1>2, <2>1, <2>2, <2>3, Zenon DEF ChainStep


-----------------------------------------------------------------------------
(***************************************************************************)
(* The instances that TLC checks, whatever their constants.                *)
(***************************************************************************)

\* There is nothing yet.
LEMMA InitChainInv == Init => ChainInv /\ HeldRowsAreLocked /\ OneDelivererAtATime
<1> SUFFICES ASSUME Init PROVE ChainInv /\ HeldRowsAreLocked /\ OneDelivererAtATime
  OBVIOUS
<1>1. /\ chain = <<>> /\ Len(chain) = 0 /\ DOMAIN chain = {}
      /\ \A w \in Writer : open[w] = {}
      /\ \A e \in Event : outbox[e].status = "none" /\ outbox[e].lock = "none"
      /\ \A d \in Dispatcher : at[d] = "idle" /\ batch[d] = <<>> /\ DOMAIN batch[d] = {}
      /\ accepted = {}
  BY DEF Init, NoRow
<1>2. TypeOK
  <2>1. chain \in Seq([id : Event, prev : Event \cup {NoEvent}])
    BY <1>1
  <2>2. outbox \in [Event -> Row]
    BY DEF Init, Row
  <2>3. batch \in [Dispatcher -> Seq(Event)]
    BY DEF Init
  <2> QED
    BY <2>1, <2>2, <2>3 DEF Init, TypeOK
<1>3. ChainIsLinked /\ BatchesFit
  BY <1>1 DEF ChainIsLinked, BatchesFit
<1>4. OpenIsLast
  <2>1. 0 \in 0..Len(chain)
    BY <1>1
  <2> QED
    BY <1>1, <2>1 DEF OpenIsLast
<1>5. \A d \in Dispatcher, e \in Event : ~ Holds(d, e)
  BY <1>1 DEF Holds
<1>6. RowsAreChained
  <2>1. Chained = {}
    BY <1>1 DEF Chained
  <2> QED
    BY <1>1, <1>5, <2>1 DEF RowsAreChained
<1> QED
  BY <1>2, <1>3, <1>4, <1>5, <1>6 DEF ChainInv, HeldRowsAreLocked, OneDelivererAtATime

\* claim_outbox_events takes the batch Oldest gives.
LEMMA ClaimTakesABatch ==
  ASSUME ChainInv, NEW d \in Dispatcher, Claim(d)
  PROVE  IsBatch(Oldest) /\ TakesBatch(d, Oldest)
<1>1. IsBatch(Oldest)
  BY OldestIsABatch
<1> QED
  BY <1>1 DEF Claim, TakesBatch

\* What prompt dispatchers do is among those steps.
LEMMA PromptStepIsChainStep == ASSUME ChainInv, PromptNext PROVE ChainStep
<1>1. \A d \in Dispatcher : RunOnce(d) =>
        \/ Purge(d) \/ Deliver(d) \/ MarkPublished(d) \/ MarkFailed(d) \/ Crash(d) \/ Restart(d)
        \/ \E rows : IsBatch(rows) /\ TakesBatch(d, rows)
  BY ClaimTakesABatch, Zenon DEF RunOnce
<1> QED
  BY <1>1, Zenon DEF PromptNext, ChainStep, AbandonedLockExpires

\* The batch size shows in Claim only.
LEMMA SlowClaims == 
  ASSUME ChainInv, NEW d \in Dispatcher, Slow!Claim(d)
  PROVE  IsBatch(Slow!Oldest) /\ TakesBatch(d, Slow!Oldest)
<1> DEFINE rows == Kept(chain, {e \in Event : Claimable(e)})
           m == IF Len(rows) < 2 THEN Len(rows) ELSE 2
<1>1. Slow!Kept(chain, {e \in Event : Slow!Claimable(e)}) = rows
  BY DEF Slow!Kept, Kept, Slow!Claimable, Claimable, Slow!Committed, Committed, Slow!Opened
<1>2. Slow!Oldest = [i \in 1..m |-> rows[i].id]
  BY <1>1 DEF Slow!Oldest
<1>3. rows \in Seq(Record)
  BY ChainRecords, KeptMembers DEF ChainInv
<1> HIDE DEF rows
<1>4. m \in 0..Len(rows)
  BY <1>3
<1>5. IsBatch(Slow!Oldest)
  BY <1>2, <1>4, FirstRowsAreABatch DEF rows
<1>6. TakesBatch(d, Slow!Oldest)
  BY DEF Slow!Claim, TakesBatch, Slow!Holds, Holds, Slow!Locked, Locked
<1> QED
  BY <1>5, <1>6

\* All other actions are the same in both instances.
LEMMA SlowRest ==
  /\ \A w : Slow!Write(w) => Write(w)
  /\ \A d : /\ Slow!Purge(d) => Purge(d)
            /\ Slow!Deliver(d) => Deliver(d)
            /\ Slow!MarkPublished(d) => MarkPublished(d)
            /\ Slow!MarkFailed(d) => MarkFailed(d)
            /\ Slow!Crash(d) \/ Slow!Restart(d) => Crash(d) \/ Restart(d)
  /\ \A e : Slow!LockExpires(e) \/ Slow!BackoffElapses(e) \/ Slow!Ages(e)
            => LockExpires(e) \/ BackoffElapses(e) \/ Ages(e)
<1>1. \A w : /\ Slow!AppendAudit(w) => AppendAudit(w)
             /\ Slow!Commit(w) => Commit(w)
             /\ Slow!Rollback(w) => Rollback(w)
  BY DEF Slow!AppendAudit, AppendAudit, Slow!ChainFree, ChainFree, Slow!NewestFor, NewestFor,
         Slow!Committed, Committed, Slow!Opened, Slow!Kept, Kept, Slow!Pending, Pending,
         Slow!Commit, Commit, Slow!Rollback, Rollback, Slow!Undone, Undone, Slow!NoRow, NoRow
<1>2. \A w : Slow!Write(w) => Write(w)
  BY <1>1 DEF Slow!Write, Write
<1>3. \A d : Slow!Purge(d) => Purge(d)
  BY DEF Slow!Purge, Purge, Slow!Purgeable, Purgeable
<1>4. \A d : Slow!Deliver(d) => Deliver(d)
  BY DEF Slow!Deliver, Deliver
<1>5. \A d : Slow!MarkPublished(d) => MarkPublished(d)
  BY DEF Slow!MarkPublished, MarkPublished, Slow!Mark, Mark, Slow!Owns, Owns,
         Slow!Advance, Advance, Slow!Published, Published
<1>6. \A d : Slow!MarkFailed(d) => MarkFailed(d)
  BY DEF Slow!MarkFailed, MarkFailed, Slow!Mark, Mark, Slow!Owns, Owns,
         Slow!Advance, Advance, Slow!Retried, Retried
<1>7. \A d : Slow!Crash(d) \/ Slow!Restart(d) => Crash(d) \/ Restart(d)
  BY DEF Slow!Crash, Crash, Slow!Restart, Restart
<1>8. \A e : Slow!LockExpires(e) \/ Slow!BackoffElapses(e) \/ Slow!Ages(e)
             => LockExpires(e) \/ BackoffElapses(e) \/ Ages(e)
  BY DEF Slow!LockExpires, LockExpires, Slow!BackoffElapses, BackoffElapses, Slow!Ages, Ages
<1> QED
  BY <1>2, <1>3, <1>4, <1>5, <1>6, <1>7, <1>8

\* What slow dispatchers do is among those steps, too.
LEMMA SlowStepIsChainStep == ASSUME ChainInv, Slow!Next PROVE ChainStep
<1>1. \A d \in Dispatcher : Slow!RunOnce(d) =>
        \/ Purge(d) \/ Deliver(d) \/ MarkPublished(d) \/ MarkFailed(d) \/ Crash(d) \/ Restart(d)
        \/ \E rows : IsBatch(rows) /\ TakesBatch(d, rows)
  BY SlowClaims, SlowRest, Zenon DEF Slow!RunOnce
<1> QED
  BY <1>1, SlowRest, Zenon DEF Slow!Next, ChainStep

\* And so is every step that is checked.
LEMMA MCStepIsChainStep == ASSUME ChainInv, [MCNext]_<<vars, prompt>> PROVE ChainStep
<1>1. CASE MCNext
  BY <1>1, PromptStepIsChainStep, SlowStepIsChainStep, Zenon DEF MCNext
<1>2. CASE UNCHANGED <<vars, prompt>>
  BY <1>2 DEF ChainStep, vars
<1> QED
  BY <1>1, <1>2

-----------------------------------------------------------------------------
(***************************************************************************)
(* The chain and the outbox.                                               *)
(***************************************************************************)

\* What the invariant says of the chain and the outbox.
LEMMA InvAgrees == ChainInv => ChainAndOutboxAgree
<1> SUFFICES ASSUME ChainInv PROVE ChainIsUnbroken /\ RowsMatchEvents
  BY DEF ChainAndOutboxAgree
<1> USE DEF ChainInv
<1>1. PICK n \in 0..Len(chain) : \A i \in DOMAIN chain : chain[i].id \notin Opened <=> i <= n
  BY DEF OpenIsLast
<1>2. /\ chain \in Seq(Record) /\ Len(chain) \in Nat /\ DOMAIN chain = 1..Len(chain)
      /\ \A i \in 1..Len(chain) : chain[i].id \in Event
  BY ChainRecords
<1>3. CommittedChain = SubSeq(chain, 1, n)
  BY <1>1, CommittedPrefix
<1>4. DOMAIN CommittedChain = 1..n /\ \A i \in 1..n : CommittedChain[i] = chain[i]
  BY <1>2, <1>3
<1>5. ChainIsUnbroken
  <2>1. ASSUME NEW i \in 1..n
        PROVE  chain[i].prev = IF i = 1 THEN NoEvent ELSE chain[i - 1].id
    BY <1>2 DEF ChainIsLinked
  <2>2. \A i \in 1..n : i = 1 \/ i - 1 \in 1..n
    OBVIOUS
  <2> QED
    BY <1>4, <2>1, <2>2 DEF ChainIsUnbroken
<1>6. \A e : e \in {CommittedChain[i].id : i \in DOMAIN CommittedChain}
             <=> e \in Chained /\ e \notin Opened
  BY <1>1, <1>2, <1>4 DEF Chained
<1>7. \A e \in Chained : e \in Event
  BY <1>2 DEF Chained
<1>8. RowsMatchEvents
  BY <1>6, <1>7 DEF RowsMatchEvents, RowsAreChained, Committed
<1> QED
  BY <1>5, <1>8

\* Whatever transactions commit or are rolled back side by side, and however
\* late and however often dispatchers deliver, verify_audit_chain succeeds, the
\* committed events are those that have a row, and the sink has no other.
THEOREM ChainIsNeverBroken == MCSpec => []ChainAndOutboxAgree
<1>1. MCInit => ChainInv
  BY InitChainInv DEF MCInit
<1>2. ChainInv /\ [MCNext]_<<vars, prompt>> => ChainInv'
  BY MCStepIsChainStep, ChainStepInv
<1> QED
  BY <1>1, <1>2, InvAgrees, PTL DEF MCSpec

\* While a lock is live no purge, no late mark and no other dispatcher's claim
\* changes the row.
THEOREM LocksAreRespected == MCSpec => LiveLocksAreRespected
<1>1. MCInit => ChainInv
  BY InitChainInv DEF MCInit
<1>2. ChainInv /\ [MCNext]_<<vars, prompt>> => ChainInv'
  BY MCStepIsChainStep, ChainStepInv
<1>3. ChainInv /\ [MCNext]_<<vars, prompt>> => [\A e \in Event : RespectsLock(e)]_vars
  BY MCStepIsChainStep, ChainStepInv
<1> QED
  BY <1>1, <1>2, <1>3, PTL DEF MCSpec, LiveLocksAreRespected

-----------------------------------------------------------------------------
(***************************************************************************)
(* Prompt dispatchers.                                                     *)
(***************************************************************************)

Passed == {"published", "old", "purged"}

\* Steps that give nobody a record and leave the rows that are held as they
\* are, or published, leave each record with one dispatcher.
LEMMA HeldStaysLocked ==
  ASSUME PromptInv,
         \A d \in Dispatcher, e \in Event :
           Holds(d, e)' => /\ Holds(d, e)
                           /\ outbox'[e] = outbox[e] \/ outbox'[e].status \in Passed
  PROVE  HeldRowsAreLocked' /\ OneDelivererAtATime'
BY DEF PromptInv, HeldRowsAreLocked, OneDelivererAtATime, Passed

\* A claim takes only rows that nobody holds.
LEMMA ClaimIsAlone ==
  ASSUME PromptInv, NEW d \in Dispatcher, NEW rows, IsBatch(rows), TakesBatch(d, rows)
  PROVE  HeldRowsAreLocked' /\ OneDelivererAtATime'
<1>1. /\ \A c \in Dispatcher \ {d}, e \in Event : Holds(c, e)' <=> Holds(c, e)
      /\ \A e \in Event : Holds(d, e)' => Claimable(e)
      /\ \A e \in Event :
           outbox'[e] = IF Holds(d, e)' THEN [outbox[e] EXCEPT !.owner = d, !.lock = "live"]
                        ELSE outbox[e]
  BY TakesBatchMeans DEF PromptInv
<1>2. \A c \in Dispatcher, e \in Event : Holds(c, e) => ~ Claimable(e)
  BY DEF PromptInv, HeldRowsAreLocked, Claimable
<1>3. \A e \in Event : DOMAIN outbox[e] = {"status", "owner", "lock", "due"}
  BY RowFields DEF PromptInv, ChainInv, TypeOK
<1>4. \A e \in Event : Holds(d, e)' => outbox'[e].owner = d /\ outbox'[e].lock = "live"
  BY <1>1, <1>3
<1>5. \A c \in Dispatcher \ {d}, e \in Event :
        Holds(c, e)' => Holds(c, e) /\ ~ Holds(d, e)' /\ outbox'[e] = outbox[e]
  BY <1>1, <1>2
<1>6. HeldRowsAreLocked'
  <2>1. ASSUME NEW c \in Dispatcher, NEW e \in Event, Holds(c, e)'
        PROVE  \/ outbox'[e].owner = c /\ outbox'[e].lock = "live"
               \/ outbox'[e].status \in Passed
    <3>1. CASE c = d
      BY <1>4, <2>1, <3>1
    <3>2. CASE c # d
      BY <1>5, <2>1, <3>2 DEF PromptInv, HeldRowsAreLocked, Passed
    <3> QED
      BY <3>1, <3>2
  <2> QED
    BY <2>1 DEF HeldRowsAreLocked, Passed
<1>7. OneDelivererAtATime'
  <2>1. ASSUME NEW b \in Dispatcher, NEW c \in Dispatcher, NEW e \in Event,
               Holds(b, e)', Holds(c, e)'
        PROVE  b = c
    <3>1. CASE b = d \/ c = d
      BY <1>5, <2>1, <3>1
    <3>2. CASE b # d /\ c # d
      BY <1>5, <2>1, <3>2 DEF PromptInv, OneDelivererAtATime
    <3> QED
      BY <3>1, <3>2
  <2> QED
    BY <2>1 DEF OneDelivererAtATime
<1> QED
  BY <1>6, <1>7

\* A dispatcher lets go of a record as it marks it.
LEMMA MarksAreAlone ==
  ASSUME PromptInv, NEW d \in Dispatcher, MarkPublished(d) \/ MarkFailed(d)
  PROVE  HeldRowsAreLocked' /\ OneDelivererAtATime'
<1> USE DEF PromptInv
<1> DEFINE h == Head(batch[d])
<1>1. at[d] \in {"delivered", "refused"}
  BY DEF MarkPublished, MarkFailed
<1>2. Holds(d, h) /\ h \in Event
  BY <1>1, HeadIsHeld
<1>3. ASSUME Advance(d), NEW row, Mark(d, row) \/ UNCHANGED outbox,
             row \in {Published(outbox[h]), Retried(outbox[h])}
      PROVE  HeldRowsAreLocked' /\ OneDelivererAtATime'
  <2>1. /\ \A c \in Dispatcher, e \in Event : Holds(c, e)' => Holds(c, e)
        /\ \A e : e = h => ~ Holds(d, e)'
    BY <1>1, <1>3, AdvanceMeans
  <2>2. \A e \in Event : outbox'[e] = outbox[e] \/ e = h
    BY <1>1, <1>3, MarkRows
  <2> HIDE DEF h
  <2>3. \A c \in Dispatcher, e \in Event :
          Holds(c, e)' => Holds(c, e) /\ outbox'[e] = outbox[e]
    BY <1>2, <2>1, <2>2 DEF OneDelivererAtATime
  <2> QED
    BY <2>3, HeldStaysLocked
<1>4. ASSUME UNCHANGED batch, Mark(d, Published(outbox[h])) \/ UNCHANGED outbox
      PROVE  HeldRowsAreLocked' /\ OneDelivererAtATime'
  <2>1. \A e \in Event : outbox'[e] = outbox[e] \/ outbox'[e].status \in Passed
    BY <1>4 DEF Mark, Published, ChainInv, TypeOK, Passed
  <2>2. \A c \in Dispatcher, e \in Event : Holds(c, e)' => Holds(c, e)
    BY <1>4 DEF Holds
  <2> QED
    BY <2>1, <2>2, HeldStaysLocked
<1> QED
  BY <1>3, <1>4 DEF MarkPublished, MarkFailed

\* Prompt dispatchers keep their locks while they hold rows.
LEMMA PromptStepInv ==
  ASSUME PromptInv, PromptNext
  PROVE  HeldRowsAreLocked' /\ OneDelivererAtATime'
<1> USE DEF PromptInv
<1>1. ASSUME NEW w \in Writer, Write(w) PROVE HeldRowsAreLocked' /\ OneDelivererAtATime'
  <2>1. UNCHANGED batch
    BY <1>1 DEF Write, AppendAudit, Commit, Rollback
  <2>2. \A d \in Dispatcher, e \in Event : Holds(d, e)' => Holds(d, e)
    BY <2>1 DEF Holds
  <2>3. ASSUME NEW e \in Event, e \in Chained, e \notin Opened PROVE outbox'[e] = outbox[e]
    <3>1. CASE AppendAudit(w)
      BY <2>3, <3>1 DEF AppendAudit, Chained, ChainInv, TypeOK
    <3>2. CASE Commit(w)
      BY <3>2 DEF Commit
    <3>3. CASE Rollback(w)
      BY <2>3, <3>3 DEF Rollback, Undone, Opened
    <3> QED
      BY <1>1, <3>1, <3>2, <3>3 DEF Write
  <2>4. \A d \in Dispatcher, e \in Event : Holds(d, e) => e \in Chained /\ e \notin Opened
    BY DEF ChainInv, RowsAreChained
  <2> QED
    BY <2>2, <2>3, <2>4, HeldStaysLocked
<1>2. ASSUME NEW d \in Dispatcher, Purge(d) PROVE HeldRowsAreLocked' /\ OneDelivererAtATime'
  <2>1. \A e \in Event : DOMAIN outbox[e] = {"status", "owner", "lock", "due"}
    BY RowFields DEF ChainInv, TypeOK
  <2>2. \A e \in Event : outbox'[e] = outbox[e] \/ outbox'[e].status \in Passed
    BY <1>2, <2>1 DEF Purge, Passed
  <2>3. \A c \in Dispatcher, e \in Event : Holds(c, e)' => Holds(c, e)
    BY <1>2 DEF Purge, Holds
  <2> QED
    BY <2>2, <2>3, HeldStaysLocked
<1>3. ASSUME NEW d \in Dispatcher, Deliver(d) \/ Crash(d) \/ Restart(d)
      PROVE  HeldRowsAreLocked' /\ OneDelivererAtATime'
  <2>1. UNCHANGED outbox
    BY <1>3 DEF Deliver, Crash, Restart
  <2>2. \A c \in Dispatcher : batch'[c] = batch[c] \/ batch'[c] = <<>>
    BY <1>3 DEF Deliver, Crash, Restart, ChainInv, TypeOK
  <2>3. \A c \in Dispatcher, e \in Event : Holds(c, e)' => Holds(c, e)
    BY <2>2 DEF Holds
  <2> QED
    BY <2>1, <2>3, HeldStaysLocked
<1>4. ASSUME NEW f \in Event, AbandonedLockExpires(f) \/ BackoffElapses(f) \/ Ages(f)
      PROVE  HeldRowsAreLocked' /\ OneDelivererAtATime'
  <2>1. UNCHANGED batch /\ \A e \in Event \ {f} : outbox'[e] = outbox[e]
    BY <1>4 DEF AbandonedLockExpires, LockExpires, BackoffElapses, Ages, ChainInv, TypeOK
  <2>2. outbox[f] \in Row /\ DOMAIN outbox[f] = {"status", "owner", "lock", "due"}
    BY RowFields DEF ChainInv, TypeOK
  <2>3. (\E d \in Dispatcher : Holds(d, f)) => outbox'[f].status \in Passed
    <3>1. CASE AbandonedLockExpires(f)
      BY <3>1 DEF AbandonedLockExpires
    <3>2. CASE BackoffElapses(f)
      <4>1. outbox[f].lock # "live" /\ outbox[f].status \notin Passed
        BY <2>2, <3>2, RowFields DEF BackoffElapses, Passed
      <4> QED
        BY <4>1 DEF HeldRowsAreLocked, Passed
    <3>3. CASE Ages(f)
      BY <2>2, <3>3 DEF Ages, Passed, ChainInv, TypeOK
    <3> QED
      BY <1>4, <3>1, <3>2, <3>3
  <2>4. \A c \in Dispatcher, e \in Event : Holds(c, e)' => Holds(c, e)
    BY <2>1 DEF Holds
  <2> QED
    BY <2>1, <2>3, <2>4, HeldStaysLocked
<1>5. ASSUME NEW d \in Dispatcher, Claim(d) PROVE HeldRowsAreLocked' /\ OneDelivererAtATime'
  BY <1>5, ClaimTakesABatch, ClaimIsAlone
<1>6. ASSUME NEW d \in Dispatcher, RunOnce(d) PROVE HeldRowsAreLocked' /\ OneDelivererAtATime'
  BY <1>2, <1>3, <1>5, <1>6, MarksAreAlone, Zenon DEF RunOnce
<1> QED
  BY <1>1, <1>4, <1>6, Zenon DEF PromptNext

\* What holds of dispatchers that are prompt, or not.
MCChainInv == ChainInv /\ (prompt => HeldRowsAreLocked /\ OneDelivererAtATime)

\* As long as every batch is worked off before its lock expires, no event is
\* delivered by two dispatchers side by side, crashed ones included.
THEOREM PromptDeliverersAreAlone == MCSpec => []PromptDelivererIsAlone
<1>1. MCInit => MCChainInv
  BY InitChainInv DEF MCInit, MCChainInv
<1>2. MCChainInv /\ [MCNext]_<<vars, prompt>> => MCChainInv'
  <2> SUFFICES ASSUME MCChainInv, [MCNext]_<<vars, prompt>> PROVE MCChainInv'
    OBVIOUS
  <2>1. ChainInv'
    BY MCStepIsChainStep, ChainStepInv DEF MCChainInv
  <2>2. CASE UNCHANGED <<vars, prompt>>
    <3>1. HeldRowsAreLocked /\ OneDelivererAtATime => HeldRowsAreLocked' /\ OneDelivererAtATime'
      BY <2>2 DEF vars, HeldRowsAreLocked, OneDelivererAtATime, Holds
    <3> QED
      BY <2>1, <2>2, <3>1 DEF MCChainInv
  <2>3. CASE MCNext /\ ~ prompt
    BY <2>1, <2>3 DEF MCNext, MCChainInv
  <2>4. CASE MCNext /\ prompt
    <3>1. PromptInv /\ PromptNext
      BY <2>4 DEF MCNext, MCChainInv, PromptInv
    <3> QED
      BY <2>1, <3>1, PromptStepInv DEF MCChainInv
  <2> QED
    BY <2>2, <2>3, <2>4
<1>3. MCChainInv => PromptDelivererIsAlone
  BY DEF MCChainInv, PromptDelivererIsAlone
<1> QED
  BY <1>1, <1>2, <1>3, PTL DEF MCSpec

-----------------------------------------------------------------------------
(***************************************************************************)
(* The promise to the sink.                                                *)
(***************************************************************************)

\* The committed events in the order of the chain.
Told == [i \in DOMAIN CommittedChain |-> CommittedChain[i].id]

\* They are the events of the chain up to the first open one.
IsTold ==
  \E n \in 0..Len(chain) :
    /\ \A i \in 1..Len(chain) : chain[i].id \notin Opened <=> i <= n
    /\ Told = [i \in 1..n |-> chain[i].id]

\* The invariant says so, before a step
LEMMA ToldIsAPrefix == ChainInv => IsTold
<1> SUFFICES ASSUME ChainInv PROVE IsTold
  OBVIOUS
<1>1. PICK n \in 0..Len(chain) : \A i \in DOMAIN chain : chain[i].id \notin Opened <=> i <= n
  BY DEF ChainInv, OpenIsLast
<1>2. chain \in Seq(Record) /\ Len(chain) \in Nat /\ DOMAIN chain = 1..Len(chain)
  BY ChainRecords DEF ChainInv
<1>3. CommittedChain = SubSeq(chain, 1, n)
  BY <1>1, CommittedPrefix DEF ChainInv
<1>4. DOMAIN CommittedChain = 1..n /\ \A i \in 1..n : CommittedChain[i] = chain[i]
  BY <1>2, <1>3
<1>5. Told = [i \in 1..n |-> chain[i].id]
  BY <1>4 DEF Told
<1> QED
  BY <1>1, <1>2, <1>5 DEF IsTold

\* and after it.
LEMMA ToldIsAPrefixNext == ChainInv' => IsTold'
BY ToldIsAPrefix, PTL


\* What a transaction does is a record of the abstract trail, or nothing.
LEMMA WriteRecords ==
  ASSUME ChainInv, ChainInv', NEW w \in Writer, Write(w)
  PROVE  \/ Promise!Record
         \/ Told' = Told /\ accepted' = accepted
<1>1. PICK n \in 0..Len(chain) :
        /\ \A i \in 1..Len(chain) : chain[i].id \notin Opened <=> i <= n
        /\ Told = [i \in 1..n |-> chain[i].id]
  BY ToldIsAPrefix DEF IsTold
<1>2. PICK m \in 0..Len(chain') :
        /\ \A i \in 1..Len(chain') : chain'[i].id \notin Opened' <=> i <= m
        /\ Told' = [i \in 1..m |-> chain'[i].id]
  BY ToldIsAPrefixNext DEF IsTold
<1>3. /\ chain \in Seq(Record) /\ Len(chain) \in Nat /\ DOMAIN chain = 1..Len(chain)
      /\ \A i \in 1..Len(chain) : chain[i].id \in Event
  BY ChainRecords DEF ChainInv
<1>4. UNCHANGED accepted
  BY DEF Write, AppendAudit, Commit, Rollback
<1>5. CASE AppendAudit(w)
  <2>1. PICK e \in Event :
          /\ chain' = Append(chain, [id |-> e, prev |-> NewestFor(w)])
          /\ open' = [open EXCEPT ![w] = @ \cup {e}]
          /\ \A i \in DOMAIN chain : chain[i].id # e
    BY <1>5 DEF AppendAudit
  <2>2. /\ Len(chain') = Len(chain) + 1
        /\ \A i \in 1..Len(chain) : chain'[i] = chain[i]
        /\ chain'[Len(chain) + 1].id = e
    BY <1>3, <2>1
  <2>3. \A f : f \in Opened' <=> f \in Opened \/ f = e
    BY <2>1 DEF ChainInv, TypeOK
  <2> HIDE DEF Opened
  <2>4. \A i \in 1..(Len(chain) + 1) : i <= m <=> i <= n
    <3>1. ASSUME NEW i \in 1..Len(chain) PROVE i <= m <=> i <= n
      BY <1>1, <1>2, <1>3, <2>1, <2>2, <2>3
    <3>2. ~ (Len(chain) + 1 <= m) /\ ~ (Len(chain) + 1 <= n)
      BY <1>2, <1>3, <2>2, <2>3
    <3> QED
      BY <1>3, <3>1, <3>2
  <2>5. m = n
    <3>1. m \in 0..(Len(chain) + 1)
      BY <2>2
    <3> QED
      BY <1>3, <2>4, <3>1
  <2>6. Told' = Told
    BY <1>1, <1>2, <1>3, <2>2, <2>5
  <2> QED
    BY <1>4, <2>6
<1>6. CASE Commit(w)
  <2>1. chain' = chain /\ open[w] # {} /\ open' = [open EXCEPT ![w] = {}]
    BY <1>6 DEF Commit
  <2>2. \A f : f \notin Opened'
    <3>1. \A v \in Writer : open'[v] = {}
      BY <2>1 DEF ChainInv, TypeOK, OpenIsLast
    <3> QED
      BY <3>1
  <2> HIDE DEF Opened
  <2>3. m = Len(chain)
    <3>1. \A i \in 1..Len(chain) : i <= m
      BY <1>2, <2>1, <2>2
    <3>2. m \in 0..Len(chain)
      BY <2>1
    <3>3. Len(chain) \in Nat /\ (Len(chain) = 0 \/ Len(chain) \in 1..Len(chain))
      BY <1>3
    <3> HIDE <1>1, <1>2, <2>2
    <3> QED
      BY <3>1, <3>2, <3>3
  <2>4. n < Len(chain)
    <3>1. PICK f : f \in open[w]
      BY <2>1
    <3>2. f \in Chained /\ f \in Opened
      BY <3>1 DEF ChainInv, OpenIsLast, Opened
    <3>3. PICK i \in 1..Len(chain) : chain[i].id = f
      BY <1>3, <3>2 DEF Chained
    <3> QED
      BY <1>1, <1>3, <3>2, <3>3
  <2>5. /\ Told \in Seq(Event) /\ Len(Told) = n
        /\ Told' \in Seq(Event) /\ Len(Told') = m
        /\ \A i \in 1..n : Told'[i] = Told[i]
    <3>1. n \in Nat /\ m \in Nat /\ n <= m /\ m <= Len(chain)
      BY <1>3, <2>3, <2>4
    <3> QED
      BY <1>1, <1>2, <1>3, <2>1, <3>1
  <2>6. SubSeq(Told', 1, Len(Told)) = Told
    BY <1>3, <2>3, <2>4, <2>5
  <2>7. Len(Told') > Len(Told)
    BY <1>3, <2>3, <2>4, <2>5
  <2> QED
    BY <1>4, <2>6, <2>7 DEF Promise!Record, Told
<1>7. CASE Rollback(w)
  <2>1. /\ open[w] # {} /\ chain' = Kept(chain, Event \ open[w])
        /\ open' = [open EXCEPT ![w] = {}]
    BY <1>7 DEF Rollback
  <2>2. /\ \A f : f \notin Opened'
        /\ \A f : f \notin Opened <=> f \notin open[w]
    <3>1. /\ \A v \in Writer : open'[v] = {}
          /\ \A v \in Writer \ {w} : open[v] = {}
      BY <2>1 DEF ChainInv, TypeOK, OpenIsLast
    <3> QED
      BY <3>1
  <2>3. \A i \in 1..Len(chain) : chain[i].id \in Event \ open[w] <=> i <= n
    BY <1>1, <1>3, <2>2
  <2>4. chain' = SubSeq(chain, 1, n)
    BY <1>3, <2>1, <2>3, KeptPrefix
  <2>5. Len(chain') = n /\ \A i \in 1..n : chain'[i] = chain[i]
    BY <1>3, <2>4
  <2>6. m = n
    BY <1>2, <1>3, <2>2, <2>5
  <2> QED
    BY <1>1, <1>2, <1>4, <2>5, <2>6
<1> QED
  BY <1>5, <1>6, <1>7 DEF Write

\* What else happens is a delivery, or nothing.
LEMMA DeliveryAccepts ==
  ASSUME ChainInv, UNCHANGED <<chain, open>>,
         \/ UNCHANGED accepted
         \/ \E d \in Dispatcher : Deliver(d)
  PROVE  [Promise!Next]_Promise!vars
<1>1. Told' = Told
  BY DEF Told, CommittedChain, Committed, Opened, Kept
<1>2. CASE UNCHANGED accepted
  BY <1>1, <1>2 DEF Promise!vars, Told
<1>3. ASSUME NEW d \in Dispatcher, Deliver(d), accepted' # accepted PROVE Promise!Next
  <2> DEFINE h == Head(batch[d])
  <2>1. accepted' = accepted \cup {h} /\ at[d] = "delivering"
    BY <1>3 DEF Deliver
  <2>2. h \in Event /\ h \in Chained /\ h \notin Opened
    BY <2>1, HeadIsHeld
  <2> HIDE DEF h
  <2>3. PICK n \in 0..Len(chain) :
          /\ \A i \in 1..Len(chain) : chain[i].id \notin Opened <=> i <= n
          /\ Told = [i \in 1..n |-> chain[i].id]
    BY ToldIsAPrefix DEF IsTold
  <2>4. DOMAIN chain = 1..Len(chain) /\ Len(chain) \in Nat
    BY ChainRecords DEF ChainInv
  <2>5. PICK i \in 1..Len(chain) : chain[i].id = h
    BY <2>2, <2>4 DEF Chained
  <2>6. i \in DOMAIN Told /\ Told[i] = h
    BY <2>2, <2>3, <2>4, <2>5
  <2>7. Promise!Accept(h)
    BY <1>1, <2>1, <2>6 DEF Promise!Accept, Promise!Recorded, Told
  <2> QED
    BY <2>2, <2>7 DEF Promise!Next
<1> QED
  BY <1>2, <1>3

\* Every step of the dispatchers and the transactions is one of the trail.
LEMMA StepKeepsThePromise ==
  ASSUME ChainInv, ChainInv', ChainStep
  PROVE  [Promise!Next]_Promise!vars
<1>1. CASE \E w \in Writer : Write(w)
  BY <1>1, WriteRecords DEF Promise!Next, Promise!vars, Told
<1>2. CASE \E e \in Event : LockExpires(e) \/ BackoffElapses(e) \/ Ages(e)
  BY <1>2, DeliveryAccepts DEF LockExpires, BackoffElapses, Ages
<1>3. CASE UNCHANGED vars
  BY <1>3, DeliveryAccepts DEF vars
<1>4. ASSUME NEW d \in Dispatcher,
             Purge(d) \/ MarkPublished(d) \/ MarkFailed(d) \/ Crash(d) \/ Restart(d)
      PROVE  [Promise!Next]_Promise!vars
  <2>1. UNCHANGED <<chain, open, accepted>>
    BY <1>4, Zenon DEF Purge, MarkPublished, MarkFailed, Crash, Restart
  <2> QED
    BY <2>1, DeliveryAccepts
<1>5. ASSUME NEW d \in Dispatcher, Deliver(d) PROVE [Promise!Next]_Promise!vars
  <2>1. UNCHANGED <<chain, open>>
    BY <1>5 DEF Deliver
  <2> QED
    BY <1>5, <2>1, DeliveryAccepts
<1>6. ASSUME NEW d \in Dispatcher, NEW rows, TakesBatch(d, rows) PROVE [Promise!Next]_Promise!vars
  <2>1. UNCHANGED <<chain, open, accepted>>
    BY <1>6 DEF TakesBatch
  <2> QED
    BY <2>1, DeliveryAccepts
<1> QED
  <2>1. CASE \E d \in Dispatcher :
       \/ Purge(d) \/ Deliver(d) \/ MarkPublished(d) \/ MarkFailed(d) \/ Crash(d) \/ Restart(d)
       \/ \E rows : IsBatch(rows) /\ TakesBatch(d, rows)
    BY <1>4, <1>5, <1>6, <2>1, Zenon
  <2> QED
    BY <1>1, <1>2, <1>3, <2>1, Zenon DEF ChainStep

\* The sink is offered committed events only, and the trail others see grows
\* at its end only: the safety part of KeepsThePromise.
THEOREM TrailImplementsDelivery == MCSpec => Promise!Safety
<1>1. MCInit => ChainInv
  BY InitChainInv DEF MCInit
<1>2. ChainInv /\ [MCNext]_<<vars, prompt>> => ChainInv'
  BY MCStepIsChainStep, ChainStepInv
<1>3. MCInit => Promise!Init
  <2> SUFFICES ASSUME MCInit PROVE Promise!Init
    OBVIOUS
  <2>1. ChainInv /\ chain = <<>> /\ accepted = {}
    BY InitChainInv DEF MCInit, Init
  <2>2. PICK n \in 0..Len(chain) : Told = [i \in 1..n |-> chain[i].id]
    BY <2>1, ToldIsAPrefix DEF IsTold
  <2>3. Told = <<>>
    BY <2>1, <2>2
  <2> QED
    BY <2>1, <2>3 DEF Promise!Init, Told
<1>4. ChainInv /\ ChainInv' /\ [MCNext]_<<vars, prompt>> => [Promise!Next]_Promise!vars
  BY MCStepIsChainStep, StepKeepsThePromise
<1> QED
  BY <1>1, <1>2, <1>3, <1>4, PTL DEF MCSpec, Promise!Safety

=============================================================================
