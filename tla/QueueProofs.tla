------------------------------ MODULE QueueProofs ------------------------------
(***************************************************************************)
(* Theorems about the operators of Queue, for queues of any length, any    *)
(* events and any number of checks.                                        *)
(*                                                                         *)
(* What the loops of internal/queue compute is proved by induction, which  *)
(* is stated here about sets of numbers: a set that contains 0 and, with   *)
(* every number, the next one, contains all numbers.                       *)
(***************************************************************************)
EXTENDS Queue, FiniteSetTheorems, WellFoundedInduction, TLAPS

(* Induction *)

\* Every set of natural numbers has a least element.
LEMMA Least ==
  ASSUME NEW S \in SUBSET Nat, S # {}
  PROVE  \E k \in S : \A j \in S : k <= j
PROOF
<1> DEFINE T == {0 .. k : k \in S}
<1>1. IsWellFoundedOn(StrictSubsetOrdering(Nat), FiniteSubsetsOf(Nat))
  BY FS_StrictSubsetOrderingWellFounded
<1>2. T \subseteq FiniteSubsetsOf(Nat)
  <2> SUFFICES ASSUME NEW k \in S PROVE 0 .. k \in FiniteSubsetsOf(Nat)
    OBVIOUS
  <2>1. k \in Int /\ 0 \in Int
    OBVIOUS
  <2>2. IsFiniteSet(0 .. k)
    BY <2>1, FS_Interval
  <2> QED BY <2>2 DEF FiniteSubsetsOf
<1>3. T # {}
  OBVIOUS
<1> HIDE DEF T
<1>4. PICK x \in T : \A y \in T : ~ (<<y, x>> \in StrictSubsetOrdering(Nat))
  BY <1>1, <1>2, <1>3, WFMin
<1>5. PICK k \in S : x = 0 .. k
  BY <1>4 DEF T
<1>6. ASSUME NEW j \in S PROVE k <= j
  <2> SUFFICES ASSUME j < k PROVE FALSE
    OBVIOUS
  <2>1. 0 .. j \in T
    BY DEF T
  <2>2. 0 .. j \subseteq 0 .. k /\ k \in 0 .. k /\ k \notin 0 .. j
    OBVIOUS
  <2>3. <<0 .. j, 0 .. k>> \in StrictSubsetOrdering(Nat)
    BY <2>2 DEF StrictSubsetOrdering
  <2> QED BY <1>4, <1>5, <2>1, <2>3
<1> QED BY <1>6

\* A set that contains 0 and the successor of each number in it contains them all.
LEMMA Induction ==
  ASSUME NEW S, 0 \in S, \A n \in Nat : n \in S => n + 1 \in S
  PROVE  Nat \subseteq S
PROOF
<1> DEFINE R == Nat \ S
<1> SUFFICES ASSUME R # {} PROVE FALSE
  OBVIOUS
<1>1. PICK k \in R : \A j \in R : k <= j
  BY Least
<1>2. k - 1 \in Nat /\ k - 1 \notin R
  BY <1>1
<1> QED BY <1>1, <1>2

Runs(f, x0, n, G) == f[0] = x0 /\ \A i \in 1 .. n : f[i] = G[i][f[i - 1]]

\* A step can be repeated: from any x0 there is a run of n steps of G.
LEMMA Recursion ==
  ASSUME NEW X, NEW x0 \in X, NEW n \in Nat, NEW G \in [1 .. n -> [X -> X]]
  PROVE  \E f \in [0 .. n -> X] : Runs(f, x0, n, G)
PROOF
<1> DEFINE Run(f, m) == f[0] = x0 /\ \A i \in 1 .. m : f[i] = G[i][f[i - 1]]
           S == {m \in Nat : m <= n => \E f \in [0 .. m -> X] : Run(f, m)}
<1>1. 0 \in S
  <2> DEFINE start == [i \in 0 .. 0 |-> x0]
  <2>1. start \in [0 .. 0 -> X] /\ start[0] = x0
    BY ONLY x0 \in X
  <2> HIDE DEF start
  <2>2. Run(start, 0)
    BY ONLY <2>1
  <2> HIDE DEF Run
  <2>3. 0 <= n => \E f \in [0 .. 0 -> X] : Run(f, 0)
    BY ONLY <2>1, <2>2
  <2> QED BY ONLY <2>3
<1>2. ASSUME NEW m \in Nat, m \in S, m + 1 <= n
      PROVE  \E f \in [0 .. m + 1 -> X] : Run(f, m + 1)
  <2>1. PICK f \in [0 .. m -> X] : Run(f, m)
    <3> HIDE DEF Run
    <3> QED BY ONLY <1>2, m \in Nat, n \in Nat
  <2> DEFINE g == [i \in 0 .. m + 1 |-> IF i <= m THEN f[i] ELSE G[m + 1][f[m]]]
  <2>2. m + 1 \in 1 .. n /\ m \in 0 .. m /\ G[m + 1] \in [X -> X] /\ f[m] \in X
    BY <1>2
  <2>3. g \in [0 .. m + 1 -> X]
    <3>1. ASSUME NEW i \in 0 .. m + 1
          PROVE  (IF i <= m THEN f[i] ELSE G[m + 1][f[m]]) \in X
      BY <2>2
    <3> QED BY <3>1
  <2>4. g[0] = x0
    BY <2>1
  <2>5. ASSUME NEW i \in 1 .. m + 1 PROVE g[i] = G[i][g[i - 1]]
    <3>1. i \in 0 .. m + 1 /\ i - 1 \in 0 .. m + 1 /\ i - 1 <= m
      OBVIOUS
    <3>2. g[i - 1] = f[i - 1]
      BY <3>1
    <3>3. CASE i <= m
      BY <2>1, <3>1, <3>2, <3>3
    <3>4. CASE i = m + 1
      BY <3>1, <3>2, <3>4
    <3> QED BY <3>3, <3>4
  <2> HIDE DEF g
  <2> QED BY <2>3, <2>4, <2>5
<1>3. Nat \subseteq S
  <2> HIDE DEF Run
  <2>1. ASSUME NEW m \in Nat, m \in S PROVE m + 1 \in S
    BY <1>2, <2>1
  <2> HIDE DEF S
  <2> QED BY <1>1, <2>1, Induction
<1> HIDE DEF Run
<1>4. \E f \in [0 .. n -> X] : Run(f, n)
  BY ONLY <1>3, n \in Nat
<1> QED BY <1>4 DEF Runs, Run

-----------------------------------------------------------------------------
(* The last entry about a check *)

Queued(E) == [event : E, createdAt : Nat]

\* Older entries come first, and one check never has two of the same time.
Ordered(events) ==
  \A i, j \in DOMAIN events : i < j =>
    /\ events[i].createdAt <= events[j].createdAt
    /\ events[i].event.check = events[j].event.check =>
         events[i].createdAt < events[j].createdAt

About(events, id) == {entry \in ToSet(events) : entry.event.check = id}

Latest(entry, entries) ==
  entry \in entries /\ \A other \in entries : other.createdAt <= entry.createdAt

\* A set of positions has a greatest one.
LEMMA Greatest ==
  ASSUME NEW n \in Nat, NEW I \in SUBSET (1 .. n), I # {}
  PROVE  Max(I) \in I /\ \A i \in I : i <= Max(I)
PROOF
<1> DEFINE J == {n - i : i \in I}
<1>1. J \in SUBSET Nat /\ J # {}
  <2>1. \A i \in I : n - i \in Nat
    OBVIOUS
  <2> QED BY <2>1
<1>2. PICK k \in J : \A j \in J : k <= j
  <2> HIDE DEF J
  <2> QED BY <1>1, Least
<1>3. PICK i \in I : k = n - i
  BY <1>2
<1>4. ASSUME NEW j \in I PROVE i >= j
  <2>1. n - j \in J
    OBVIOUS
  <2>2. n - i <= n - j /\ i \in Nat /\ j \in Nat
    <3>1. k <= n - j
      BY <1>2, <2>1
    <3>2. I \subseteq 1 .. n /\ i \in I /\ j \in I
      OBVIOUS
    <3> QED BY ONLY <1>3, <3>1, <3>2
  <2> QED BY ONLY <2>2, n \in Nat
<1> QED BY <1>4 DEF Max

\* queue.lastIndex scans from the end: what it finds is about the check, and
\* nothing about the check follows.
LEMMA LastIndexFinds ==
  ASSUME NEW E, NEW events \in Seq(Queued(E)), NEW id
  PROVE  /\ LastIndex(events, id) \in 0 .. Len(events)
         /\ LastIndex(events, id) # 0 =>
              events[LastIndex(events, id)].event.check = id
         /\ \A i \in 1 .. Len(events) :
              events[i].event.check = id => i <= LastIndex(events, id)
PROOF
<1> DEFINE I == {i \in 1 .. Len(events) : events[i].event.check = id}
<1>1. LastIndex(events, id) = IF I # {} THEN Max(I) ELSE 0
  BY DEF LastIndex, SelectLastInSeq
<1>2. I # {} => Max(I) \in I /\ \A i \in I : i <= Max(I)
  <2>1. I \in SUBSET (1 .. Len(events)) /\ Len(events) \in Nat
    OBVIOUS
  <2> HIDE DEF I
  <2> QED BY <2>1, Greatest
<1> QED BY <1>1, <1>2

\* In an ordered queue it is the latest entry about the check, and there is only
\* one latest entry.
LEMMA LastIsLatest ==
  ASSUME NEW E, NEW events \in Seq(Queued(E)), NEW id, Ordered(events)
  PROVE  LET last == LastIndex(events, id)
         IN /\ last = 0 <=> About(events, id) = {}
            /\ last # 0 => Latest(events[last], About(events, id))
            /\ \A entry : Latest(entry, About(events, id)) =>
                 last # 0 /\ entry = events[last]
PROOF
<1> DEFINE last == LastIndex(events, id)
<1>1. /\ last \in 0 .. Len(events)
      /\ last # 0 => events[last].event.check = id
      /\ \A i \in 1 .. Len(events) : events[i].event.check = id => i <= last
  BY LastIndexFinds
<1> HIDE DEF last
<1>2. DOMAIN events = 1 .. Len(events) /\ Len(events) \in Nat
  OBVIOUS
<1>3. \A entry \in About(events, id) :
        \E i \in 1 .. Len(events) : entry = events[i] /\ events[i].event.check = id
  BY <1>2 DEF About, ToSet
<1>4. \A i \in 1 .. Len(events) : events[i].createdAt \in Nat
  <2>1. \A i \in 1 .. Len(events) : events[i] \in Queued(E)
    OBVIOUS
  <2> QED BY <2>1 DEF Queued
<1>5. last # 0 => events[last] \in About(events, id)
  BY <1>1, <1>2 DEF About, ToSet
<1>6. ASSUME NEW other \in About(events, id), other # events[last]
      PROVE  last # 0 /\ other.createdAt < events[last].createdAt
  <2>1. PICK i \in 1 .. Len(events) : other = events[i] /\ events[i].event.check = id
    BY <1>3
  <2>2. i < last /\ last \in 1 .. Len(events)
    BY <1>1, <1>6, <2>1
  <2> QED BY <1>1, <1>2, <2>1, <2>2 DEF Ordered
<1>7. last # 0 => Latest(events[last], About(events, id))
  <2> SUFFICES ASSUME last # 0, NEW other \in About(events, id)
               PROVE other.createdAt <= events[last].createdAt
    BY <1>5 DEF Latest
  <2> QED BY <1>1, <1>2, <1>3, <1>4, <1>6
<1>8. last = 0 <=> About(events, id) = {}
  BY <1>1, <1>3, <1>5
<1>9. ASSUME NEW entry, Latest(entry, About(events, id)) PROVE last # 0 /\ entry = events[last]
  <2>1. entry \in About(events, id) /\ last # 0 /\ last \in 1 .. Len(events)
    BY <1>1, <1>8, <1>9 DEF Latest
  <2>2. events[last].createdAt <= entry.createdAt
    BY <1>5, <1>9, <2>1 DEF Latest
  <2>3. entry.createdAt \in Nat /\ events[last].createdAt \in Nat
    BY <1>3, <1>4, <2>1
  <2> QED BY <1>6, <2>1, <2>2, <2>3
<1> QED BY <1>7, <1>8, <1>9 DEF last

-----------------------------------------------------------------------------
(* Adding events *)

UpTo(events, time) == \A i \in DOMAIN events : events[i].createdAt <= time

\* What adding an event at a time makes of the entries about its check: nothing,
\* as it is there already; it takes the place of the latest one; or it is new.
Adds(old, new, event, time) ==
  LET Updates(entry) == /\ event.kind \in {"reminder", "escalation"}
                        /\ entry.event.kind \notin {"recovery", "occurrence"}
  IN \/ /\ new = old
        /\ \E entry \in old : /\ entry.event = event
                              /\ event.kind # "occurrence" => Latest(entry, old)
     \/ \E entry : /\ Latest(entry, old) /\ Updates(entry)
                   /\ new = (old \ {entry}) \cup {[entry EXCEPT !.event = event]}
     \/ /\ new = old \cup {Entry(event, time)}
        /\ \A entry : Latest(entry, old) => ~Updates(entry) /\ entry.event # event

\* Appending an entry that is not older than the others, and newer than those about
\* its check, keeps the order.
LEMMA AppendKeepsOrder ==
  ASSUME NEW E, NEW events \in Seq(Queued(E)), NEW entry \in Queued(E), Ordered(events),
         UpTo(events, entry.createdAt),
         \A other \in About(events, entry.event.check) : other.createdAt < entry.createdAt
  PROVE  /\ Append(events, entry) \in Seq(Queued(E)) /\ Ordered(Append(events, entry))
         /\ ToSet(Append(events, entry)) = ToSet(events) \cup {entry}
PROOF
<1> DEFINE q == Append(events, entry)
<1>1. /\ Len(events) \in Nat /\ DOMAIN events = 1 .. Len(events)
      /\ q \in Seq(Queued(E)) /\ DOMAIN q = 1 .. Len(events) + 1
      /\ q[Len(events) + 1] = entry /\ \A i \in 1 .. Len(events) : q[i] = events[i]
  OBVIOUS
<1> HIDE DEF q
<1>2. ToSet(q) = ToSet(events) \cup {entry}
  BY <1>1 DEF ToSet
<1>3. ASSUME NEW i \in DOMAIN q, NEW j \in DOMAIN q, i < j
      PROVE  /\ q[i].createdAt <= q[j].createdAt
             /\ q[i].event.check = q[j].event.check => q[i].createdAt < q[j].createdAt
  <2>1. i \in 1 .. Len(events) /\ q[i] = events[i] /\ i \in DOMAIN events
    BY <1>1, <1>3
  <2>2. CASE j \in 1 .. Len(events)
    BY <1>1, <1>3, <2>1, <2>2 DEF Ordered
  <2>3. CASE j = Len(events) + 1
    <3>1. q[j] = entry
      BY <1>1, <2>3
    <3>2. q[i].createdAt <= q[j].createdAt
      BY <2>1, <3>1 DEF UpTo
    <3>3. ASSUME q[i].event.check = q[j].event.check PROVE q[i].createdAt < q[j].createdAt
      <4>1. events[i] \in About(events, entry.event.check)
        BY <2>1, <3>1, <3>3 DEF About, ToSet
      <4> QED BY <2>1, <3>1, <4>1
    <3> QED BY <3>2, <3>3
  <2> QED BY <1>1, <2>2, <2>3
<1> QED BY <1>1, <1>2, <1>3 DEF Ordered, q

\* Replacing the event of the last entry about its check keeps the order.
LEMMA UpdateKeepsOrder ==
  ASSUME NEW E, NEW events \in Seq(Queued(E)), NEW event \in E, Ordered(events),
         NEW last \in DOMAIN events, events[last].event.check = event.check,
         NEW updated \in Queued(E), updated.event = event,
         updated.createdAt = events[last].createdAt,
         NEW q \in Seq(Queued(E)), DOMAIN q = DOMAIN events, q[last] = updated,
         \A i \in DOMAIN events : i # last => q[i] = events[i]
  PROVE  /\ Ordered(q)
         /\ \A i \in DOMAIN events : q[i].createdAt = events[i].createdAt
         /\ \A x : x \in ToSet(q) <=> x = updated \/ (x \in ToSet(events) /\ x # events[last])
PROOF
<1> DEFINE entry == events[last]
<1>1. /\ Len(events) \in Nat /\ DOMAIN events = 1 .. Len(events)
      /\ \A i \in DOMAIN events : events[i] \in Queued(E)
  OBVIOUS
<1>2. \A i \in DOMAIN events : /\ q[i].createdAt = events[i].createdAt
                               /\ q[i].event.check = events[i].event.check
  OBVIOUS
<1>3. Ordered(q)
  BY <1>2 DEF Ordered
<1>4. ASSUME NEW i \in DOMAIN events, i # last PROVE events[i] # entry
  <2>1. i < last \/ last < i
    BY <1>1, <1>4
  <2>2. events[i].createdAt \in Nat /\ entry.createdAt \in Nat
    BY <1>1 DEF Queued
  <2> QED BY <2>1, <2>2 DEF Ordered
<1>5. ASSUME NEW x PROVE x \in ToSet(q) <=> x = updated \/ (x \in ToSet(events) /\ x # entry)
  <2>1. x \in ToSet(q) <=> \E i \in DOMAIN events : x = q[i]
    BY DEF ToSet
  <2>2. x \in ToSet(events) <=> \E i \in DOMAIN events : x = events[i]
    BY DEF ToSet
  <2>3. CASE x = updated
    <3>1. \E i \in DOMAIN events : x = q[i]
      BY <2>3
    <3> QED BY <2>1, <2>3, <3>1
  <2>4. CASE x # updated
    <3>1. ASSUME x \in ToSet(q) PROVE x \in ToSet(events) /\ x # entry
      BY <1>4, <2>1, <2>2, <2>4, <3>1
    <3>2. ASSUME x \in ToSet(events), x # entry PROVE x \in ToSet(q)
      BY <2>1, <2>2, <3>2
    <3> QED BY <2>4, <3>1, <3>2
  <2> QED BY <2>3, <2>4
<1> QED BY <1>2, <1>3, <1>5

\* One turn of Add's loop.
LEMMA AddOneAdds ==
  ASSUME NEW E, NEW events \in Seq(Queued(E)), NEW event \in E, NEW time \in Nat,
         Ordered(events), UpTo(events, time),
         \A entry \in About(events, event.check) : entry.createdAt < time
  PROVE  LET q == AddOne(events, event, time)
         IN /\ q \in Seq(Queued(E)) /\ Ordered(q) /\ UpTo(q, time)
            /\ Adds(About(events, event.check), About(q, event.check), event, time)
            /\ \A id : id # event.check => About(q, id) = About(events, id)
PROOF
<1> DEFINE q == AddOne(events, event, time)
           old == About(events, event.check)
           last == LastIndex(events, event.check)
           updates == /\ last # 0
                      /\ event.kind \in {"reminder", "escalation"}
                      /\ events[last].event.kind \notin {"recovery", "occurrence"}
<1>1. /\ last \in 0 .. Len(events) /\ DOMAIN events = 1 .. Len(events)
      /\ last # 0 => last \in DOMAIN events /\ events[last].event.check = event.check
  BY LastIndexFinds
<1>2. /\ last = 0 <=> old = {}
      /\ last # 0 => Latest(events[last], old)
      /\ \A entry : Latest(entry, old) => last # 0 /\ entry = events[last]
  BY LastIsLatest
<1>3. \A i \in DOMAIN events : events[i].event = event => events[i] \in old
  BY DEF About, ToSet
<1>4. q = IF ~IsNews(events, event) THEN events
          ELSE IF updates THEN [events EXCEPT ![last].event = event]
          ELSE Append(events, Entry(event, time))
  BY DEF AddOne
<1>5. IsNews(events, event) <=>
        /\ last # 0 => events[last].event # event
        /\ event.kind = "occurrence" => \A i \in DOMAIN events : events[i].event # event
  BY DEF IsNews
<1> HIDE DEF last, q, old
<1>6. CASE ~IsNews(events, event)
  <2>1. q = events
    BY <1>4, <1>6
  <2>2. \E entry \in old : /\ entry.event = event
                           /\ event.kind # "occurrence" => Latest(entry, old)
    <3>1. CASE last # 0 /\ events[last].event = event
      BY <1>2, <3>1 DEF Latest
    <3>2. CASE event.kind = "occurrence" /\ \E i \in DOMAIN events : events[i].event = event
      BY <1>3, <3>2
    <3> QED BY <1>5, <1>6, <3>1, <3>2
  <2>3. Adds(old, old, event, time)
    BY <2>2 DEF Adds
  <2> QED BY <2>1, <2>3 DEF old, q
<1>7. CASE IsNews(events, event) /\ updates
  <2> DEFINE entry == events[last]
             updated == [entry EXCEPT !.event = event]
  <2>1. /\ last \in DOMAIN events /\ entry \in Queued(E)
        /\ entry.event.check = event.check
    BY <1>1, <1>7
  <2>2. /\ updated \in Queued(E) /\ updated.event = event
        /\ updated.createdAt = entry.createdAt
    BY <2>1 DEF Queued
  <2>3. /\ q \in Seq(Queued(E)) /\ DOMAIN q = DOMAIN events /\ q[last] = updated
        /\ \A i \in DOMAIN events : i # last => q[i] = events[i]
    <3>1. q = [events EXCEPT ![last] = updated]
      BY <1>4, <1>7
    <3> HIDE DEF updated
    <3> QED BY <2>1, <2>2, <3>1
  <2> HIDE DEF updated
  <2>4. /\ Ordered(q)
        /\ \A i \in DOMAIN events : q[i].createdAt = events[i].createdAt
        /\ \A x : x \in ToSet(q) <=> x = updated \/ (x \in ToSet(events) /\ x # events[last])
    BY <2>1, <2>2, <2>3, UpdateKeepsOrder
  <2>5. UpTo(q, time)
    BY <2>3, <2>4 DEF UpTo
  <2>6. About(q, event.check) = (old \ {entry}) \cup {updated}
    <3>1. \A x : x \in About(q, event.check) <=>
                  x = updated \/ (x \in old /\ x # entry)
      BY <2>1, <2>2, <2>4 DEF About, old
    <3> HIDE DEF entry
    <3> QED BY <3>1, SMT
  <2>7. ASSUME NEW id, id # event.check PROVE About(q, id) = About(events, id)
    <3>1. \A x : x \in About(q, id) <=> x \in About(events, id)
      BY <2>1, <2>2, <2>4, <2>7 DEF About
    <3> QED BY <3>1
  <2>8. Adds(old, About(q, event.check), event, time)
    BY <1>2, <1>7, <2>6 DEF Adds, updated
  <2> QED BY <2>3, <2>4, <2>5, <2>7, <2>8 DEF q, old
<1>8. CASE IsNews(events, event) /\ ~updates
  <2> DEFINE entry == Entry(event, time)
  <2>1. q = Append(events, entry)
    BY <1>4, <1>8
  <2>2. entry \in Queued(E) /\ entry.createdAt = time /\ entry.event = event
    BY DEF Entry, Queued
  <2> HIDE DEF entry
  <2>3. /\ q \in Seq(Queued(E)) /\ Ordered(q)
        /\ ToSet(q) = ToSet(events) \cup {entry}
    BY <2>1, <2>2, AppendKeepsOrder
  <2>4. UpTo(q, time)
    <3>1. \A other \in ToSet(events) : other.createdAt <= time
      BY DEF UpTo, ToSet
    <3>2. \A other \in ToSet(q) : other.createdAt <= time
      BY <2>2, <2>3, <3>1
    <3> QED BY <3>2 DEF UpTo, ToSet
  <2>5. About(q, event.check) = old \cup {entry}
    BY <2>2, <2>3 DEF About, old
  <2>6. \A id : id # event.check => About(q, id) = About(events, id)
    BY <2>2, <2>3 DEF About
  <2>7. \A other : Latest(other, old) =>
          /\ other.event # event
          /\ ~(/\ event.kind \in {"reminder", "escalation"}
               /\ other.event.kind \notin {"recovery", "occurrence"})
    BY <1>2, <1>5, <1>8
  <2>8. Adds(old, About(q, event.check), event, time)
    BY <2>5, <2>7 DEF Adds, entry
  <2> QED BY <2>3, <2>4, <2>6, <2>8 DEF q, old
<1> QED BY <1>6, <1>7, <1>8 DEF q, old

\* Adding an event keeps the queue's type.
LEMMA AddOneType ==
  ASSUME NEW E, NEW events \in Seq(Queued(E)), NEW event \in E, NEW time \in Nat
  PROVE  AddOne(events, event, time) \in Seq(Queued(E))
PROOF
<1> DEFINE last == LastIndex(events, event.check)
           updated == [events[last] EXCEPT !.event = event]
<1>1. last \in 0 .. Len(events) /\ DOMAIN events = 1 .. Len(events)
  BY LastIndexFinds
<1>2. AddOne(events, event, time) \in
        {events, [events EXCEPT ![last] = updated], Append(events, Entry(event, time))}
  BY DEF AddOne
<1>3. Entry(event, time) \in Queued(E)
  BY DEF Entry, Queued
<1> HIDE DEF last
<1>4. last \in DOMAIN events => updated \in Queued(E)
  <2> SUFFICES ASSUME last \in DOMAIN events PROVE updated \in Queued(E)
    OBVIOUS
  <2>1. events[last] \in Queued(E)
    BY <1>1
  <2> QED BY <2>1 DEF Queued
<1> HIDE DEF updated
<1>5. [events EXCEPT ![last] = updated] \in Seq(Queued(E))
  <2>1. CASE last \in DOMAIN events
    BY <1>4, <2>1
  <2>2. CASE last \notin DOMAIN events
    <3>1. [events EXCEPT ![last] = updated] = events
      BY <2>2
    <3> QED BY <3>1
  <2> QED BY <2>1, <2>2
<1>6. Append(events, Entry(event, time)) \in Seq(Queued(E))
  BY <1>3
<1> QED BY <1>2, <1>5, <1>6

\* The queue after each of the events.
AfterEach(after, events, incoming, time) ==
  /\ after[0] = events /\ after[Len(incoming)] = AddAll(events, incoming, time)
  /\ \A i \in 1 .. Len(incoming) : after[i] = AddOne(after[i - 1], incoming[i], time)

\* The events of a run are added one after the other.
LEMMA AddAllSteps ==
  ASSUME NEW E, NEW events \in Seq(Queued(E)), NEW incoming \in Seq(E), NEW time \in Nat
  PROVE  \E after \in [0 .. Len(incoming) -> Seq(Queued(E))] :
           AfterEach(after, events, incoming, time)
PROOF
<1> DEFINE n == Len(incoming)
           X == Seq(Queued(E))
           Step(f) == [i \in 0 .. n |-> IF i = 0 THEN events
                                        ELSE AddOne(f[i - 1], incoming[i], time)]
           after == CHOOSE f : f = Step(f)
           G == [i \in 1 .. n |-> [q \in X |-> AddOne(q, incoming[i], time)]]
<1>1. n \in Nat /\ \A i \in 1 .. n : incoming[i] \in E
  OBVIOUS
<1>2. G \in [1 .. n -> [X -> X]]
  BY <1>1, AddOneType
<1> HIDE DEF X, n
<1>3. PICK f \in [0 .. n -> X] : Runs(f, events, n, G)
  <2>1. events \in X
    BY DEF X
  <2>2. n \in Nat
    BY <1>1
  <2> HIDE DEF G
  <2> QED BY ONLY <1>2, <2>1, <2>2, Recursion
<1>4. \A i \in 1 .. n : f[i] = AddOne(f[i - 1], incoming[i], time)
  <2> TAKE i \in 1 .. n
  <2>1. f[i - 1] \in X
    BY <1>1
  <2>2. G[i] = [q \in X |-> AddOne(q, incoming[i], time)]
    OBVIOUS
  <2>3. f[i] = G[i][f[i - 1]]
    BY <1>3 DEF Runs
  <2> HIDE DEF G
  <2> QED BY ONLY <2>1, <2>2, <2>3
<1>5. f = Step(f)
  <2>1. ASSUME NEW i \in 0 .. n
        PROVE  f[i] = IF i = 0 THEN events ELSE AddOne(f[i - 1], incoming[i], time)
    BY <1>1, <1>3, <1>4 DEF Runs
  <2> QED BY <1>3, <2>1 DEF Runs
<1>6. after = Step(after)
  BY <1>5
<1>7. /\ DOMAIN after = 0 .. n /\ after[0] = events
      /\ \A i \in 1 .. n : after[i] = AddOne(after[i - 1], incoming[i], time)
  <2> HIDE DEF after
  <2> QED BY <1>1, <1>6
<1>8. AddAll(events, incoming, time) = after[n]
  BY DEF AddAll, n
<1> HIDE DEF after
<1>9. \A i \in 0 .. n : after[i] \in X
  <2> DEFINE S == {i \in Nat : i <= n => after[i] \in X}
  <2>1. 0 \in S
    BY <1>7 DEF X
  <2>2. ASSUME NEW i \in Nat, i \in S PROVE i + 1 \in S
    <3> SUFFICES ASSUME i + 1 <= n PROVE after[i + 1] \in X
      OBVIOUS
    <3>1. after[i] \in X /\ i + 1 \in 1 .. n /\ (i + 1) - 1 = i
      BY <1>1, <2>2
    <3>2. after[i + 1] = AddOne(after[i], incoming[i + 1], time)
      BY <1>7, <3>1
    <3> QED BY <1>1, <3>1, <3>2, AddOneType DEF X
  <2> HIDE DEF S
  <2>3. Nat \subseteq S
    BY <2>1, <2>2, Induction
  <2> QED BY <1>1, <2>3 DEF S
<1>10. after \in [0 .. n -> X]
  <2>1. after = [i \in 0 .. n |-> after[i]]
    BY <1>6, <1>7
  <2> QED BY <1>9, <2>1
<1> QED BY <1>7, <1>8, <1>10 DEF n, X, AfterEach

Distinct(incoming) ==
  \A i, j \in DOMAIN incoming : incoming[i].check = incoming[j].check => i = j

\* What the first n of a run's events make of a queue.
AddsFirst(events, incoming, n, time, new) ==
  /\ Ordered(new) /\ UpTo(new, time)
  /\ \A i \in 1 .. n : Adds(About(events, incoming[i].check),
                            About(new, incoming[i].check), incoming[i], time)
  /\ \A id : (\A i \in 1 .. n : incoming[i].check # id) =>
               About(new, id) = About(events, id)

\* queue.Add's loop, before the queue is trimmed: each event meets the entries about
\* its check as they were before the run, as no check raises two events in one run.
LEMMA AddAllAdds ==
  ASSUME NEW E, NEW events \in Seq(Queued(E)), NEW incoming \in Seq(E), NEW time \in Nat,
         Ordered(events), \A i \in DOMAIN events : events[i].createdAt < time,
         Distinct(incoming)
  PROVE  /\ AddAll(events, incoming, time) \in Seq(Queued(E))
         /\ AddsFirst(events, incoming, Len(incoming), time, AddAll(events, incoming, time))
PROOF
<1> DEFINE n == Len(incoming)
           Claim(i, q) == AddsFirst(events, incoming, i, time, q)
<1>1. PICK after \in [0 .. n -> Seq(Queued(E))] :
        AfterEach(after, events, incoming, time)
  BY AddAllSteps
<1>2. n \in Nat /\ DOMAIN incoming = 1 .. n /\ \A i \in 1 .. n : incoming[i] \in E
  OBVIOUS
<1>3. \A i \in DOMAIN events : events[i].createdAt \in Nat
  <2>1. \A i \in DOMAIN events : events[i] \in Queued(E)
    OBVIOUS
  <2> QED BY <2>1 DEF Queued
<1>4. Claim(0, events)
  BY <1>3 DEF AddsFirst, UpTo
<1> HIDE DEF n
<1>5. ASSUME NEW i \in Nat, i + 1 <= n, Claim(i, after[i])
      PROVE  Claim(i + 1, after[i + 1])
  <2> DEFINE old == after[i]
             new == after[i + 1]
             event == incoming[i + 1]
  <2>1. /\ i + 1 \in 1 .. n /\ old \in Seq(Queued(E)) /\ event \in E
        /\ new = AddOne(old, event, time)
    <3>1. i + 1 \in 1 .. n /\ (i + 1) - 1 = i /\ i \in 0 .. n
      BY <1>2, <1>5
    <3>2. \A j \in 1 .. n : after[j] = AddOne(after[j - 1], incoming[j], time)
      BY <1>1 DEF AfterEach, n
    <3> QED BY <1>1, <1>2, <3>1, <3>2
  <2>2. \A j \in 1 .. i : j \in DOMAIN incoming /\ i + 1 \in DOMAIN incoming /\ j # i + 1
    BY ONLY <1>2, <1>5, i \in Nat
  <2>3. \A j \in 1 .. i : incoming[j].check # event.check
    BY <2>2 DEF Distinct
  <2>4. About(old, event.check) = About(events, event.check)
    BY <1>5, <2>3 DEF AddsFirst
  <2>5. \A entry \in About(old, event.check) : entry.createdAt < time
    BY <2>4 DEF About, ToSet
  <2>6. Ordered(old) /\ UpTo(old, time)
    BY <1>5 DEF AddsFirst
  <2> HIDE DEF old, new, event
  <2>7. /\ Ordered(new) /\ UpTo(new, time)
        /\ Adds(About(old, event.check), About(new, event.check), event, time)
        /\ \A id : id # event.check => About(new, id) = About(old, id)
    <3>1. /\ Ordered(AddOne(old, event, time)) /\ UpTo(AddOne(old, event, time), time)
          /\ Adds(About(old, event.check), About(AddOne(old, event, time), event.check),
                  event, time)
          /\ \A id : id # event.check => About(AddOne(old, event, time), id) = About(old, id)
      BY ONLY <2>1, <2>5, <2>6, time \in Nat, AddOneAdds
    <3> QED BY ONLY <2>1, <3>1
  <2>8. ASSUME NEW j \in 1 .. i + 1
        PROVE  Adds(About(events, incoming[j].check), About(new, incoming[j].check),
                    incoming[j], time)
    <3>1. CASE j = i + 1
      BY <2>4, <2>7, <3>1 DEF event
    <3>2. CASE j \in 1 .. i
      <4>1. About(new, incoming[j].check) = About(old, incoming[j].check)
        BY <2>3, <2>7, <3>2
      <4>2. Adds(About(events, incoming[j].check), About(old, incoming[j].check),
                 incoming[j], time)
        BY <1>5, <3>2 DEF AddsFirst, old
      <4> QED BY <4>1, <4>2
    <3> QED BY <3>1, <3>2
  <2>9. ASSUME NEW id, \A j \in 1 .. i + 1 : incoming[j].check # id
        PROVE  About(new, id) = About(events, id)
    <3>1. id # event.check /\ \A j \in 1 .. i : incoming[j].check # id
      BY <2>9, <2>1 DEF event
    <3>2. About(old, id) = About(events, id)
      BY <1>5, <3>1 DEF AddsFirst, old
    <3> QED BY <2>7, <3>1, <3>2
  <2> QED BY <2>7, <2>8, <2>9 DEF AddsFirst, new
<1>6. Claim(n, after[n])
  <2> DEFINE S == {i \in Nat : i <= n => Claim(i, after[i])}
  <2>1. 0 \in S
    BY <1>1, <1>4 DEF AfterEach
  <2>2. ASSUME NEW i \in Nat, i \in S PROVE i + 1 \in S
    <3> HIDE DEF Claim
    <3>1. i + 1 <= n => i <= n
      BY <1>2
    <3>2. i + 1 <= n => Claim(i, after[i])
      BY <2>2, <3>1
    <3>3. i + 1 <= n => Claim(i + 1, after[i + 1])
      BY <1>5, <3>2
    <3> QED BY ONLY <3>3, i \in Nat
  <2> HIDE DEF S
  <2>3. Nat \subseteq S
    BY <2>1, <2>2, Induction
  <2> HIDE DEF Claim
  <2> QED BY <1>2, <2>3 DEF S
<1>7. after[n] = AddAll(events, incoming, time) /\ after[n] \in Seq(Queued(E))
  <2>1. n \in 0 .. n
    BY <1>2
  <2> QED BY <1>1, <2>1 DEF AfterEach, n
<1> QED BY <1>6, <1>7 DEF n

-----------------------------------------------------------------------------
(* Splitting, trimming and filtering a queue *)

\* A queue consists of one that comes first and one that comes then.
Splits(events, first, then) ==
  /\ Ordered(first) /\ Ordered(then)
  /\ \A x : x \in ToSet(events) <=> x \in ToSet(first) \/ x \in ToSet(then)
  /\ \A x \in ToSet(first), y \in ToSet(then) :
       /\ x.createdAt <= y.createdAt
       /\ x.event.check = y.event.check => x.createdAt < y.createdAt

\* The first n entries and the others are the queue, and in order.
LEMMA SubSeqSplits ==
  ASSUME NEW E, NEW events \in Seq(Queued(E)), Ordered(events), NEW n \in 0 .. Len(events)
  PROVE  /\ SubSeq(events, 1, n) \in Seq(Queued(E)) /\ Len(SubSeq(events, 1, n)) = n
         /\ SubSeq(events, n + 1, Len(events)) \in Seq(Queued(E))
         /\ Len(SubSeq(events, n + 1, Len(events))) = Len(events) - n
         /\ Splits(events, SubSeq(events, 1, n), SubSeq(events, n + 1, Len(events)))
PROOF
<1> DEFINE N == Len(events)
           first == SubSeq(events, 1, n)
           then == SubSeq(events, n + 1, N)
<1>1. N \in Nat /\ DOMAIN events = 1 .. N /\ \A i \in 1 .. N : events[i] \in Queued(E)
  OBVIOUS
<1>2. /\ first \in Seq(Queued(E)) /\ Len(first) = n /\ DOMAIN first = 1 .. n
      /\ \A i \in 1 .. n : first[i] = events[i]
  OBVIOUS
<1>3. /\ then \in Seq(Queued(E)) /\ Len(then) = N - n /\ DOMAIN then = 1 .. N - n
      /\ \A i \in 1 .. N - n : then[i] = events[i + n]
  OBVIOUS
<1> HIDE DEF first, then, N
<1>4. Ordered(first)
  BY <1>1, <1>2 DEF Ordered, N
<1>5. Ordered(then)
  <2>1. ASSUME NEW i \in 1 .. N - n, NEW j \in 1 .. N - n, i < j
        PROVE  /\ events[i + n].createdAt <= events[j + n].createdAt
               /\ events[i + n].event.check = events[j + n].event.check =>
                    events[i + n].createdAt < events[j + n].createdAt
    <3>1. i + n \in DOMAIN events /\ j + n \in DOMAIN events /\ i + n < j + n
      BY <1>1, <2>1
    <3> QED BY <3>1 DEF Ordered
  <2>2. ASSUME NEW i \in DOMAIN then, NEW j \in DOMAIN then, i < j
        PROVE  /\ then[i].createdAt <= then[j].createdAt
               /\ then[i].event.check = then[j].event.check =>
                    then[i].createdAt < then[j].createdAt
    <3>1. /\ i \in 1 .. N - n /\ then[i] = events[i + n]
          /\ j \in 1 .. N - n /\ then[j] = events[j + n]
      BY ONLY <1>3, i \in DOMAIN then, j \in DOMAIN then
    <3> QED BY ONLY <2>1, <2>2, <3>1
  <2> QED BY ONLY <2>2 DEF Ordered
<1>6. ASSUME NEW x PROVE x \in ToSet(events) <=> x \in ToSet(first) \/ x \in ToSet(then)
  <2>1. x \in ToSet(events) <=> \E i \in 1 .. N : x = events[i]
    BY <1>1 DEF ToSet
  <2>2. x \in ToSet(first) <=> \E i \in 1 .. n : x = events[i]
    BY <1>2 DEF ToSet
  <2>3. x \in ToSet(then) <=> \E i \in 1 .. N - n : x = events[i + n]
    BY <1>3 DEF ToSet
  <2>4. ASSUME NEW i \in 1 .. N PROVE i \in 1 .. n \/ (i - n \in 1 .. N - n /\ i = (i - n) + n)
    BY <1>1
  <2>5. (\A i \in 1 .. n : i \in 1 .. N) /\ \A i \in 1 .. N - n : i + n \in 1 .. N
    BY <1>1 DEF N
  <2> QED BY <2>1, <2>2, <2>3, <2>4, <2>5
<1>7. ASSUME NEW x \in ToSet(first), NEW y \in ToSet(then)
      PROVE  /\ x.createdAt <= y.createdAt
             /\ x.event.check = y.event.check => x.createdAt < y.createdAt
  <2>1. PICK i \in 1 .. n : x = events[i]
    BY <1>2 DEF ToSet
  <2>2. PICK j \in 1 .. N - n : y = events[j + n]
    BY <1>3 DEF ToSet
  <2>3. i \in DOMAIN events /\ j + n \in DOMAIN events /\ i < j + n
    BY <1>1 DEF N
  <2> QED BY <2>1, <2>2, <2>3 DEF Ordered
<1> QED BY <1>2, <1>3, <1>4, <1>5, <1>6, <1>7 DEF Splits, first, then, N

\* The limit cuts off what comes first.
LEMMA TrimSplits ==
  ASSUME NEW E, NEW events \in Seq(Queued(E)), Ordered(events)
  PROVE  /\ Trim(events) \in Seq(Queued(E)) /\ Len(Trim(events)) <= MaxEvents
         /\ \E cut : Splits(events, cut, Trim(events))
PROOF
<1>1. Len(events) \in Nat /\ MaxEvents \in Nat
  BY QueueAssumption
<1>2. CASE Len(events) > MaxEvents
  <2> DEFINE n == Len(events) - MaxEvents
  <2>1. n \in 0 .. Len(events)
    BY <1>1, <1>2
  <2>2. Trim(events) = SubSeq(events, n + 1, Len(events))
    BY <1>2 DEF Trim
  <2>3. Len(events) - n = MaxEvents
    BY <1>1
  <2> HIDE DEF n
  <2> QED BY <1>1, <2>1, <2>2, <2>3, SubSeqSplits
<1>3. CASE ~(Len(events) > MaxEvents)
  <2>1. Trim(events) = events
    BY <1>3 DEF Trim
  <2>2. Splits(events, <<>>, events)
    BY DEF Splits, Ordered, ToSet
  <2> QED BY <1>1, <1>3, <2>1, <2>2
<1> QED BY <1>2, <1>3

\* The limit drops the oldest entries: whatever it drops is not newer than anything
\* it keeps.
THEOREM TrimDropsOldest ==
  ASSUME NEW E, NEW events \in Seq(Queued(E)), Ordered(events),
         NEW old \in ToSet(events) \ ToSet(Trim(events)), NEW kept \in ToSet(Trim(events))
  PROVE  old.createdAt <= kept.createdAt
PROOF
<1>1. PICK cut : Splits(events, cut, Trim(events))
  BY TrimSplits
<1> QED BY <1>1 DEF Splits

\* The entries kept of the first i.
KeptEach(kept, events, active) ==
  /\ kept[0] = <<>> /\ kept[Len(events)] = Retained(events, active)
  /\ \A i \in 1 .. Len(events) :
       kept[i] = IF events[i].event.check \in active THEN Append(kept[i - 1], events[i])
                 ELSE kept[i - 1]

\* The entries are kept or dropped one after the other.
LEMMA RetainedSteps ==
  ASSUME NEW E, NEW events \in Seq(Queued(E)), NEW active
  PROVE  \E kept \in [0 .. Len(events) -> Seq(Queued(E))] : KeptEach(kept, events, active)
PROOF
<1> DEFINE n == Len(events)
           X == Seq(Queued(E))
           Turn(q, i) == IF events[i].event.check \in active THEN Append(q, events[i]) ELSE q
           Step(f) == [i \in 0 .. n |-> IF i = 0 THEN <<>> ELSE Turn(f[i - 1], i)]
           kept == CHOOSE f : f = Step(f)
           G == [i \in 1 .. n |-> [q \in X |-> Turn(q, i)]]
<1>1. n \in Nat /\ \A i \in 1 .. n : events[i] \in Queued(E)
  OBVIOUS
<1>2. \A i \in 1 .. n, q \in X : Turn(q, i) \in X
  BY <1>1
<1>3. G \in [1 .. n -> [X -> X]]
  BY <1>2
<1>4. <<>> \in X
  OBVIOUS
<1>a. Retained(events, active) = kept[n]
  BY DEF Retained
<1> HIDE DEF X, n, Turn
<1>5. PICK f \in [0 .. n -> X] : Runs(f, <<>>, n, G)
  <2> HIDE DEF G
  <2>1. n \in Nat
    BY <1>1
  <2> QED BY ONLY <1>3, <1>4, <2>1, Recursion
<1>6. \A i \in 1 .. n : f[i] = Turn(f[i - 1], i)
  <2> TAKE i \in 1 .. n
  <2>1. f[i - 1] \in X
    BY <1>1
  <2>2. G[i] = [q \in X |-> Turn(q, i)]
    OBVIOUS
  <2>3. f[i] = G[i][f[i - 1]]
    BY <1>5 DEF Runs
  <2> HIDE DEF G
  <2> QED BY ONLY <2>1, <2>2, <2>3
<1>7. f = Step(f)
  <2>1. ASSUME NEW i \in 0 .. n
        PROVE  f[i] = IF i = 0 THEN <<>> ELSE Turn(f[i - 1], i)
    BY <1>1, <1>5, <1>6 DEF Runs
  <2> QED BY <1>5, <2>1
<1>8. kept = Step(kept)
  BY <1>7
<1>9. DOMAIN kept = 0 .. n /\ kept[0] = <<>> /\ \A i \in 1 .. n : kept[i] = Turn(kept[i - 1], i)
  <2> HIDE DEF kept
  <2> QED BY <1>1, <1>8
<1> HIDE DEF kept
<1>10. \A i \in 0 .. n : kept[i] \in X
  <2> DEFINE S == {i \in Nat : i <= n => kept[i] \in X}
  <2>1. 0 \in S
    BY <1>4, <1>9
  <2>2. ASSUME NEW i \in Nat, i \in S PROVE i + 1 \in S
    <3> SUFFICES ASSUME i + 1 <= n PROVE kept[i + 1] \in X
      OBVIOUS
    <3>1. kept[i] \in X /\ i + 1 \in 1 .. n /\ (i + 1) - 1 = i
      BY <1>1, <2>2
    <3> QED BY <1>2, <1>9, <3>1
  <2> HIDE DEF S
  <2>3. Nat \subseteq S
    BY <2>1, <2>2, Induction
  <2> QED BY <1>1, <2>3 DEF S
<1>11. kept \in [0 .. n -> X]
  <2>1. kept = [i \in 0 .. n |-> kept[i]]
    BY <1>8, <1>9
  <2> QED BY <1>10, <2>1
<1>12. KeptEach(kept, events, active)
  BY <1>9, <1>a DEF KeptEach, n, Turn
<1> QED BY <1>11, <1>12 DEF n, X

\* RetainChecks keeps the entries about the checks that were run, in their order.
LEMMA RetainedKeeps ==
  ASSUME NEW E, NEW events \in Seq(Queued(E)), NEW active, Ordered(events)
  PROVE  /\ Retained(events, active) \in Seq(Queued(E))
         /\ Len(Retained(events, active)) <= Len(events)
         /\ Ordered(Retained(events, active))
         /\ \A x : x \in ToSet(Retained(events, active)) <=>
                     x \in ToSet(events) /\ x.event.check \in active
PROOF
<1> DEFINE n == Len(events)
           Claim(i, q) ==
             /\ Len(q) <= i /\ Ordered(q)
             /\ \A x : x \in ToSet(q) <=> \E j \in 1 .. i : x = events[j] /\ x.event.check \in active
<1>1. PICK kept \in [0 .. n -> Seq(Queued(E))] : KeptEach(kept, events, active)
  BY RetainedSteps
<1>2. n \in Nat /\ DOMAIN events = 1 .. n /\ \A i \in 1 .. n : events[i] \in Queued(E)
  OBVIOUS
<1>3. Claim(0, <<>>)
  BY DEF Ordered, ToSet
<1> HIDE DEF n
<1>4. ASSUME NEW i \in Nat, i + 1 <= n, Claim(i, kept[i]) PROVE Claim(i + 1, kept[i + 1])
  <2> DEFINE old == kept[i]
             entry == events[i + 1]
  <2>1. i + 1 \in 1 .. n /\ old \in Seq(Queued(E)) /\ entry \in Queued(E) /\ Len(old) \in Nat
    BY <1>1, <1>2, <1>4
  <2>2. kept[i + 1] = IF entry.event.check \in active THEN Append(old, entry) ELSE old
    BY <1>1, <2>1 DEF KeptEach, n
  <2>3. \A j \in 1 .. i + 1 : j \in 1 .. i \/ j = i + 1
    OBVIOUS
  <2>4. ASSUME entry.event.check \in active PROVE Claim(i + 1, Append(old, entry))
    <3>1. \A x \in ToSet(old) :
            /\ x.createdAt <= entry.createdAt
            /\ x.event.check = entry.event.check => x.createdAt < entry.createdAt
      <4>1. \A j \in 1 .. i : j \in DOMAIN events /\ j < i + 1 /\ i + 1 \in DOMAIN events
        BY <1>2, <2>1
      <4> QED BY <1>4, <4>1 DEF Ordered
    <3>2. UpTo(old, entry.createdAt)
      BY <3>1 DEF UpTo, ToSet
    <3>3. \A x \in About(old, entry.event.check) : x.createdAt < entry.createdAt
      BY <3>1 DEF About
    <3>4. Ordered(old)
      BY <1>4
    <3> HIDE DEF old, entry
    <3>5. /\ Ordered(Append(old, entry))
          /\ ToSet(Append(old, entry)) = ToSet(old) \cup {entry}
      BY <2>1, <3>2, <3>3, <3>4, AppendKeepsOrder
    <3>6. Len(Append(old, entry)) <= i + 1
      BY <1>4, <2>1 DEF old
    <3>7. ASSUME NEW x
          PROVE  x \in ToSet(Append(old, entry)) <=>
                   \E j \in 1 .. i + 1 : x = events[j] /\ x.event.check \in active
      <4>1. x \in ToSet(old) <=> \E j \in 1 .. i : x = events[j] /\ x.event.check \in active
        BY <1>4 DEF old
      <4> QED BY <2>1, <2>3, <2>4, <3>5, <4>1 DEF entry
    <3> QED BY <3>5, <3>6, <3>7
  <2>5. ASSUME entry.event.check \notin active PROVE Claim(i + 1, old)
    BY <1>4, <2>1, <2>3, <2>5
  <2> HIDE DEF Claim
  <2> QED BY <2>2, <2>4, <2>5
<1>5. Claim(n, kept[n])
  <2> DEFINE S == {i \in Nat : i <= n => Claim(i, kept[i])}
  <2>1. 0 \in S
    <3> HIDE DEF Claim
    <3> QED BY <1>1, <1>3 DEF KeptEach
  <2>2. ASSUME NEW i \in Nat, i \in S PROVE i + 1 \in S
    <3> HIDE DEF Claim
    <3>1. i + 1 <= n => Claim(i, kept[i])
      BY <1>2, <2>2
    <3> QED BY <1>4, <3>1
  <2> HIDE DEF S
  <2>3. Nat \subseteq S
    BY <2>1, <2>2, Induction
  <2> HIDE DEF Claim
  <2> QED BY <1>2, <2>3 DEF S
<1>6. kept[n] = Retained(events, active) /\ kept[n] \in Seq(Queued(E))
  BY <1>1, <1>2 DEF KeptEach, n
<1>7. \A x : x \in ToSet(events) <=> \E j \in 1 .. n : x = events[j]
  BY <1>2 DEF ToSet
<1> QED BY <1>5, <1>6, <1>7 DEF n
-----------------------------------------------------------------------------
(* The delay after a failure *)

\* The delays the loop of MarkFailure goes through.
Delays(delay, n) ==
  /\ \A i \in 0 .. n : delay[i] \in Nat \ {0}
  /\ delay[0] = 1
  /\ \A i \in 1 .. n : delay[i] = IF delay[i - 1] < MaxBackoff
                                  THEN 2 * delay[i - 1] ELSE delay[i - 1]

Limited(d) == IF d > MaxBackoff THEN MaxBackoff ELSE d

\* Backoff limits the last of them.
LEMMA BackoffOfDelays ==
  ASSUME NEW attempts \in Nat \ {0}
  PROVE  \E delay : Delays(delay, attempts - 1) /\ Backoff(attempts) = Limited(delay[attempts - 1])
PROOF
<1> DEFINE n == attempts - 1
           X == Nat \ {0}
           Turn(d) == IF d < MaxBackoff THEN 2 * d ELSE d
           Step(f) == [i \in 0 .. n |-> IF i = 0 THEN 1 ELSE Turn(f[i - 1])]
           delay == CHOOSE f : f = Step(f)
           G == [i \in 1 .. n |-> [d \in X |-> Turn(d)]]
<1>1. n \in Nat /\ 1 \in X /\ MaxBackoff \in Nat \ {0}
  BY QueueAssumption
<1>2. \A d \in X : Turn(d) \in X
  BY <1>1
<1>3. G \in [1 .. n -> [X -> X]]
  BY <1>2
<1>a. Backoff(attempts) = Limited(delay[n])
  BY DEF Backoff, Limited
<1> HIDE DEF X, n, Turn
<1>4. PICK f \in [0 .. n -> X] : Runs(f, 1, n, G)
  <2> HIDE DEF G
  <2> QED BY ONLY <1>1, <1>3, Recursion
<1>5. \A i \in 1 .. n : f[i] = Turn(f[i - 1])
  <2> TAKE i \in 1 .. n
  <2>1. i - 1 \in 0 .. n /\ f[i - 1] \in X
    BY <1>1
  <2>2. G[i] = [d \in X |-> Turn(d)]
    OBVIOUS
  <2>3. f[i] = G[i][f[i - 1]]
    BY <1>4 DEF Runs
  <2> QED BY <2>1, <2>2, <2>3
<1>6. f = Step(f)
  <2>1. ASSUME NEW i \in 0 .. n PROVE f[i] = IF i = 0 THEN 1 ELSE Turn(f[i - 1])
    BY <1>1, <1>4, <1>5 DEF Runs
  <2> QED BY <1>4, <2>1
<1>7. delay = Step(delay)
  BY <1>6
<1>8. delay[0] = 1 /\ \A i \in 1 .. n : delay[i] = Turn(delay[i - 1])
  <2> HIDE DEF delay
  <2> QED BY <1>1, <1>7
<1> HIDE DEF delay
<1>9. \A i \in 0 .. n : delay[i] \in X
  <2> DEFINE S == {i \in Nat : i <= n => delay[i] \in X}
  <2>1. 0 \in S
    BY <1>1, <1>8
  <2>2. ASSUME NEW i \in Nat, i \in S PROVE i + 1 \in S
    <3> SUFFICES ASSUME i + 1 <= n PROVE delay[i + 1] \in X
      OBVIOUS
    <3>1. delay[i] \in X /\ i + 1 \in 1 .. n /\ (i + 1) - 1 = i
      BY <1>1, <2>2
    <3> QED BY <1>2, <1>8, <3>1
  <2> HIDE DEF S
  <2>3. Nat \subseteq S
    BY <2>1, <2>2, Induction
  <2> QED BY <1>1, <2>3 DEF S
<1>10. Delays(delay, n)
  BY <1>8, <1>9 DEF Delays, X, Turn
<1> QED BY <1>10, <1>a DEF n

\* MarkFailure doubles the delay once per failure; the loop and the limit keep it
\* between 5 minutes and MaxBackoff, after any number of failures.
THEOREM BackoffIsLimited ==
  ASSUME NEW attempts \in Nat \ {0}
  PROVE  Backoff(attempts) \in 1 .. MaxBackoff
PROOF
<1>1. PICK delay : Delays(delay, attempts - 1) /\ Backoff(attempts) = Limited(delay[attempts - 1])
  BY BackoffOfDelays
<1>2. delay[attempts - 1] \in Nat \ {0}
  BY <1>1 DEF Delays
<1> QED BY <1>1, <1>2, QueueAssumption DEF Limited

\* The first delay is 5 minutes, every other one twice the one before, up to the
\* limit.
THEOREM BackoffDoubles ==
  /\ Backoff(1) = 1
  /\ \A attempts \in Nat \ {0} : Backoff(attempts + 1) = Limited(2 * Backoff(attempts))
PROOF
<1>1. Backoff(1) = 1
  <2>1. PICK delay : Delays(delay, 1 - 1) /\ Backoff(1) = Limited(delay[1 - 1])
    BY BackoffOfDelays
  <2>2. delay[1 - 1] = 1
    BY <2>1 DEF Delays
  <2> QED BY <2>1, <2>2, QueueAssumption DEF Limited
<1>2. ASSUME NEW attempts \in Nat \ {0}
      PROVE  Backoff(attempts + 1) = Limited(2 * Backoff(attempts))
  <2> DEFINE n == attempts - 1
  <2>1. PICK short : Delays(short, n) /\ Backoff(attempts) = Limited(short[n])
    BY BackoffOfDelays
  <2>2. PICK long : Delays(long, n + 1) /\ Backoff(attempts + 1) = Limited(long[n + 1])
    <3>1. attempts + 1 \in Nat \ {0} /\ (attempts + 1) - 1 = n + 1
      OBVIOUS
    <3> QED BY <3>1, BackoffOfDelays
  <2>3. n \in Nat /\ MaxBackoff \in Nat \ {0}
    BY QueueAssumption
  <2> HIDE DEF n
  <2> DEFINE S == {i \in Nat : i <= n => short[i] = long[i]}
  <2>4. 0 \in S
    BY <2>1, <2>2 DEF Delays
  <2>5. ASSUME NEW i \in Nat, i \in S PROVE i + 1 \in S
    <3> SUFFICES ASSUME i + 1 <= n PROVE short[i + 1] = long[i + 1]
      OBVIOUS
    <3>1. i + 1 \in 1 .. n /\ i + 1 \in 1 .. n + 1 /\ (i + 1) - 1 = i /\ short[i] = long[i]
      BY <2>3, <2>5
    <3> QED BY <2>1, <2>2, <3>1 DEF Delays
  <2> HIDE DEF S
  <2>6. Nat \subseteq S
    BY <2>4, <2>5, Induction
  <2>7. short[n] = long[n]
    BY <2>3, <2>6 DEF S
  <2>8. short[n] \in Nat \ {0} /\ n + 1 \in 1 .. n + 1 /\ (n + 1) - 1 = n
    BY <2>1, <2>3 DEF Delays
  <2>9. long[n + 1] = IF short[n] < MaxBackoff THEN 2 * short[n] ELSE short[n]
    BY <2>2, <2>7, <2>8 DEF Delays
  <2> QED BY <2>1, <2>2, <2>3, <2>8, <2>9 DEF Limited
<1> QED BY <1>1, <1>2
================================================================================
