-------------------------- MODULE OrderBookV2Proofs --------------------------
(*****************************************************************************)
(* Proofs about OrderBookV2: type correctness, that a gap blinds every book, *)
(* and that what a served book contains is all of its market up to the       *)
(* baseline, but for what the manager threw away knowing it.                 *)
(*                                                                           *)
(* The handlers are operators on managers, so their lemmas are about any     *)
(* sound manager m, and not about the variable.  Two parameters stand for    *)
(* how far a handler has come: h, a history that begins as the log does, and *)
(* n, how many of its messages m has dealt with.  In a state these are log   *)
(* and Len(log); within the step that emits a message, log' and Len(log).    *)
(*****************************************************************************)
EXTENDS OrderBookV2, Sums, SequenceTheorems, TLAPS

-----------------------------------------------------------------------------
(* Tables, maxima and sorting                                              *)

\* f is the table over 0 .. n of the recursion that begins with first, and whose i-th step
\* is the function step[i].
Recursion(f, n, V, first, step) ==
  f \in [0 .. n -> V] /\ f[0] = first /\ \A i \in 1 .. n : f[i] = step[i][f[i - 1]]

\* It exists.
LEMMA RecursionExists ==
  ASSUME NEW n \in Nat, NEW V, NEW first \in V, NEW step \in [1 .. n -> [V -> V]]
  PROVE  \E f : Recursion(f, n, V, first, step)
<1> DEFINE Table(k) == {f \in [0 .. k -> V] :
                          f[0] = first /\ \A i \in 1 .. k : f[i] = step[i][f[i - 1]]}
           P == {k \in 0 .. n : Table(k) # {}}
<1>1. 0 \in P
  <2> DEFINE f == [i \in 0 .. 0 |-> first]
  <2>1. f \in Table(0)
    OBVIOUS
  <2> QED
    BY <2>1
<1>2. ASSUME NEW k \in 1 .. n, k - 1 \in P
      PROVE  k \in P
  <2>1. PICK f \in Table(k - 1) : TRUE
    BY <1>2
  <2> DEFINE g == [i \in 0 .. k |-> IF i = k THEN step[k][f[k - 1]] ELSE f[i]]
  <2>2. /\ f \in [0 .. k - 1 -> V] /\ f[0] = first
        /\ \A i \in 1 .. k - 1 : f[i] = step[i][f[i - 1]]
    OBVIOUS
  <2> HIDE DEF Table
  <2>3. f[k - 1] \in V /\ step[k] \in [V -> V]
    BY <2>2
  <2>4. g \in [0 .. k -> V] /\ g[0] = first
    BY <2>2, <2>3
  <2>5. ASSUME NEW i \in 1 .. k PROVE g[i] = step[i][g[i - 1]]
    <3>1. CASE i = k
      BY <3>1
    <3>2. CASE i # k
      <4>1. g[i] = f[i] /\ i \in 1 .. k - 1 /\ g[i - 1] = f[i - 1]
        BY <3>2
      <4> QED
        BY <2>2, <4>1
    <3> QED
      BY <3>1, <3>2
  <2>6. g \in Table(k)
    <3> HIDE DEF g
    <3> QED
      BY <2>4, <2>5 DEF Table
  <2> QED
    BY <2>6
<1> HIDE DEF Table
<1>3. n \in P
  <2> HIDE DEF P
  <2> QED
    BY <1>1, <1>2, Climb
<1>4. PICK f \in Table(n) : TRUE
  BY <1>3
<1>5. Recursion(f, n, V, first, step)
  BY DEF Recursion, Table
<1> QED
  BY <1>5

\* Highest of a finite set of numbers is its maximum,
LEMMA HighestOf ==
  ASSUME NEW S, IsFiniteSet(S), S # {}, S \subseteq Int
  PROVE  Highest(S) \in S /\ \A x \in S : x <= Highest(S)
<1>1. \E x \in S : \A y \in S : y <= x
  BY MaxOfSet
<1> QED
  BY <1>1 DEF Highest

\* and of two numbers the greater.
LEMMA HighestOfTwo ==
  ASSUME NEW a \in Int, NEW b \in Int
  PROVE  Highest({a, b}) = IF a <= b THEN b ELSE a
<1>1. IsFiniteSet({a, b}) /\ {a, b} # {} /\ {a, b} \subseteq Int
  BY SmallSets
<1> QED
  BY <1>1, HighestOf

\* An insertion behind the first k elements, and behind all of them.
LEMMA InsertAfter ==
  ASSUME NEW S, NEW s \in Seq(S), NEW e \in S, NEW k \in 0 .. Len(s)
  PROVE  /\ InsertAt(s, k + 1, e) \in Seq(S) /\ Len(InsertAt(s, k + 1, e)) = Len(s) + 1
         /\ k = Len(s) => InsertAt(s, k + 1, e) = Append(s, e)
<1>1. PICK i \in Nat : i = k + 1
  OBVIOUS
<1>2. InsertAt(s, i, e) = SubSeq(s, 1, i - 1) \o <<e>> \o SubSeq(s, i, Len(s))
  BY DEF InsertAt
<1>3. i - 1 = k
  BY <1>1
<1>4. PICK low : low = SubSeq(s, 1, k)
  OBVIOUS
<1>5. PICK high : high = SubSeq(s, k + 1, Len(s))
  OBVIOUS
<1>6. InsertAt(s, k + 1, e) = (low \o <<e>>) \o high
  BY <1>1, <1>2, <1>3, <1>4, <1>5
<1>7. low \in Seq(S) /\ Len(low) = k /\ high \in Seq(S) /\ Len(high) = Len(s) - k
  BY <1>4, <1>5
<1>8. low \o <<e>> \in Seq(S) /\ Len(low \o <<e>>) = k + 1
  BY <1>7
<1>9. PICK front : front = low \o <<e>>
  OBVIOUS
<1>10. front \in Seq(S) /\ Len(front) = k + 1
  BY <1>8, <1>9
<1>12. front \o high \in Seq(S) /\ Len(front \o high) = Len(front) + Len(high)
  BY <1>7, <1>10, ConcatProperties
<1>13. Len(front) + Len(high) = Len(s) + 1
  BY <1>7, <1>10
<1>11. ASSUME k = Len(s) PROVE InsertAt(s, k + 1, e) = Append(s, e)
  <2>1. low = s
    BY <1>4, <1>11, SubSeqFull
  <2>2. high = <<>>
    BY <1>5, <1>11, SubSeqEmpty
  <2>3. front \o high = front
    BY <1>8, <1>9, <2>2, ConcatEmptySeq
  <2>4. front = Append(s, e)
    BY <1>9, <2>1
  <2> QED
    BY <1>6, <1>9, <2>3, <2>4
<1> QED
  BY <1>6, <1>9, <1>11, <1>12, <1>13

\* A message is put in its place behind what precedes it: at the end, if that is all.
LEMMA PlaceInserts ==
  ASSUME NEW S, NEW s \in Seq(S), NEW msg \in S
  PROVE  /\ Place(s, msg) \in Seq(S) /\ Len(Place(s, msg)) = Len(s) + 1
         /\ (\A i \in 1 .. Len(s) : s[i].seq <= msg.seq) => Place(s, msg) = Append(s, msg)
<1>1. PICK before : before = {i \in DOMAIN s : s[i].seq <= msg.seq}
  OBVIOUS
<1>2. PICK k : k = Cardinality(before)
  OBVIOUS
<1>3. DOMAIN s = 1 .. Len(s) /\ Len(s) \in Nat /\ before \subseteq 1 .. Len(s)
  BY <1>1, LenProperties
<1>4. IsFiniteSet(1 .. Len(s)) /\ Cardinality(1 .. Len(s)) = Len(s)
  <2>1. 1 \in Int /\ Len(s) \in Int /\ (1 > Len(s) <=> Len(s) = 0) /\ Len(s) - 1 + 1 = Len(s)
    BY <1>3
  <2> QED
    BY <2>1, FS_Interval
<1>5. k \in 0 .. Len(s)
  <2>1. PICK all : all = 1 .. Len(s)
    OBVIOUS
  <2>2. IsFiniteSet(before) /\ Cardinality(before) <= Cardinality(all)
    BY <1>3, <1>4, <2>1, FS_Subset
  <2>3. Cardinality(before) \in Nat
    BY <2>2, FS_CardinalityType
  <2> QED
    BY <1>2, <1>3, <1>4, <2>1, <2>2, <2>3
<1>6. (\A i \in 1 .. Len(s) : s[i].seq <= msg.seq) => k = Len(s)
  BY <1>1, <1>2, <1>3, <1>4
<1>7. Place(s, msg) = InsertAt(s, k + 1, msg)
  BY <1>1, <1>2 DEF Place
<1>8. /\ InsertAt(s, k + 1, msg) \in Seq(S) /\ Len(InsertAt(s, k + 1, msg)) = Len(s) + 1
      /\ k = Len(s) => InsertAt(s, k + 1, msg) = Append(s, msg)
  BY <1>5, InsertAfter
<1> QED
  BY <1>6, <1>7, <1>8

\* The table that InOrder makes of a buffer: its first n messages, sorted.
Sorts(table, buffer) ==
  table = [n \in 0 .. Len(buffer) |-> IF n = 0 THEN <<>> ELSE Place(table[n - 1], buffer[n])]

\* InOrder reads the last row of that table.
LEMMA InOrderSorts ==
  ASSUME NEW S, NEW buffer \in Seq(S)
  PROVE  \E table : Sorts(table, buffer) /\ InOrder(buffer) = table[Len(buffer)]
<1>1. PICK n \in Nat : n = Len(buffer) /\ \A i \in 1 .. n : buffer[i] \in S
  BY LenProperties, ElementOfSeq
<1>2. PICK V : V = Seq(S)
  OBVIOUS
<1> DEFINE step == [i \in 1 .. n |-> [s \in V |-> Place(s, buffer[i])]]
<1>3. step \in [1 .. n -> [V -> V]] /\ <<>> \in V
  BY <1>1, <1>2, PlaceInserts, EmptySeq
<1>4. PICK f \in [0 .. n -> V] : f[0] = <<>> /\ \A i \in 1 .. n : f[i] = step[i][f[i - 1]]
  <2>1. PICK first : first = <<>>
    OBVIOUS
  <2> HIDE DEF step
  <2>2. first \in V /\ step \in [1 .. n -> [V -> V]]
    BY <1>3, <2>1
  <2>3. \E f : Recursion(f, n, V, first, step)
    BY <2>2, RecursionExists
  <2> QED
    BY <2>1, <2>3 DEF Recursion
<1>5. \A i \in 1 .. n : f[i] = Place(f[i - 1], buffer[i])
  BY <1>4
<1>6. Sorts(f, buffer)
  <2>1. \A i \in 0 .. n : f[i] = IF i = 0 THEN <<>> ELSE Place(f[i - 1], buffer[i])
    BY <1>4, <1>5
  <2>2. f = [i \in 0 .. n |-> f[i]]
    OBVIOUS
  <2> QED
    BY <1>1, <2>1, <2>2 DEF Sorts
<1> DEFINE c == CHOOSE g : Sorts(g, buffer)
<1>7. Sorts(c, buffer)
  BY <1>6
<1>8. InOrder(buffer) = c[Len(buffer)]
  BY DEF InOrder, Sorts
<1> QED
  BY <1>7, <1>8

\* Sorting keeps the elements' type and their count.
LEMMA InOrderType ==
  ASSUME NEW S, NEW buffer \in Seq(S)
  PROVE  InOrder(buffer) \in Seq(S) /\ Len(InOrder(buffer)) = Len(buffer)
<1>1. PICK table : Sorts(table, buffer) /\ InOrder(buffer) = table[Len(buffer)]
  BY InOrderSorts
<1>2. PICK n \in Nat : n = Len(buffer) /\ \A i \in 1 .. n : buffer[i] \in S
  BY LenProperties, ElementOfSeq
<1>3. table[0] = <<>> /\ \A i \in 1 .. n : table[i] = Place(table[i - 1], buffer[i])
  BY <1>1, <1>2 DEF Sorts
<1> DEFINE P == {i \in 0 .. n : table[i] \in Seq(S) /\ Len(table[i]) = i}
<1>4. 0 \in P
  <2>1. table[0] \in Seq(S) /\ Len(table[0]) = 0
    BY <1>3, EmptySeq
  <2> QED
    BY <2>1
<1>5. ASSUME NEW i \in 1 .. n, i - 1 \in P PROVE i \in P
  <2>1. PICK s \in Seq(S) : s = table[i - 1] /\ Len(s) = i - 1
    BY <1>5
  <2>2. Place(s, buffer[i]) \in Seq(S) /\ Len(Place(s, buffer[i])) = Len(s) + 1
    BY <1>2, PlaceInserts
  <2> QED
    BY <1>3, <2>1, <2>2
<1>6. n \in P
  <2> HIDE DEF P
  <2> QED
    BY <1>4, <1>5, Climb
<1> QED
  BY <1>1, <1>2, <1>6

\* The numbers grow from one message to the next.
Ascending(s) == \A i, j \in 1 .. Len(s) : i < j => s[i].seq < s[j].seq

\* A buffer in the order of its numbers is sorted.
LEMMA InOrderOfAscending ==
  ASSUME NEW buffer \in Seq(Messages), Ascending(buffer)
  PROVE  InOrder(buffer) = buffer
<1>1. PICK table : Sorts(table, buffer) /\ InOrder(buffer) = table[Len(buffer)]
  BY InOrderSorts
<1>2. PICK n \in Nat : n = Len(buffer) /\ \A i \in 1 .. n : buffer[i] \in Messages
  BY LenProperties, ElementOfSeq
<1>3. table[0] = <<>> /\ \A i \in 1 .. n : table[i] = Place(table[i - 1], buffer[i])
  BY <1>1, <1>2 DEF Sorts
<1>4. \A i \in 1 .. n : buffer[i].seq \in Int
  BY <1>2, BoundAssumption DEF Messages, Numbers
<1>5. \A i, j \in 1 .. n : j < i => buffer[j].seq <= buffer[i].seq
  <2>1. \A i, j \in 1 .. n : j < i => buffer[j].seq < buffer[i].seq
    BY <1>2 DEF Ascending
  <2> QED
    BY <1>4, <2>1
<1> DEFINE P == {i \in 0 .. n : /\ table[i] \in Seq(Messages) /\ Len(table[i]) = i
                                /\ \A j \in 1 .. i : table[i][j] = buffer[j]}
<1>6. 0 \in P
  <2>1. table[0] \in Seq(Messages) /\ Len(table[0]) = 0
    BY <1>3, EmptySeq
  <2> QED
    BY <2>1
<1>7. ASSUME NEW i \in 1 .. n, i - 1 \in P PROVE i \in P
  <2>1. PICK s \in Seq(Messages) : /\ s = table[i - 1] /\ Len(s) = i - 1
                                   /\ \A j \in 1 .. i - 1 : s[j] = buffer[j]
    BY <1>7
  <2>2. buffer[i] \in Messages
    BY <1>2
  <2>3. \A j \in 1 .. Len(s) : s[j].seq <= buffer[i].seq
    <3>1. \A j \in 1 .. i - 1 : j \in 1 .. n /\ j < i
      OBVIOUS
    <3> QED
      BY <1>5, <2>1, <3>1
  <2>4. table[i] = Append(s, buffer[i])
    BY <1>3, <2>1, <2>2, <2>3, PlaceInserts
  <2>5. Append(s, buffer[i]) \in Seq(Messages) /\ Len(Append(s, buffer[i])) = i
    BY <2>1, <2>2, AppendProperties
  <2>6. \A j \in 1 .. i : Append(s, buffer[i])[j] = buffer[j]
    BY <2>1, <2>2, AppendProperties
  <2>7. /\ table[i] \in Seq(Messages) /\ Len(table[i]) = i
        /\ \A j \in 1 .. i : table[i][j] = buffer[j]
    BY <2>4, <2>5, <2>6
  <2> QED
    BY <2>7
<1>8. n \in P
  <2> HIDE DEF P
  <2> QED
    BY <1>6, <1>7, Climb
<1> QED
  BY <1>1, <1>2, <1>8, SeqEqual

-----------------------------------------------------------------------------
(* Books: what each operation leaves of a sound manager                    *)

\* Managers whose queues are bounded, whose books are of known markets, and whose served books
\* queue nothing.
SoundManagers ==
  {m \in Managers : \A t \in Tickers : /\ Len(m.bootstrap[t]) <= BootCap
                                       /\ m.books[t] # "none" => t \in m.tickers
                                       /\ Served(m, t) => m.bootstrap[t] = <<>>}

\* What makes a manager sound are its books, its queues and its markets.
LEMMA AsSound ==
  ASSUME NEW m \in SoundManagers, NEW x \in Managers, x.books = m.books,
         x.bootstrap = m.bootstrap, x.tickers = m.tickers
  PROVE  x \in SoundManagers
  BY DEF SoundManagers, Served

\* Marking books stale leaves a sound manager in which none of them is served.
LEMMA MarkStaleSound ==
  ASSUME NEW m \in SoundManagers, NEW S
  PROVE  /\ MarkStale(m, S) \in SoundManagers
         /\ \A t \in Tickers : Served(MarkStale(m, S), t) <=> Served(m, t) /\ t \notin S
<1>1. MarkStale(m, S) \in Managers
  BY DEF SoundManagers, Managers, MarkStale
<1> QED
  BY <1>1 DEF SoundManagers, Managers, MarkStale, Served

\* The baseline only goes up.
LEMMA AdvanceSound ==
  ASSUME NEW m \in SoundManagers, NEW k \in Numbers
  PROVE  /\ Advance(m, k) \in SoundManagers
         /\ Advance(m, k).lastSeq = IF m.lastSeq <= k THEN k ELSE m.lastSeq
<1>1. Highest({m.lastSeq, k}) = IF m.lastSeq <= k THEN k ELSE m.lastSeq
  <2>1. m.lastSeq \in Int /\ k \in Int
    BY BoundAssumption DEF SoundManagers, Managers, Numbers, NoSeq
  <2> QED
    BY <2>1, HighestOfTwo
<1>2. Highest({m.lastSeq, k}) \in Numbers \cup {NoSeq}
  BY <1>1 DEF SoundManagers, Managers
<1>3. {j \in 1 .. k - 1 : log[j].lost} \subseteq Numbers
  BY BoundAssumption DEF Numbers
<1>4. Advance(m, k) \in Managers
  BY <1>2, <1>3 DEF SoundManagers, Managers, Advance
<1> QED
  BY <1>1, <1>4 DEF SoundManagers, Managers, Advance, Served

\* What a book skips are numbers of the history.
LEMMA SkippedType ==
  ASSUME NEW t, NEW from \in Numbers, NEW to \in Numbers
  PROVE  Skipped(t, from, to) \subseteq Numbers
  BY BoundAssumption DEF Skipped, Numbers

\* So is what a snapshot does not show.
LEMMA UnshownType ==
  ASSUME NEW t, NEW n \in Numbers
  PROVE  Unshown(t, n) \subseteq Numbers
  BY BoundAssumption DEF Unshown, Numbers

\* What a handler of the manager may report, and the manager it leaves.
Outcomes == [did : {"queued", "applied", "desync", "nothing", "begun", "started", "raised"},
             m : SoundManagers]

\* Each outcome of a delta is a sound manager.
LEMMA ApplyDeltaSound ==
  ASSUME NEW m \in SoundManagers, NEW msg \in Messages
  PROVE  ApplyDelta(m, msg) \subseteq Outcomes
<1> DEFINE t == msg.ticker
           queue == Append(m.bootstrap[t], msg)
           lacks == m.missing[t] \cup Skipped(t, m.seq[t], msg.seq)
           queued == [m EXCEPT !.bootstrap[t] = IF Len(queue) > BootCap THEN Tail(queue) ELSE queue]
           applied == [m EXCEPT !.seq[t] = msg.seq, !.missing[t] = lacks]
<1>1. t \in Tickers /\ msg.seq \in Numbers /\ m.bootstrap[t] \in Seq(Messages) /\ m \in Managers
  BY DEF Messages, SoundManagers, Managers
<1>2. ASSUME ~Served(m, t) PROVE queued \in SoundManagers
  <2>1. PICK q : q = queue
    OBVIOUS
  <2>2. q \in Seq(Messages) /\ Len(q) <= BootCap + 1 /\ q # <<>>
    <3>1. PICK b \in Seq(Messages) : b = m.bootstrap[t] /\ Len(b) <= BootCap
      BY <1>1 DEF SoundManagers
    <3>2. q \in Seq(Messages) /\ q # <<>> /\ Len(q) = Len(b) + 1
      BY <2>1, <3>1, AppendProperties
    <3>3. Len(b) \in Nat /\ BootCap \in Nat
      BY LenProperties, BoundAssumption
    <3> QED
      BY <3>1, <3>2, <3>3
  <2>3. Tail(q) \in Seq(Messages) /\ Len(Tail(q)) = Len(q) - 1
    BY <2>2, HeadTailProperties
  <2>4. PICK r : r = IF Len(q) > BootCap THEN Tail(q) ELSE q
    OBVIOUS
  <2>5. r \in Seq(Messages) /\ Len(r) <= BootCap
    BY <2>2, <2>3, <2>4, LenProperties, BoundAssumption
  <2>6. queued = [m EXCEPT !.bootstrap[t] = r]
    BY <2>1, <2>4
  <2> HIDE DEF queued, t
  <2>7. queued \in Managers
    BY <1>1, <2>5, <2>6 DEF Managers
  <2> QED
    BY <1>1, <1>2, <2>5, <2>6, <2>7 DEF SoundManagers, Managers, Served
<1>3. applied \in SoundManagers
  <2>1. lacks \subseteq Numbers
    BY <1>1, SkippedType DEF Managers
  <2> HIDE DEF lacks, t
  <2>2. applied \in Managers
    BY <1>1, <2>1 DEF Managers
  <2> QED
    BY <1>1, <2>2 DEF SoundManagers, Managers, Served
<1> HIDE DEF queued, applied
<1> QED
  BY <1>2, <1>3 DEF ApplyDelta, Outcomes, When, queued, applied

\* So is what a drained delta leaves,
LEMMA DrainDeltaSound ==
  ASSUME NEW m \in SoundManagers, NEW msg \in Messages
  PROVE  DrainDelta(m, msg) \subseteq SoundManagers
  BY ApplyDeltaSound, MarkStaleSound DEF DrainDelta, Outcomes

\* and a book just made from a snapshot.
LEMMA FreshSound ==
  ASSUME NEW m \in SoundManagers, NEW msg, msg.seq \in Numbers, msg.ticker \in m.tickers
  PROVE  Fresh(m, msg) \in SoundManagers
<1>1. msg.ticker \in Tickers /\ m \in Managers
  BY DEF SoundManagers, Managers
<1>2. <<>> \in Seq(Messages) /\ Len(<<>>) = 0
  BY EmptySeq
<1>3. Fresh(m, msg) \in Managers
  <2>1. Unshown(msg.ticker, msg.seq) \subseteq Numbers
    BY UnshownType
  <2> QED
    BY <1>1, <1>2, <2>1 DEF Managers, Fresh
<1>4. ASSUME NEW t \in Tickers
      PROVE  /\ Fresh(m, msg).tickers = m.tickers
             /\ Fresh(m, msg).books[t] = IF t = msg.ticker THEN "live" ELSE m.books[t]
             /\ Fresh(m, msg).bootstrap[t] = IF t = msg.ticker THEN <<>> ELSE m.bootstrap[t]
  BY <1>1 DEF Managers, Fresh
<1>5. 0 <= BootCap
  BY BoundAssumption
<1>6. ASSUME NEW t \in Tickers
      PROVE  /\ Len(Fresh(m, msg).bootstrap[t]) <= BootCap
             /\ Fresh(m, msg).books[t] # "none" => t \in Fresh(m, msg).tickers
             /\ Served(Fresh(m, msg), t) => Fresh(m, msg).bootstrap[t] = <<>>
  <2>1. CASE t = msg.ticker
    BY <1>2, <1>4, <1>5, <2>1
  <2>2. CASE t # msg.ticker
    BY <1>4, <2>2 DEF SoundManagers, Served
  <2> QED
    BY <2>1, <2>2
<1> QED
  BY <1>3, <1>6 DEF SoundManagers

\* A queued delta that is drained keeps managers sound.
LEMMA DrainQueuedSound ==
  ASSUME NEW ms \in SUBSET SoundManagers, NEW msg, NEW queued \in Messages
  PROVE  DrainQueued(ms, msg, queued) \in SUBSET SoundManagers
<1>1. queued.seq \in Numbers
  BY DEF Messages
<1> QED
  BY <1>1, DrainDeltaSound, AdvanceSound DEF DrainQueued

\* The table that ApplySnapshot makes of the queue it drains.
Drains(after, m, msg, queue) ==
  after = [n \in 0 .. Len(queue) |->
             IF n = 0 THEN {Fresh(m, msg)} ELSE DrainQueued(after[n - 1], msg, queue[n])]

\* ApplySnapshot reads the last row of that table.
LEMMA ApplySnapshotDrains ==
  ASSUME NEW m \in SoundManagers, NEW msg, msg.seq \in Numbers, msg.ticker \in m.tickers,
         NEW queue \in Seq(Messages), queue = InOrder(m.bootstrap[msg.ticker])
  PROVE  \E after : Drains(after, m, msg, queue) /\ ApplySnapshot(m, msg) = after[Len(queue)]
<1>2. PICK n \in Nat : n = Len(queue) /\ \A i \in 1 .. n : queue[i] \in Messages
  BY LenProperties, ElementOfSeq
<1>3. PICK V : V = SUBSET SoundManagers
  OBVIOUS
<1>4. PICK first : first = {Fresh(m, msg)}
  OBVIOUS
<1> DEFINE step == [i \in 1 .. n |-> [ms \in V |-> DrainQueued(ms, msg, queue[i])]]
<1>5. step \in [1 .. n -> [V -> V]] /\ first \in V
  BY <1>2, <1>3, <1>4, DrainQueuedSound, FreshSound
<1>6. PICK f : Recursion(f, n, V, first, step)
  <2> HIDE DEF step
  <2> QED
    BY <1>5, RecursionExists
<1>7. /\ f \in [0 .. n -> V] /\ f[0] = first
      /\ \A i \in 1 .. n : f[i] = DrainQueued(f[i - 1], msg, queue[i])
  <2>1. f \in [0 .. n -> V] /\ f[0] = first /\ \A i \in 1 .. n : f[i] = step[i][f[i - 1]]
    <3> HIDE DEF step
    <3> QED
      BY <1>6 DEF Recursion
  <2>2. ASSUME NEW i \in 1 .. n PROVE step[i][f[i - 1]] = DrainQueued(f[i - 1], msg, queue[i])
    <3>1. f[i - 1] \in V
      BY <2>1
    <3> QED
      BY <3>1
  <2> HIDE DEF step
  <2> QED
    BY <2>1, <2>2
<1>8. Drains(f, m, msg, queue)
  <2>1. \A i \in 0 .. n : f[i] = IF i = 0 THEN first ELSE DrainQueued(f[i - 1], msg, queue[i])
    BY <1>7
  <2>2. f = [i \in 0 .. n |-> f[i]]
    BY <1>7
  <2> QED
    BY <1>2, <1>4, <2>1, <2>2 DEF Drains
<1> DEFINE c == CHOOSE g : Drains(g, m, msg, queue)
<1>9. Drains(c, m, msg, queue)
  BY <1>8
<1>10. ApplySnapshot(m, msg) = c[Len(queue)]
  BY DEF ApplySnapshot, Drains
<1> QED
  BY <1>9, <1>10

\* A snapshot, and the queue it drains, leave a sound manager.
LEMMA ApplySnapshotSound ==
  ASSUME NEW m \in SoundManagers, NEW msg, msg.seq \in Numbers, msg.ticker \in m.tickers
  PROVE  ApplySnapshot(m, msg) \in SUBSET SoundManagers
<1>1. PICK queue \in Seq(Messages) : queue = InOrder(m.bootstrap[msg.ticker])
  BY InOrderType DEF SoundManagers, Managers
<1>2. PICK n \in Nat : n = Len(queue) /\ \A i \in 1 .. n : queue[i] \in Messages
  BY LenProperties, ElementOfSeq
<1>3. PICK c : Drains(c, m, msg, queue) /\ ApplySnapshot(m, msg) = c[Len(queue)]
  BY <1>1, ApplySnapshotDrains
<1>4. PICK first : first = {Fresh(m, msg)}
  OBVIOUS
<1>5. c[0] = first /\ \A i \in 1 .. n : c[i] = DrainQueued(c[i - 1], msg, queue[i])
  <2>1. c = [i \in 0 .. n |-> IF i = 0 THEN first ELSE DrainQueued(c[i - 1], msg, queue[i])]
    BY <1>2, <1>3, <1>4 DEF Drains
  <2> QED
    BY <2>1
<1> DEFINE P == {i \in 0 .. n : c[i] \in SUBSET SoundManagers}
<1>6. 0 \in P
  BY <1>4, <1>5, FreshSound
<1>7. ASSUME NEW i \in 1 .. n, i - 1 \in P PROVE i \in P
  BY <1>2, <1>5, <1>7, DrainQueuedSound
<1>8. n \in P
  <2> HIDE DEF P
  <2> QED
    BY <1>6, <1>7, Climb
<1> QED
  BY <1>2, <1>3, <1>8

\* A snapshot that no queued delta is later than drains nothing.
LEMMA ApplySnapshotFresh ==
  ASSUME NEW m \in SoundManagers, NEW msg, msg.seq \in Numbers, msg.ticker \in m.tickers,
         \A i \in 1 .. Len(m.bootstrap[msg.ticker]) : m.bootstrap[msg.ticker][i].seq <= msg.seq
  PROVE  ApplySnapshot(m, msg) = {Fresh(m, msg)}
<1>1. PICK old : old = {x \in Messages : x.seq <= msg.seq}
  OBVIOUS
<1>2. PICK s \in Seq(Messages) : s = m.bootstrap[msg.ticker]
  BY DEF SoundManagers, Managers
<1>3. s \in Seq(old)
  <2>1. \A i \in 1 .. Len(s) : s[i] \in old
    BY <1>1, <1>2, ElementOfSeq
  <2>2. s \in [1 .. Len(s) -> old] /\ Len(s) \in Nat
    BY <2>1, LenProperties
  <2> QED
    BY <2>2
<1>4. PICK queue \in Seq(old) : queue = InOrder(m.bootstrap[msg.ticker])
  BY <1>2, <1>3, InOrderType
<1>5. queue \in Seq(Messages)
  BY <1>1, <1>4, SeqMonotonic
<1>6. PICK n \in Nat : n = Len(queue) /\ \A i \in 1 .. n : queue[i].seq <= msg.seq
  BY <1>1, <1>4, LenProperties, ElementOfSeq
<1>7. PICK c : Drains(c, m, msg, queue) /\ ApplySnapshot(m, msg) = c[Len(queue)]
  BY <1>4, <1>5, ApplySnapshotDrains
<1>8. PICK first : first = {Fresh(m, msg)}
  OBVIOUS
<1>9. c[0] = first /\ \A i \in 1 .. n : c[i] = c[i - 1]
  <2>1. c = [i \in 0 .. n |-> IF i = 0 THEN first ELSE DrainQueued(c[i - 1], msg, queue[i])]
    BY <1>6, <1>7, <1>8 DEF Drains
  <2>2. c[0] = first /\ \A i \in 1 .. n : c[i] = DrainQueued(c[i - 1], msg, queue[i])
    BY <2>1
  <2> QED
    BY <1>6, <2>2 DEF DrainQueued
<1> DEFINE P == {i \in 0 .. n : c[i] = first}
<1>10. 0 \in P
  BY <1>9
<1>11. ASSUME NEW i \in 1 .. n, i - 1 \in P PROVE i \in P
  BY <1>9, <1>11
<1>12. n \in P
  <2> HIDE DEF P
  <2> QED
    BY <1>10, <1>11, Climb
<1> QED
  BY <1>6, <1>7, <1>8, <1>12

-----------------------------------------------------------------------------
(* Requests in chunks                                                      *)

\* The chunks of a request are sets of markets.
LEMMA ChunkingsType ==
  ASSUME NEW S \in SUBSET Tickers, NEW chunks \in Chunkings(S)
  PROVE  chunks \in Seq(SUBSET Tickers)
<1>1. IsFiniteSet(S) /\ Cardinality(S) \in Nat
  BY SetAssumption, FS_Subset, FS_CardinalityType
<1>2. PICK p \in SetToSeqs(S) :
        chunks = [i \in 1 .. (Len(p) + ChunkSize - 1) \div ChunkSize |->
                    {p[j] : j \in (i - 1) * ChunkSize + 1 ..
                                    IF i * ChunkSize < Len(p) THEN i * ChunkSize ELSE Len(p)}]
  BY DEF Chunkings
<1>3. PICK n \in Nat : n = Cardinality(S)
  BY <1>1
<1>4. p \in [1 .. n -> S] /\ Len(p) = n
  BY <1>2, <1>3 DEF SetToSeqs
<1>5. PICK size \in Nat \ {0} : size = ChunkSize
  BY BoundAssumption
<1>6. PICK count \in Nat : count = (Len(p) + ChunkSize - 1) \div ChunkSize
  BY <1>4, <1>5
<1>7. ASSUME NEW i \in 1 .. count PROVE chunks[i] \in SUBSET Tickers
  <2>1. PICK low \in Nat : low = (i - 1) * size
    BY <1>5
  <2>2. PICK high : high = IF i * size < n THEN i * size ELSE n
    OBVIOUS
  <2>3. high <= n /\ high \in Int
    BY <2>2
  <2>4. chunks[i] = {p[j] : j \in low + 1 .. high}
    BY <1>2, <1>4, <1>5, <1>6, <2>1, <2>2
  <2> QED
    BY <1>4, <2>3, <2>4
<1>8. chunks \in [1 .. count -> SUBSET Tickers]
  BY <1>2, <1>6, <1>7
<1> QED
  BY <1>8

\* The ids a request may be sent under, one after the other.
LEMMA FreeIdsInOrder ==
  ASSUME NEW m
  PROVE  LET ids == SetToSeq(FreeIds(m))
         IN  ids \in Seq(FreeIds(m)) /\ \A i, j \in 1 .. Len(ids) : ids[i] = ids[j] => i = j
<1>1. PICK S : S = FreeIds(m)
  OBVIOUS
<1>2. IsFiniteSet(S)
  BY <1>1, SetAssumption, FS_Subset DEF FreeIds
<1>3. PICK n \in Nat : n = Cardinality(S) /\ ExistsBijection(1 .. n, S)
  BY <1>2, FS_CardinalityType
<1>4. \E f \in [1 .. n -> S] : IsInjective(f)
  BY <1>3 DEF ExistsBijection, Bijection, Injection, IsInjective
<1>5. PICK ids : ids = SetToSeq(S)
  OBVIOUS
<1>6. ids \in [1 .. n -> S] /\ IsInjective(ids)
  BY <1>3, <1>4, <1>5 DEF SetToSeq
<1>7. ids \in Seq(S) /\ Len(ids) = n
  BY <1>6
<1> QED
  BY <1>1, <1>5, <1>6, <1>7 DEF IsInjective

-----------------------------------------------------------------------------
(* Recovery                                                                *)

\* The numbers the buffer holds.
Held(m) == {m.pendingDeltas[i].seq : i \in DOMAIN m.pendingDeltas}

\* No request is pending.
Idle(m) == \A i \in Ids : m.requests[i] = {}

\* No answer under way is one a request waits for.
Unawaited(m) == \A a \in answers : m.requests[a.id] = {}

\* x comes from m by steps that mark books stale or give a buffer up, knowing it.
Follows(x, m) ==
  /\ x.seq = m.seq /\ x.missing = m.missing /\ x.bootstrap = m.bootstrap
  /\ x.lastSeq = m.lastSeq /\ x.tickers = m.tickers
  /\ \A t \in Tickers : Served(x, t) => Served(m, t)
  /\ m.unseen \subseteq x.unseen /\ Held(m) \subseteq Held(x) \cup x.unseen
  /\ x.pendingDeltas = m.pendingDeltas \/ x.pendingDeltas = <<>>

\* The part of TypeOK that the handlers read of the answers.
AnswersType == answers \subseteq [id : Ids, ticker : Tickers, seq : Numbers]

\* Such steps compose.
LEMMA FollowsTransitive ==
  ASSUME NEW x, NEW y, NEW z, Follows(x, y), Follows(y, z)
  PROVE  Follows(x, z)
  BY DEF Follows

\* What the buffer holds are numbers of the history.
LEMMA HeldType ==
  ASSUME NEW m \in SoundManagers
  PROVE  Held(m) \subseteq Numbers
<1>1. PICK s \in Seq(Messages) : s = m.pendingDeltas
  BY DEF SoundManagers, Managers
<1>2. \A i \in DOMAIN s : s[i] \in Messages
  BY LenProperties, ElementOfSeq
<1> QED
  BY <1>1, <1>2 DEF Held, Messages

\* An empty buffer holds none.
LEMMA HeldNothing ==
  ASSUME NEW m, m.pendingDeltas = <<>>
  PROVE  Held(m) = {}
  BY DEF Held

\* Marking books stale is such a step,
LEMMA MarkStaleFollows ==
  ASSUME NEW m \in SoundManagers, NEW S
  PROVE  Follows(MarkStale(m, S), m) /\ MarkStale(m, S).requests = m.requests
         /\ MarkStale(m, S).recovering = m.recovering /\ MarkStale(m, S).disabled = m.disabled
         /\ MarkStale(m, S).pendingDeltas = m.pendingDeltas
         /\ MarkStale(m, S).unseen = m.unseen
<1>1. \A t \in Tickers : Served(MarkStale(m, S), t) => Served(m, t)
  BY MarkStaleSound
<1> QED
  BY <1>1 DEF Follows, MarkStale, SoundManagers, Managers, Held

\* throwing the buffer away is one: what it held becomes unseen,
LEMMA DiscardSound ==
  ASSUME NEW m \in SoundManagers
  PROVE  /\ Discard(m) \in SoundManagers /\ Follows(Discard(m), m)
         /\ Discard(m).pendingDeltas = <<>>
         /\ Discard(m).requests = m.requests /\ Discard(m).recovering = m.recovering
<1>1. Discard(m) = [m EXCEPT !.pendingDeltas = <<>>, !.unseen = @ \cup Held(m)]
  BY DEF Discard, Held
<1>2. Held(m) \subseteq Numbers /\ <<>> \in Seq(Messages)
  BY HeldType, EmptySeq
<1>3. PICK held : held = Held(m)
  OBVIOUS
<1>4. Discard(m) \in Managers
  <2>1. PICK e \in Seq(Messages) : e = <<>>
    BY <1>2
  <2>2. PICK x : x = [m EXCEPT !.pendingDeltas = e, !.unseen = @ \cup held]
    OBVIOUS
  <2>3. x \in Managers
    BY <1>2, <1>3, <2>2 DEF SoundManagers, Managers
  <2> QED
    BY <1>1, <1>3, <2>1, <2>2, <2>3
<1>6. Discard(m).pendingDeltas = <<>> /\ Discard(m).unseen = m.unseen \cup held
      /\ Discard(m).requests = m.requests /\ Discard(m).recovering = m.recovering
  BY <1>1, <1>3 DEF SoundManagers, Managers
<1>7. /\ Discard(m).seq = m.seq /\ Discard(m).missing = m.missing
      /\ Discard(m).bootstrap = m.bootstrap /\ Discard(m).lastSeq = m.lastSeq
      /\ Discard(m).tickers = m.tickers /\ Discard(m).books = m.books
  BY <1>1, <1>3 DEF SoundManagers, Managers
<1>5. Discard(m) \in SoundManagers
  BY <1>4, <1>7, AsSound
<1> QED
  BY <1>3, <1>5, <1>6, <1>7 DEF Follows, Served

\* so is forgetting a recovery and its requests,
LEMMA CleanupSound ==
  ASSUME NEW m \in SoundManagers
  PROVE  /\ CleanupRecovery(m) \in SoundManagers /\ Follows(CleanupRecovery(m), m)
         /\ CleanupRecovery(m).pendingDeltas = <<>>
         /\ Idle(CleanupRecovery(m)) /\ ~CleanupRecovery(m).recovering
<1>1. PICK d \in SoundManagers : /\ d = Discard(m) /\ Follows(d, m) /\ d.pendingDeltas = <<>>
  BY DiscardSound
<1>2. PICK x : x = [d EXCEPT !.recovering = FALSE, !.requests = [i \in Ids |-> {}]]
  OBVIOUS
<1>3. x \in Managers
  BY <1>2 DEF SoundManagers, Managers
<1>4. x \in SoundManagers /\ Idle(x) /\ ~x.recovering /\ x.pendingDeltas = <<>>
  <2>1. x.books = d.books /\ x.bootstrap = d.bootstrap /\ x.tickers = d.tickers
    BY <1>2 DEF SoundManagers, Managers
  <2>2. Idle(x) /\ ~x.recovering
    BY <1>1, <1>2 DEF SoundManagers, Managers, Idle
  <2>3. x.pendingDeltas = <<>>
    BY <1>1, <1>2 DEF SoundManagers, Managers
  <2> QED
    BY <1>3, <2>1, <2>2, <2>3, AsSound
<1>5. Follows(x, d)
  BY <1>2 DEF SoundManagers, Managers, Served, Follows, Held
<1> QED
  BY <1>1, <1>2, <1>4, <1>5, FollowsTransitive DEF CleanupRecovery

\* and disabling the sid.
LEMMA DisableSound ==
  ASSUME NEW m \in SoundManagers
  PROVE  /\ DisableRecovery(m) \in SoundManagers /\ Follows(DisableRecovery(m), m)
         /\ DisableRecovery(m).pendingDeltas = <<>>
         /\ Idle(DisableRecovery(m)) /\ ~DisableRecovery(m).recovering
<1>1. PICK d \in SoundManagers : /\ d = CleanupRecovery(m) /\ Follows(d, m)
                                 /\ d.pendingDeltas = <<>> /\ Idle(d) /\ ~d.recovering
  BY CleanupSound
<1>2. PICK x : x = [d EXCEPT !.disabled = TRUE]
  OBVIOUS
<1>3. x \in Managers
  BY <1>2 DEF SoundManagers, Managers
<1>4. x \in SoundManagers /\ Idle(x) /\ ~x.recovering /\ x.pendingDeltas = <<>>
  <2>1. x.books = d.books /\ x.bootstrap = d.bootstrap /\ x.tickers = d.tickers
    BY <1>2 DEF SoundManagers, Managers
  <2>2. Idle(x) /\ ~x.recovering
    BY <1>1, <1>2 DEF SoundManagers, Managers, Idle
  <2>3. x.pendingDeltas = <<>>
    BY <1>1, <1>2 DEF SoundManagers, Managers
  <2> QED
    BY <1>3, <2>1, <2>2, <2>3, AsSound
<1>5. Follows(x, d)
  BY <1>2 DEF SoundManagers, Managers, Served, Follows, Held
<1> QED
  BY <1>1, <1>2, <1>4, <1>5, FollowsTransitive DEF DisableRecovery

\* The loop of sends, complete or cut short by one that raises, changes requests only, and
\* registers none under an id that an answer under way bears.
LEMMA SendChunksSound ==
  ASSUME NEW m \in SoundManagers, NEW chunks \in Seq(SUBSET Tickers), AnswersType,
         NEW o \in SendChunks(m, chunks)
  PROVE  /\ o.did \in {"started", "raised"} /\ o.m \in SoundManagers
         /\ Follows(o.m, m) /\ o.m.recovering = m.recovering
         /\ o.m.pendingDeltas = m.pendingDeltas
         /\ Unawaited(m) => Unawaited(o.m)
<1> DEFINE ids == SetToSeq(FreeIds(m))
<1>1. ids \in Seq(FreeIds(m))
  BY FreeIdsInOrder
<1> DEFINE Under(id, n) == UNION {chunks[i] : i \in {j \in 1 .. n : ids[j] = id}}
           Sent(n) == [m EXCEPT !.asked = @ \cup {r \in Requests : r.ticker \in Under(r.id, n)},
                                !.requests = [id \in Ids |-> @[id] \cup Under(id, n)]]
<1>2. PICK n \in 0 .. Len(chunks) :
        /\ Len(chunks) <= Len(ids)
        /\ \/ o = [did |-> "started", m |-> Sent(n)]
           \/ May("send", m) /\ o = [did |-> "raised", m |-> Fault(Sent(n))]
  <2>1. Len(chunks) \in Nat
    BY LenProperties
  <2>2. o \in When(Len(chunks) <= Len(ids),
               {[did |-> "started", m |-> Sent(Len(chunks))]}
               \cup When(May("send", m),
                      {[did |-> "raised", m |-> Fault(Sent(k))] : k \in 0 .. Len(chunks) - 1}))
    BY DEF SendChunks
  <2> HIDE DEF Sent, ids
  <2> QED
    BY <2>1, <2>2 DEF When
<1> HIDE DEF ids
<1>3. ASSUME NEW id \in Ids PROVE Under(id, n) \in SUBSET Tickers
  BY ElementOfSeq
<1>4. ASSUME NEW a \in answers PROVE Under(a.id, n) = {}
  <2>1. \A i \in 1 .. n : ids[i] \in FreeIds(m)
    BY <1>1, <1>2, LenProperties, ElementOfSeq
  <2>2. a.id \notin FreeIds(m)
    BY DEF FreeIds
  <2> QED
    BY <2>1, <2>2
<1>5. PICK u : u = [id \in Ids |-> Under(id, n)]
  OBVIOUS
<1>6. PICK asks : asks = {r \in Requests : r.ticker \in Under(r.id, n)}
  OBVIOUS
<1> HIDE DEF Under
<1>7. PICK x : x = Sent(n)
  OBVIOUS
<1>8. x = [m EXCEPT !.asked = @ \cup asks, !.requests = [id \in Ids |-> @[id] \cup u[id]]]
  BY <1>5, <1>6, <1>7
<1>9. u \in [Ids -> SUBSET Tickers] /\ asks \in SUBSET Requests
  BY <1>3, <1>5, <1>6
<1>10. x \in Managers
  BY <1>8, <1>9 DEF SoundManagers, Managers
<1>11. x \in SoundManagers
  BY <1>8, <1>10 DEF SoundManagers, Managers, Served
<1>12. Follows(x, m) /\ x.recovering = m.recovering /\ x.pendingDeltas = m.pendingDeltas
       /\ x.faults = m.faults
  BY <1>8 DEF SoundManagers, Managers, Follows, Served, Held
<1>13. Unawaited(m) => Unawaited(x)
  <2>1. \A id \in Ids : x.requests[id] = m.requests[id] \cup u[id]
    BY <1>8 DEF SoundManagers, Managers
  <2>2. \A a \in answers : a.id \in Ids /\ u[a.id] = {}
    BY <1>4, <1>5 DEF AnswersType
  <2> QED
    BY <2>1, <2>2 DEF Unawaited
<1>14. ASSUME May("send", m)
       PROVE  /\ Fault(x) \in SoundManagers /\ Follows(Fault(x), x)
              /\ Fault(x).recovering = x.recovering /\ Fault(x).requests = x.requests
              /\ Fault(x).pendingDeltas = x.pendingDeltas
  <2>1. x.faults + 1 \in 0 .. MaxFaults
    BY <1>11, <1>12, <1>14, BoundAssumption DEF SoundManagers, Managers, May
  <2>2. PICK y : y = Fault(x)
    OBVIOUS
  <2>3. y \in Managers
    BY <1>11, <2>1, <2>2 DEF SoundManagers, Managers, Fault
  <2>4. /\ y.books = x.books /\ y.seq = x.seq /\ y.missing = x.missing
        /\ y.bootstrap = x.bootstrap /\ y.lastSeq = x.lastSeq /\ y.tickers = x.tickers
        /\ y.pendingDeltas = x.pendingDeltas /\ y.unseen = x.unseen
        /\ y.recovering = x.recovering /\ y.requests = x.requests
    BY <1>11, <2>2 DEF SoundManagers, Managers, Fault
  <2>5. y \in SoundManagers
    BY <1>11, <2>3, <2>4, AsSound
  <2>6. Follows(y, x)
    BY <2>4 DEF Follows, Served, Held
  <2> QED
    BY <2>2, <2>4, <2>5, <2>6
<1>15. CASE o = [did |-> "started", m |-> Sent(n)]
  BY <1>7, <1>11, <1>12, <1>13, <1>15
<1>16. CASE May("send", m) /\ o = [did |-> "raised", m |-> Fault(Sent(n))]
  <2>1. o.did = "raised" /\ o.m = Fault(x)
    BY <1>7, <1>16
  <2>2. Unawaited(x) => Unawaited(Fault(x))
    BY <1>14, <1>16 DEF Unawaited
  <2>3. Follows(Fault(x), m)
    BY <1>12, <1>14, <1>16, FollowsTransitive
  <2> QED
    BY <1>12, <1>13, <1>14, <1>16, <2>1, <2>2, <2>3
<1> QED
  BY <1>2, <1>15, <1>16

\* x differs from m in neither its books nor its numbers nor its buffer.
SameView(x, m) ==
  /\ x.books = m.books /\ x.seq = m.seq /\ x.missing = m.missing
  /\ x.bootstrap = m.bootstrap /\ x.lastSeq = m.lastSeq /\ x.tickers = m.tickers
  /\ x.pendingDeltas = m.pendingDeltas /\ x.unseen = m.unseen

\* Such a manager is as sound, and follows.
LEMMA SameViewFollows ==
  ASSUME NEW m \in SoundManagers, NEW x \in Managers, SameView(x, m)
  PROVE  x \in SoundManagers /\ Follows(x, m)
<1>1. x \in SoundManagers
  BY DEF SoundManagers, SameView, Served
<1>2. Follows(x, m)
  BY DEF SameView, Follows, Served, Held
<1> QED
  BY <1>1, <1>2

\* No recovery is under way and none of its requests is pending.
Quiet(m) == ~m.recovering /\ Idle(m)

\* What a recovery, begun from m or not, leaves.
Recovered(o, m) ==
  /\ o.did \in {"nothing", "started", "raised"} /\ o.m \in SoundManagers /\ Follows(o.m, m)
  /\ Unawaited(o.m)
  /\ o.did = "nothing" => Quiet(o.m)
  /\ o.did # "nothing" => o.m.recovering /\ o.m.pendingDeltas = <<>>

\* And with an empty buffer, when it was given up first.
Restarted(o, m) == Recovered(o, m) /\ o.m.pendingDeltas = <<>>

\* Without requests no answer is awaited.
LEMMA IdleUnawaited ==
  ASSUME NEW m, Idle(m), AnswersType
  PROVE  Unawaited(m)
  BY DEF Idle, Unawaited, AnswersType

\* A recovery begins with an empty buffer, or leaves the requests as they were or forgotten;
\* asked to mark every book stale, an enabled sid serves none.
LEMMA BeginRecoverySound ==
  ASSUME NEW m \in SoundManagers, NEW over, NEW staleAll \in BOOLEAN
  PROVE  LET b == BeginRecovery(m, over, staleAll)
         IN  /\ b.did \in {"nothing", "begun"} /\ b.m \in SoundManagers /\ Follows(b.m, m)
             /\ b.did = "nothing" => b.m.requests = m.requests \/ Idle(b.m)
             /\ b.did = "nothing" => b.m.recovering = m.recovering \/ ~b.m.recovering
             /\ b.did = "begun" => /\ b.m.requests = m.requests /\ b.m.recovering
                                   /\ b.m.pendingDeltas = <<>> /\ b.m.tickers = m.tickers
             /\ staleAll /\ ~m.disabled => \A t \in m.tickers : ~Served(b.m, t)
<1>1. PICK marked : marked = IF staleAll THEN MarkStale(m, m.tickers) ELSE m
  OBVIOUS
<1>2. /\ marked \in SoundManagers /\ Follows(marked, m) /\ marked.requests = m.requests
      /\ marked.recovering = m.recovering /\ marked.disabled = m.disabled
      /\ staleAll => \A t \in m.tickers : ~Served(marked, t)
  <2>1. m.tickers \subseteq Tickers
    BY DEF SoundManagers, Managers
  <2>2. Follows(m, m)
    BY DEF Follows
  <2> QED
    BY <1>1, <2>1, <2>2, MarkStaleSound, MarkStaleFollows
<1>3. PICK now : now = [marked EXCEPT !.started = TRUE, !.deferred = FALSE]
  OBVIOUS
<1>4. PICK later : later = [marked EXCEPT !.deferred = TRUE]
  OBVIOUS
<1>5. /\ now \in SoundManagers /\ Follows(now, marked) /\ now.requests = m.requests
      /\ now.recovering = m.recovering /\ now.tickers = m.tickers
  <2>1. now \in Managers
    BY <1>2, <1>3 DEF SoundManagers, Managers
  <2>2. SameView(now, marked) /\ now.requests = marked.requests /\ now.recovering = marked.recovering
    BY <1>2, <1>3 DEF SoundManagers, Managers, SameView
  <2>3. now \in SoundManagers /\ Follows(now, marked)
    BY <1>2, <2>1, <2>2, SameViewFollows
  <2> QED
    BY <1>2, <2>2, <2>3 DEF SameView, Follows
<1>6. /\ later \in SoundManagers /\ Follows(later, marked) /\ later.requests = m.requests
      /\ later.recovering = m.recovering
  <2>1. later \in Managers
    BY <1>2, <1>4 DEF SoundManagers, Managers
  <2>2. /\ SameView(later, marked) /\ later.requests = marked.requests
        /\ later.recovering = marked.recovering
    BY <1>2, <1>4 DEF SoundManagers, Managers, SameView
  <2> QED
    BY <1>2, <2>1, <2>2, SameViewFollows
<1>7. Follows(now, m) /\ Follows(later, m)
  BY <1>2, <1>5, <1>6, FollowsTransitive
<1>8. PICK off : off = DisableRecovery(now)
  OBVIOUS
<1>9. off \in SoundManagers /\ Follows(off, m) /\ Idle(off) /\ ~off.recovering
      /\ Follows(off, now)
  BY <1>5, <1>7, <1>8, DisableSound, FollowsTransitive
<1>10. PICK d : d = Discard(now)
  OBVIOUS
<1>11. /\ d \in SoundManagers /\ Follows(d, m) /\ Follows(d, now) /\ d.pendingDeltas = <<>>
       /\ d.requests = m.requests
  BY <1>5, <1>7, <1>10, DiscardSound, FollowsTransitive
<1>12. PICK on : on = [d EXCEPT !.recovering = TRUE]
  OBVIOUS
<1>13. /\ on \in SoundManagers /\ Follows(on, d) /\ on.requests = m.requests /\ on.recovering
       /\ on.pendingDeltas = <<>>
  <2>1. on \in Managers
    BY <1>11, <1>12 DEF SoundManagers, Managers
  <2>2. SameView(on, d) /\ on.requests = d.requests /\ on.recovering
    BY <1>11, <1>12 DEF SoundManagers, Managers, SameView
  <2> QED
    BY <1>11, <2>1, <2>2, SameViewFollows DEF SameView
<1>14. Follows(on, m) /\ Follows(on, marked)
  <2>1. Follows(d, marked)
    BY <1>5, <1>11, FollowsTransitive
  <2> QED
    BY <1>11, <1>13, <2>1, FollowsTransitive
<1>15. Follows(off, marked)
  BY <1>5, <1>9, FollowsTransitive
<1>16. Follows(m, m)
  BY DEF Follows
<1>17. \/ BeginRecovery(m, over, staleAll) = [did |-> "nothing", m |-> later]
       \/ BeginRecovery(m, over, staleAll) = [did |-> "nothing", m |-> off]
       \/ BeginRecovery(m, over, staleAll) = [did |-> "begun", m |-> on]
       \/ m.disabled /\ BeginRecovery(m, over, staleAll) = [did |-> "nothing", m |-> m]
  BY <1>1, <1>3, <1>4, <1>8, <1>10, <1>12 DEF BeginRecovery
<1>18. \A x \in {later, off, on} :
         staleAll => \A t \in m.tickers : ~Served(x, t)
  <2>1. m.tickers \subseteq Tickers
    BY DEF SoundManagers, Managers
  <2> QED
    BY <1>2, <1>6, <1>14, <1>15, <2>1 DEF Follows
<1> QED
  <2>1. PICK b : b = BeginRecovery(m, over, staleAll)
    OBVIOUS
  <2>2. CASE b = [did |-> "nothing", m |-> later]
    BY <1>6, <1>7, <1>18, <2>1, <2>2
  <2>3. CASE b = [did |-> "nothing", m |-> off]
    BY <1>9, <1>18, <2>1, <2>3
  <2>4. CASE b = [did |-> "begun", m |-> on]
    BY <1>11, <1>13, <1>14, <1>18, <2>1, <2>4 DEF Follows
  <2>5. CASE m.disabled /\ b = [did |-> "nothing", m |-> m]
    BY <1>16, <2>1, <2>5
  <2> QED
    BY <1>17, <2>1, <2>2, <2>3, <2>4, <2>5

\* The same of a start with its sends.
LEMMA StartRecoverySound ==
  ASSUME NEW m \in SoundManagers, NEW over, NEW staleAll \in BOOLEAN, AnswersType,
         NEW o \in StartRecovery(m, over, staleAll)
  PROVE  /\ o.did \in {"nothing", "started", "raised"} /\ o.m \in SoundManagers
         /\ Follows(o.m, m)
         /\ o.did # "nothing" => o.m.recovering /\ o.m.pendingDeltas = <<>>
         /\ Quiet(m) => Recovered(o, m)
         /\ staleAll /\ ~m.disabled => \A t \in m.tickers : ~Served(o.m, t)
<1>1. PICK b : b = BeginRecovery(m, over, staleAll)
  OBVIOUS
<1>2. /\ b.did \in {"nothing", "begun"} /\ b.m \in SoundManagers /\ Follows(b.m, m)
      /\ b.did = "nothing" => b.m.requests = m.requests \/ Idle(b.m)
      /\ b.did = "nothing" => b.m.recovering = m.recovering \/ ~b.m.recovering
      /\ b.did = "begun" => /\ b.m.requests = m.requests /\ b.m.recovering
                            /\ b.m.pendingDeltas = <<>> /\ b.m.tickers = m.tickers
      /\ staleAll /\ ~m.disabled => \A t \in m.tickers : ~Served(b.m, t)
  BY <1>1, BeginRecoverySound
<1>3. CASE b.did = "nothing"
  <2>1. o = b
    BY <1>1, <1>3 DEF StartRecovery
  <2>2. Quiet(m) => Quiet(b.m)
    BY <1>2, <1>3 DEF Quiet, Idle
  <2>3. Quiet(m) => Unawaited(b.m)
    BY <2>2, IdleUnawaited DEF Quiet
  <2> QED
    BY <1>2, <1>3, <2>1, <2>2, <2>3 DEF Recovered
<1>4. CASE b.did = "begun"
  <2>1. PICK chunks \in Chunkings(m.tickers \ Unrecoverable(m)) : o \in SendChunks(b.m, chunks)
    BY <1>1, <1>4 DEF StartRecovery
  <2>2. m.tickers \ Unrecoverable(m) \in SUBSET Tickers
    BY DEF SoundManagers, Managers
  <2>3. chunks \in Seq(SUBSET Tickers)
    BY <2>1, <2>2, ChunkingsType
  <2>4. /\ o.did \in {"started", "raised"} /\ o.m \in SoundManagers
        /\ Follows(o.m, b.m) /\ o.m.recovering = b.m.recovering
        /\ o.m.pendingDeltas = b.m.pendingDeltas
        /\ Unawaited(b.m) => Unawaited(o.m)
    BY <1>2, <2>1, <2>3, SendChunksSound
  <2>5. Follows(o.m, m)
    BY <1>2, <2>4, FollowsTransitive
  <2>6. Quiet(m) => Unawaited(b.m)
    BY <1>2, <1>4, IdleUnawaited DEF Quiet, Idle
  <2>7. staleAll /\ ~m.disabled => \A t \in m.tickers : ~Served(o.m, t)
    BY <1>2, <2>4 DEF Follows, SoundManagers, Managers
  <2> QED
    BY <1>2, <1>4, <2>4, <2>5, <2>6, <2>7 DEF Recovered
<1> QED
  BY <1>2, <1>3, <1>4

\* The same whatever the clock says.
LEMMA TryRecoverySound ==
  ASSUME NEW m \in SoundManagers, NEW staleAll \in BOOLEAN, AnswersType,
         NEW o \in TryRecovery(m, staleAll)
  PROVE  /\ o.did \in {"nothing", "started", "raised"} /\ o.m \in SoundManagers
         /\ Follows(o.m, m)
         /\ o.did # "nothing" => o.m.recovering /\ o.m.pendingDeltas = <<>>
         /\ Quiet(m) => Recovered(o, m)
         /\ staleAll /\ ~m.disabled => \A t \in m.tickers : ~Served(o.m, t)
  BY StartRecoverySound DEF TryRecovery

\* A failure disables the sid, or starts its recovery again.
LEMMA FailAndRetrySound ==
  ASSUME NEW m \in SoundManagers, Quiet(m), AnswersType, NEW o \in FailAndRetry(m)
  PROVE  Recovered(o, m)
<1>1. PICK x : x = [m EXCEPT !.failures = @ + 1]
  OBVIOUS
<1>2. /\ x \in SoundManagers /\ Follows(x, m) /\ Quiet(x)
  <2>1. m.failures + 1 \in Nat
    BY DEF SoundManagers, Managers
  <2>2. x \in Managers
    BY <1>1, <2>1 DEF SoundManagers, Managers
  <2>3. SameView(x, m) /\ x.requests = m.requests /\ x.recovering = m.recovering
    BY <1>1 DEF SoundManagers, Managers, SameView
  <2> QED
    BY <2>2, <2>3, SameViewFollows DEF Quiet, Idle
<1>3. CASE o = [did |-> "nothing", m |-> DisableRecovery(x)]
  <2>1. /\ DisableRecovery(x) \in SoundManagers /\ Follows(DisableRecovery(x), x)
        /\ Idle(DisableRecovery(x)) /\ ~DisableRecovery(x).recovering
    BY <1>2, DisableSound
  <2> QED
    BY <1>2, <1>3, <2>1, FollowsTransitive, IdleUnawaited DEF Recovered, Quiet
<1>4. CASE o \in StartRecovery(x, TRUE, FALSE)
  <2>1. Recovered(o, x)
    BY <1>2, <1>4, StartRecoverySound
  <2> QED
    BY <1>2, <2>1, FollowsTransitive DEF Recovered
<1> QED
  BY <1>1, <1>3, <1>4 DEF FailAndRetry

\* A recovery that fails is cleaned up first, so that its buffer is given up.
LEMMA AfterCleanup ==
  ASSUME NEW m \in SoundManagers, NEW gone \in SUBSET Tickers, AnswersType,
         NEW o \in FailAndRetry(CleanupRecovery([m EXCEPT !.dead = gone]))
  PROVE  Restarted(o, m)
<1>1. PICK x : x = [m EXCEPT !.dead = gone]
  OBVIOUS
<1>2. x \in SoundManagers /\ Follows(x, m)
  <2>1. x \in Managers
    BY <1>1 DEF SoundManagers, Managers
  <2>2. SameView(x, m)
    BY <1>1 DEF SoundManagers, Managers, SameView
  <2> QED
    BY <2>1, <2>2, SameViewFollows
<1>3. PICK y : y = CleanupRecovery(x)
  OBVIOUS
<1>4. y \in SoundManagers /\ Follows(y, x) /\ Quiet(y) /\ y.pendingDeltas = <<>>
  BY <1>2, <1>3, CleanupSound DEF Quiet
<1>5. Follows(y, m)
  BY <1>2, <1>4, FollowsTransitive
<1>6. Recovered(o, y)
  BY <1>1, <1>3, <1>4, FailAndRetrySound
<1>7. o.m.pendingDeltas = <<>>
  BY <1>4, <1>6 DEF Recovered, Follows
<1> QED
  BY <1>5, <1>6, <1>7, FollowsTransitive DEF Recovered, Restarted

\* So it is with a rejected request,
LEMMA RecoveryRejectedSound ==
  ASSUME NEW m \in SoundManagers, NEW named \in SUBSET Tickers, AnswersType,
         NEW o \in RecoveryRejected(m, named)
  PROVE  Restarted(o, m)
<1>1. PICK gone \in SUBSET Tickers : gone = m.dead \cup named
  BY DEF SoundManagers, Managers
<1>2. [m EXCEPT !.dead = @ \cup named] = [m EXCEPT !.dead = gone]
  BY <1>1
<1> QED
  BY <1>1, <1>2, AfterCleanup DEF RecoveryRejected

\* and with a recovery that is stuck or whose buffer is full.
LEMMA AbortAndRestartSound ==
  ASSUME NEW m \in SoundManagers, NEW timedOut, AnswersType,
         NEW o \in AbortAndRestart(m, timedOut)
  PROVE  Restarted(o, m)
<1>1. PICK stuck \in SUBSET Tickers : stuck = Pending(m)
  <2>1. \A i \in Ids : m.requests[i] \in SUBSET Tickers
    BY DEF SoundManagers, Managers
  <2>2. Pending(m) \in SUBSET Tickers
    BY <2>1 DEF Pending
  <2> QED
    BY <2>2
<1>2. PICK gone \in SUBSET Tickers :
        gone = IF timedOut /\ stuck # {} /\ Cardinality(stuck) < Cardinality(m.tickers)
               THEN m.dead \cup stuck ELSE m.dead
  BY DEF SoundManagers, Managers
<1>3. o \in FailAndRetry(CleanupRecovery([m EXCEPT !.dead = gone]))
  BY <1>1, <1>2 DEF AbortAndRestart
<1> QED
  BY <1>3, AfterCleanup

-----------------------------------------------------------------------------
(* The drain of the buffer                                                 *)

\* The backoff over, the sid is enabled and nothing else changes.
LEMMA RearmSound ==
  ASSUME NEW m \in SoundManagers
  PROVE  /\ Rearm(m) \in SoundManagers /\ Follows(Rearm(m), m) /\ ~Rearm(m).disabled
         /\ Quiet(m) => Quiet(Rearm(m))
<1>1. Rearm(m) \in Managers
  BY DEF SoundManagers, Managers, Rearm
<1>2. SameView(Rearm(m), m) /\ ~Rearm(m).disabled /\ Rearm(m).requests = m.requests
      /\ Rearm(m).recovering = m.recovering
  BY DEF SoundManagers, Managers, SameView, Rearm
<1> QED
  BY <1>1, <1>2, SameViewFollows DEF Quiet, Idle

\* A message drained from the buffer leaves sound managers.
LEMMA DrainOneSound ==
  ASSUME NEW m \in SoundManagers, NEW msg \in Messages
  PROVE  DrainOne(m, msg) \in SUBSET SoundManagers
<1>1. msg.ticker \in Tickers /\ msg.seq \in Numbers
  BY DEF Messages
<1>2. Served(m, msg.ticker) => msg.ticker \in m.tickers
  BY <1>1 DEF SoundManagers, Served
<1>3. DrainDelta(m, msg) \in SUBSET SoundManagers
  BY DrainDeltaSound
<1>4. Served(m, msg.ticker) => ApplySnapshot(m, msg) \in SUBSET SoundManagers
  BY <1>1, <1>2, ApplySnapshotSound
<1> QED
  BY <1>1, <1>3, <1>4, AdvanceSound DEF DrainOne

\* The baseline a drain starts from is a number of the history,
LEMMA DrainBaseType ==
  ASSUME NEW m \in SoundManagers
  PROVE  /\ DrainBase(m) \in Numbers
         /\ Highest({m.lastSeq, 0}) \in Numbers /\ m.lastSeq <= Highest({m.lastSeq, 0})
<1>1. m.lastSeq \in Int /\ 0 \in Numbers /\ Numbers \subseteq Int
  BY BoundAssumption DEF SoundManagers, Managers, Numbers, NoSeq
<1>2. Highest({m.lastSeq, 0}) = IF m.lastSeq <= 0 THEN 0 ELSE m.lastSeq
  BY <1>1, HighestOfTwo
<1>3. Highest({m.lastSeq, 0}) \in Numbers /\ m.lastSeq <= Highest({m.lastSeq, 0})
  BY <1>1, <1>2 DEF SoundManagers, Managers, NoSeq
<1>4. PICK S : S = {u \in m.tickers : m.books[u] # "none"}
  OBVIOUS
<1>5. PICK known : known = {m.seq[t] : t \in S}
  OBVIOUS
<1>6. S \subseteq Tickers /\ known \subseteq Numbers
  BY <1>4, <1>5 DEF SoundManagers, Managers
<1>7. IsFiniteSet(known)
  <2>1. PICK f : f = m.seq
    OBVIOUS
  <2>2. IsFiniteSet(S)
    BY <1>6, SetAssumption, FS_Subset
  <2>3. IsFiniteSet({f[t] : t \in S})
    BY <2>2, FiniteRange
  <2> QED
    BY <1>5, <2>1, <2>3
<1>8. known # {} => Highest(known) \in Numbers
  BY <1>1, <1>6, <1>7, HighestOf
<1>9. DrainBase(m) = IF known = {} THEN Highest({m.lastSeq, 0}) ELSE Highest(known)
  BY <1>4, <1>5 DEF DrainBase
<1> QED
  BY <1>3, <1>8, <1>9

\* and so is the last it deals with.
LEMMA DrainTopType ==
  ASSUME NEW m \in SoundManagers, NEW buffer \in Seq(Messages), buffer # <<>>
  PROVE  /\ DrainTop(m, buffer) \in Numbers /\ DrainBase(m) <= DrainTop(m, buffer)
         /\ buffer[Len(buffer)].seq <= DrainTop(m, buffer)
<1>1. PICK last \in Messages : last = buffer[Len(buffer)]
  <2>1. Len(buffer) \in 1 .. Len(buffer)
    BY EmptySeq
  <2> QED
    BY <2>1, ElementOfSeq
<1>2. PICK base \in Numbers : base = DrainBase(m)
  BY DrainBaseType
<1>3. last.seq \in Numbers /\ Numbers \subseteq Int
  BY BoundAssumption DEF Messages, Numbers
<1>4. PICK end \in Numbers : end = last.seq
  BY <1>3
<1>5. DrainTop(m, buffer) = Highest({base, end})
  BY <1>1, <1>2, <1>4 DEF DrainTop
<1>6. Highest({base, end}) = IF base <= end THEN end ELSE base
  BY <1>3, HighestOfTwo
<1>7. PICK top : top = DrainTop(m, buffer)
  OBVIOUS
<1>8. top \in Numbers /\ base <= top /\ end <= top
  BY <1>3, <1>5, <1>6, <1>7
<1> QED
  BY <1>1, <1>2, <1>4, <1>7, <1>8

\* The manager a drain starts from is sound, and its buffer is empty.
LEMMA DrainStartSound ==
  ASSUME NEW m \in SoundManagers, NEW buffer \in Seq(Messages), buffer # <<>>
  PROVE  /\ DrainStart(m, buffer) \in SoundManagers
         /\ DrainStart(m, buffer).pendingDeltas = <<>>
         /\ DrainStart(m, buffer).books = m.books /\ DrainStart(m, buffer).seq = m.seq
         /\ DrainStart(m, buffer).missing = m.missing
         /\ DrainStart(m, buffer).bootstrap = m.bootstrap
         /\ DrainStart(m, buffer).requests = m.requests
         /\ DrainStart(m, buffer).recovering = m.recovering
         /\ DrainStart(m, buffer).tickers = m.tickers
         /\ DrainStart(m, buffer).lastSeq = DrainBase(m)
         /\ DrainStart(m, buffer).unseen =
              m.unseen \cup ((Highest({m.lastSeq, 0}) + 1 .. DrainTop(m, buffer))
                               \ {buffer[i].seq : i \in DOMAIN buffer})
<1>1. PICK jumped : jumped = (Highest({m.lastSeq, 0}) + 1 .. DrainTop(m, buffer))
                               \ {buffer[i].seq : i \in DOMAIN buffer}
  OBVIOUS
<1>2. jumped \subseteq Numbers
  <2>1. PICK low \in Numbers : low = Highest({m.lastSeq, 0})
    BY DrainBaseType
  <2>2. PICK top \in Numbers : top = DrainTop(m, buffer)
    BY DrainTopType
  <2>3. low + 1 .. top \subseteq Numbers
    BY BoundAssumption DEF Numbers
  <2> QED
    BY <1>1, <2>1, <2>2, <2>3
<1>3. PICK base \in Numbers : base = DrainBase(m)
  BY DrainBaseType
<1>4. PICK x : x = [m EXCEPT !.pendingDeltas = <<>>, !.lastSeq = base, !.unseen = @ \cup jumped]
  OBVIOUS
<1>5. x = DrainStart(m, buffer)
  BY <1>1, <1>3, <1>4 DEF DrainStart
<1>6. <<>> \in Seq(Messages)
  BY EmptySeq
<1>7. x \in Managers
  BY <1>2, <1>4, <1>6 DEF SoundManagers, Managers
<1>8. /\ x.pendingDeltas = <<>> /\ x.books = m.books /\ x.seq = m.seq /\ x.missing = m.missing
      /\ x.bootstrap = m.bootstrap /\ x.requests = m.requests /\ x.recovering = m.recovering
      /\ x.tickers = m.tickers /\ x.lastSeq = base /\ x.unseen = m.unseen \cup jumped
  BY <1>4 DEF SoundManagers, Managers
<1>9. x \in SoundManagers
  BY <1>7, <1>8 DEF SoundManagers, Served
<1> QED
  BY <1>1, <1>3, <1>5, <1>8, <1>9

\* The table that DrainBuffer makes of the buffer it drains.
Replays(after, m, buffer) ==
  after = [n \in 0 .. Len(buffer) |->
             IF n = 0 THEN {DrainStart(m, buffer)}
             ELSE UNION {DrainOne(x, buffer[n]) : x \in after[n - 1]}]

\* DrainBuffer reads the last row of that table.
LEMMA DrainBufferReplays ==
  ASSUME NEW m \in SoundManagers, NEW buffer \in Seq(Messages), buffer # <<>>,
         buffer = InOrder(m.pendingDeltas)
  PROVE  \E after : Replays(after, m, buffer) /\ DrainBuffer(m) = after[Len(buffer)]
<1>1. PICK n \in Nat : n = Len(buffer) /\ \A i \in 1 .. n : buffer[i] \in Messages
  BY LenProperties, ElementOfSeq
<1>2. PICK V : V = SUBSET SoundManagers
  OBVIOUS
<1>3. PICK first : first = {DrainStart(m, buffer)}
  OBVIOUS
<1> DEFINE Step(ms, i) == UNION {DrainOne(x, buffer[i]) : x \in ms}
           step == [i \in 1 .. n |-> [ms \in V |-> Step(ms, i)]]
<1>4. \A i \in 1 .. n : \A ms \in V : Step(ms, i) \in V
  BY <1>1, <1>2, DrainOneSound
<1>5. first \in V
  BY <1>2, <1>3, DrainStartSound
<1> HIDE DEF Step
<1>6. step \in [1 .. n -> [V -> V]]
  BY <1>4
<1>7. PICK f : Recursion(f, n, V, first, step)
  <2> HIDE DEF step
  <2> QED
    BY <1>5, <1>6, RecursionExists
<1>8. /\ f \in [0 .. n -> V] /\ f[0] = first
      /\ \A i \in 1 .. n : f[i] = Step(f[i - 1], i)
  <2>1. f \in [0 .. n -> V] /\ f[0] = first /\ \A i \in 1 .. n : f[i] = step[i][f[i - 1]]
    <3> HIDE DEF step
    <3> QED
      BY <1>7 DEF Recursion
  <2>2. ASSUME NEW i \in 1 .. n PROVE step[i][f[i - 1]] = Step(f[i - 1], i)
    <3>1. f[i - 1] \in V
      BY <2>1
    <3> QED
      BY <3>1
  <2> HIDE DEF step
  <2> QED
    BY <2>1, <2>2
<1>9. Replays(f, m, buffer)
  <2>1. \A i \in 0 .. n : f[i] = IF i = 0 THEN first ELSE Step(f[i - 1], i)
    BY <1>8
  <2>2. f = [i \in 0 .. n |-> f[i]]
    BY <1>8
  <2>3. f = [i \in 0 .. n |-> IF i = 0 THEN first ELSE Step(f[i - 1], i)]
    BY <2>1, <2>2
  <2> QED
    BY <1>1, <1>3, <2>3 DEF Replays, Step
<1> DEFINE c == CHOOSE g : Replays(g, m, buffer)
<1>10. Replays(c, m, buffer)
  BY <1>9
<1>11. DrainBuffer(m) = c[Len(buffer)]
  BY DEF DrainBuffer, Replays
<1> QED
  BY <1>10, <1>11

\* Each row of it is drained from the one before.
LEMMA ReplayRows ==
  ASSUME NEW m \in SoundManagers, NEW buffer \in Seq(Messages), NEW after, Replays(after, m, buffer)
  PROVE  /\ after[0] = {DrainStart(m, buffer)}
         /\ \A i \in 1 .. Len(buffer) :
              \A y \in after[i] : \E x \in after[i - 1] : y \in DrainOne(x, buffer[i])
<1>1. PICK n \in Nat : n = Len(buffer)
  BY LenProperties
<1>2. PICK first : first = {DrainStart(m, buffer)}
  OBVIOUS
<1> DEFINE Step(ms, i) == UNION {DrainOne(x, buffer[i]) : x \in ms}
<1>3. after = [i \in 0 .. n |-> IF i = 0 THEN first ELSE Step(after[i - 1], i)]
  BY <1>1, <1>2 DEF Replays
<1> HIDE DEF Step
<1>5. after[0] = first
  <2>1. 0 \in 0 .. n
    OBVIOUS
  <2> QED
    BY <1>3, <2>1
<1>6. ASSUME NEW i \in 1 .. n PROVE after[i] = Step(after[i - 1], i)
  <2>1. i \in 0 .. n /\ i # 0
    OBVIOUS
  <2> QED
    BY <1>3, <2>1
<1>4. /\ after[0] = first
      /\ \A i \in 1 .. n : after[i] = UNION {DrainOne(x, buffer[i]) : x \in after[i - 1]}
  BY <1>5, <1>6 DEF Step
<1> QED
  BY <1>1, <1>2, <1>4

\* The drain leaves sound managers.
LEMMA DrainBufferSound ==
  ASSUME NEW m \in SoundManagers
  PROVE  DrainBuffer(m) \in SUBSET SoundManagers
<1>1. PICK buffer \in Seq(Messages) : buffer = InOrder(m.pendingDeltas)
  BY InOrderType DEF SoundManagers, Managers
<1>2. CASE buffer = <<>>
  BY <1>1, <1>2 DEF DrainBuffer
<1>3. CASE buffer # <<>>
  <2>1. PICK after : Replays(after, m, buffer) /\ DrainBuffer(m) = after[Len(buffer)]
    BY <1>1, <1>3, DrainBufferReplays
  <2>2. PICK n \in Nat : n = Len(buffer) /\ \A i \in 1 .. n : buffer[i] \in Messages
    BY LenProperties, ElementOfSeq
  <2> DEFINE P == {i \in 0 .. n : after[i] \in SUBSET SoundManagers}
  <2>3. 0 \in P
    <3>1. after[0] = {DrainStart(m, buffer)}
      BY <2>1, ReplayRows
    <3>2. DrainStart(m, buffer) \in SoundManagers
      BY <1>3, DrainStartSound
    <3> QED
      BY <3>1, <3>2
  <2>4. ASSUME NEW i \in 1 .. n, i - 1 \in P PROVE i \in P
    BY <2>1, <2>2, <2>4, ReplayRows, DrainOneSound
  <2>5. n \in P
    <3> HIDE DEF P
    <3> QED
      BY <2>3, <2>4, Climb
  <2> QED
    BY <2>1, <2>2, <2>5
<1> QED
  BY <1>2, <1>3

-----------------------------------------------------------------------------
(* Answers and messages                                                    *)

\* The manager whose recovery has been answered, before its buffer is drained.
Completed(m) == [m EXCEPT !.recovering = FALSE, !.failures = 0, !.disabled = FALSE]

\* It has the books, numbers and requests it had.
LEMMA CompletedSound ==
  ASSUME NEW m \in SoundManagers
  PROVE  /\ Completed(m) \in SoundManagers /\ SameView(Completed(m), m)
         /\ Completed(m).requests = m.requests /\ ~Completed(m).recovering
<1>1. Completed(m) \in Managers
  BY DEF SoundManagers, Managers, Completed
<1>2. /\ SameView(Completed(m), m) /\ Completed(m).requests = m.requests
      /\ ~Completed(m).recovering
  BY DEF SoundManagers, Managers, SameView, Completed
<1> QED
  BY <1>1, <1>2, SameViewFollows

\* An answer, the last or not, leaves sound managers.
LEMMA CompleteIfAnsweredSound ==
  ASSUME NEW m \in SoundManagers
  PROVE  CompleteIfAnswered(m) \in SUBSET SoundManagers
  BY CompletedSound, DrainBufferSound DEF CompleteIfAnswered, Completed

\* The managers that tick off a market in one chunk that has it.
TickOffs(m, t) ==
  IF {i \in Ids : t \in m.requests[i]} = {} THEN {m}
  ELSE {[m EXCEPT !.requests[i] = @ \ {t}] : i \in {i \in Ids : t \in m.requests[i]}}

\* Ticking a market off changes requests only, and only takes from them.
LEMMA TickOffSound ==
  ASSUME NEW m \in SoundManagers, NEW t, NEW x \in TickOffs(m, t)
  PROVE  /\ x \in SoundManagers /\ SameView(x, m) /\ x.recovering = m.recovering
         /\ \A i \in Ids : x.requests[i] \subseteq m.requests[i]
<1>1. CASE x = m
  BY <1>1 DEF SameView
<1>2. CASE \E i \in Ids : x = [m EXCEPT !.requests[i] = @ \ {t}]
  <2>1. PICK i \in Ids : x = [m EXCEPT !.requests[i] = @ \ {t}]
    BY <1>2
  <2>2. PICK r : r = [m.requests EXCEPT ![i] = @ \ {t}]
    OBVIOUS
  <2>3. r \in [Ids -> SUBSET Tickers] /\ \A j \in Ids : r[j] \subseteq m.requests[j]
    BY <2>2 DEF SoundManagers, Managers
  <2>4. x = [m EXCEPT !.requests = r]
    BY <2>1, <2>2 DEF SoundManagers, Managers
  <2>5. x \in Managers
    BY <2>3, <2>4 DEF SoundManagers, Managers
  <2>6. SameView(x, m) /\ x.recovering = m.recovering /\ x.requests = r
    BY <2>4 DEF SoundManagers, Managers, SameView
  <2> QED
    BY <2>3, <2>5, <2>6, SameViewFollows
<1> QED
  BY <1>1, <1>2 DEF TickOffs

\* A recovery snapshot renews the book, is ticked off, and may complete the recovery.
LEMMA RecoverySnapshotSteps ==
  ASSUME NEW m, NEW msg, NEW z \in RecoverySnapshot(m, msg)
  PROVE  \E x \in ApplySnapshot(m, msg) :
           \E y \in TickOffs(x, msg.ticker) : z \in CompleteIfAnswered(y)
  BY DEF RecoverySnapshot, TickOffs

\* It leaves sound managers.
LEMMA RecoverySnapshotSound ==
  ASSUME NEW m \in SoundManagers, NEW msg, msg.seq \in Numbers, msg.ticker \in m.tickers
  PROVE  RecoverySnapshot(m, msg) \in SUBSET SoundManagers
<1>1. ApplySnapshot(m, msg) \in SUBSET SoundManagers
  BY ApplySnapshotSound
<1> QED
  BY <1>1, RecoverySnapshotSteps, TickOffSound, CompleteIfAnsweredSound

\* A message that is kept is appended to the buffer, and nothing else changes.
LEMMA KeepSound ==
  ASSUME NEW m \in SoundManagers, NEW msg \in Messages
  PROVE  /\ Keep(m, msg) \in SoundManagers
         /\ Keep(m, msg).pendingDeltas = Append(m.pendingDeltas, msg)
         /\ Keep(m, msg).books = m.books /\ Keep(m, msg).seq = m.seq
         /\ Keep(m, msg).missing = m.missing /\ Keep(m, msg).bootstrap = m.bootstrap
         /\ Keep(m, msg).lastSeq = m.lastSeq /\ Keep(m, msg).tickers = m.tickers
         /\ Keep(m, msg).unseen = m.unseen /\ Keep(m, msg).requests = m.requests
         /\ Keep(m, msg).recovering = m.recovering
<1>1. PICK q \in Seq(Messages) : q = Append(m.pendingDeltas, msg)
  BY AppendProperties DEF SoundManagers, Managers
<1>2. Keep(m, msg) = [m EXCEPT !.pendingDeltas = q]
  BY <1>1 DEF Keep
<1>3. Keep(m, msg) \in Managers
  BY <1>2 DEF SoundManagers, Managers
<1>4. /\ Keep(m, msg).pendingDeltas = q
      /\ Keep(m, msg).books = m.books /\ Keep(m, msg).seq = m.seq
      /\ Keep(m, msg).missing = m.missing /\ Keep(m, msg).bootstrap = m.bootstrap
      /\ Keep(m, msg).lastSeq = m.lastSeq /\ Keep(m, msg).tickers = m.tickers
      /\ Keep(m, msg).unseen = m.unseen /\ Keep(m, msg).requests = m.requests
      /\ Keep(m, msg).recovering = m.recovering
  BY <1>2 DEF SoundManagers, Managers
<1> QED
  BY <1>1, <1>3, <1>4 DEF SoundManagers, Served

\* The baseline put at k, and more of the history unseen.
Moved(m, k, more) == [m EXCEPT !.lastSeq = k, !.unseen = @ \cup more]

\* What is moved, and what is not.
Shifted(x, m, k, more) ==
  /\ x.lastSeq = k /\ x.unseen = m.unseen \cup more
  /\ x.books = m.books /\ x.seq = m.seq /\ x.missing = m.missing
  /\ x.bootstrap = m.bootstrap /\ x.tickers = m.tickers
  /\ x.pendingDeltas = m.pendingDeltas /\ x.requests = m.requests
  /\ x.recovering = m.recovering

\* The manager is as sound as it was.
LEMMA MovedSound ==
  ASSUME NEW m \in SoundManagers, NEW k \in Numbers \cup {NoSeq}, NEW more \in SUBSET Numbers,
         NEW x, x = Moved(m, k, more)
  PROVE  x \in SoundManagers /\ Shifted(x, m, k, more)
<1>1. x \in Managers
  BY DEF SoundManagers, Managers, Moved
<1>2. Shifted(x, m, k, more)
  BY DEF SoundManagers, Managers, Moved, Shifted
<1> QED
  BY <1>1, <1>2, AsSound DEF Shifted

\* With nothing more unseen only the baseline differs.
LEMMA MovedOnly ==
  ASSUME NEW m \in SoundManagers, NEW k
  PROVE  Moved(m, k, {}) = [m EXCEPT !.lastSeq = k]
<1>1. m.unseen \cup {} = m.unseen
  OBVIOUS
<1> QED
  BY <1>1 DEF SoundManagers, Managers, Moved

\* A message given up is unseen from then on, and nothing else changes.
LEMMA DroppedSound ==
  ASSUME NEW m \in SoundManagers, NEW msg \in Messages, NEW x, x = Dropped(m, msg)
  PROVE  /\ x \in SoundManagers /\ x.lastSeq = m.lastSeq /\ x.unseen = m.unseen \cup {msg.seq}
         /\ x.books = m.books /\ x.seq = m.seq /\ x.missing = m.missing
         /\ x.bootstrap = m.bootstrap /\ x.tickers = m.tickers
         /\ x.pendingDeltas = m.pendingDeltas /\ x.requests = m.requests
         /\ x.recovering = m.recovering
<1>1. {msg.seq} \in SUBSET Numbers /\ m.lastSeq \in Numbers \cup {NoSeq}
  BY DEF Messages, SoundManagers, Managers
<1>2. x = [m EXCEPT !.lastSeq = m.lastSeq, !.unseen = @ \cup {msg.seq}]
  BY DEF Dropped, SoundManagers, Managers
<1>3. PICK more : more = {msg.seq}
  OBVIOUS
<1>4. PICK k : k = m.lastSeq
  OBVIOUS
<1>5. x = Moved(m, k, more)
  BY <1>2, <1>3, <1>4 DEF Moved
<1>6. k \in Numbers \cup {NoSeq} /\ more \in SUBSET Numbers
  BY <1>1, <1>3, <1>4
<1>7. x \in SoundManagers /\ Shifted(x, m, k, more)
  BY <1>5, <1>6, MovedSound
<1> QED
  BY <1>3, <1>4, <1>7 DEF Shifted

\* A number is consumed, unless the sid has no baseline.
Consumed(m, k) == IF m.lastSeq = NoSeq THEN m ELSE Advance(m, k)

\* What becomes of a delta of t at k, by its outcome o: queued, a desync, or applied, with the
\* recovery that the last two try.
SequenceStep(z, o, t, k) ==
  \/ o.did = "queued" /\ (z = o.m \/ z = Advance(o.m, k))
  \/ /\ o.did = "desync"
     /\ \E q \in TryRecovery(MarkStale(Consumed(o.m, k), {t}), FALSE) : z = q.m
  \/ /\ o.did = "applied"
     /\ \/ z = Advance(o.m, k)
        \/ \E q \in TryRecovery(MarkStale(o.m, {t}), FALSE) : z = q.m \/ z = Advance(q.m, k)

\* Every delta in sequence does one of these.
LEMMA InSequenceSteps ==
  ASSUME NEW m, NEW msg, msg.kind # "snapshot", NEW k, k = msg.seq, NEW t, t = msg.ticker,
         NEW z \in InSequence(m, msg)
  PROVE  \E o \in ApplyDelta(m, msg) : SequenceStep(z, o, t, k)
<1> DEFINE Quarantine(x) == TryRecovery(MarkStale(x, {msg.ticker}), FALSE)
           Counted(x) == IF x.lastSeq = NoSeq THEN x ELSE Advance(x, msg.seq)
           After(o) ==
             CASE o.did = "queued" ->
                    {IF o.m.books[msg.ticker] = "stale" THEN Advance(o.m, msg.seq) ELSE o.m}
               [] o.did = "desync" -> {q.m : q \in Quarantine(Counted(o.m))}
               [] o.did = "applied" ->
                    {Advance(o.m, msg.seq)}
                    \cup When(o.m.missing[msg.ticker] # {},
                           {IF q.did = "raised" THEN q.m ELSE Advance(q.m, msg.seq) :
                              q \in Quarantine(o.m)})
<1>1. PICK o \in ApplyDelta(m, msg) : z \in After(o)
  <2>1. InSequence(m, msg) = UNION {After(o) : o \in ApplyDelta(m, msg)}
    BY DEF InSequence
  <2> HIDE DEF After
  <2> QED
    BY <2>1
<1> HIDE DEF Quarantine, Counted
<1>2. \A x : Counted(x) = Consumed(x, k)
  BY DEF Counted, Consumed
<1>3. \A x : Quarantine(x) = TryRecovery(MarkStale(x, {t}), FALSE)
  BY DEF Quarantine
<1>4. o.did \in {"queued", "desync", "applied"}
  BY DEF ApplyDelta, When
<1>5. CASE o.did = "queued"
  <2>1. z = o.m \/ z = Advance(o.m, k)
    BY <1>1, <1>5
  <2> QED
    BY <1>5, <2>1 DEF SequenceStep
<1>6. CASE o.did = "desync"
  <2>1. PICK q \in Quarantine(Counted(o.m)) : z = q.m
    BY <1>1, <1>6
  <2> QED
    BY <1>2, <1>3, <1>6, <2>1 DEF SequenceStep
<1>7. CASE o.did = "applied"
  <2>1. z = Advance(o.m, k) \/ \E q \in Quarantine(o.m) : z = q.m \/ z = Advance(q.m, k)
    BY <1>1, <1>7 DEF When
  <2> QED
    BY <1>3, <1>7, <2>1 DEF SequenceStep
<1> QED
  BY <1>4, <1>5, <1>6, <1>7

\* A message in sequence leaves sound managers.
LEMMA InSequenceSound ==
  ASSUME NEW m \in SoundManagers, NEW msg \in Messages, msg.ticker \in m.tickers, AnswersType
  PROVE  InSequence(m, msg) \in SUBSET SoundManagers
<1> SUFFICES ASSUME NEW z \in InSequence(m, msg) PROVE z \in SoundManagers
  OBVIOUS
<1>1. PICK k \in Numbers, t \in Tickers : k = msg.seq /\ t = msg.ticker
  BY DEF Messages
<1>2. CASE msg.kind = "snapshot"
  BY <1>1, <1>2, ApplySnapshotSound, AdvanceSound DEF InSequence
<1>3. CASE msg.kind # "snapshot"
  <2>1. PICK o \in ApplyDelta(m, msg) : SequenceStep(z, o, t, k)
    BY <1>1, <1>3, InSequenceSteps
  <2>2. o.m \in SoundManagers
    BY ApplyDeltaSound DEF Outcomes
  <2>3. ASSUME NEW x \in SoundManagers, NEW q \in TryRecovery(MarkStale(x, {t}), FALSE)
        PROVE  q.m \in SoundManagers
    <3>1. PICK y \in SoundManagers : y = MarkStale(x, {t})
      BY MarkStaleSound
    <3>2. q \in TryRecovery(y, FALSE)
      BY <2>3, <3>1
    <3> QED
      BY <3>2, TryRecoverySound
  <2>4. ASSUME NEW x \in SoundManagers
        PROVE  Advance(x, k) \in SoundManagers /\ Consumed(x, k) \in SoundManagers
    BY AdvanceSound DEF Consumed
  <2> QED
    BY <2>1, <2>2, <2>3, <2>4 DEF SequenceStep
<1> QED
  BY <1>2, <1>3

\* The baseline jumps over a gap while the sid is disabled, which hides what the gap held.
Swallowed(m, msg) ==
  [m EXCEPT !.lastSeq = msg.seq, !.unseen = @ \cup (m.lastSeq + 1 .. msg.seq)]

\* The message of a gap is kept in the buffer of the recovery it starts, jumped over, or left.
GapStep(z, o, msg) ==
  \/ o.did = "started" /\ z = Keep(o.m, msg)
  \/ o.did = "nothing" /\ z = [o.m EXCEPT !.lastSeq = msg.seq]
  \/ o.did # "started" /\ z = o.m

\* A gap is swallowed, or leaves what the recovery it tries leaves.
LEMMA GapSteps ==
  ASSUME NEW m \in SoundManagers, NEW msg \in Messages, NEW z \in Gap(m, msg),
         NEW r, r = IF m.disabled THEN Rearm(m) ELSE m
  PROVE  \/ m.disabled /\ z = Swallowed(m, msg)
         \/ \E o \in TryRecovery(r, TRUE) : GapStep(z, o, msg)
<1> DEFINE After(o) ==
             CASE o.did = "started" -> Keep(o.m, msg)
               [] o.did = "nothing" /\ ~o.m.disabled -> [o.m EXCEPT !.lastSeq = msg.seq]
               [] OTHER -> o.m
<1>1. z \in When(m.disabled, {Swallowed(m, msg)}) \cup {After(o) : o \in TryRecovery(r, TRUE)}
  BY DEF Gap, Swallowed
<1>2. ASSUME NEW o \in TryRecovery(r, TRUE), z = After(o) PROVE GapStep(z, o, msg)
  BY <1>2 DEF GapStep
<1> HIDE DEF After
<1> QED
  BY <1>1, <1>2 DEF When

\* It leaves sound managers.
LEMMA GapSound ==
  ASSUME NEW m \in SoundManagers, NEW msg \in Messages, AnswersType
  PROVE  Gap(m, msg) \in SUBSET SoundManagers
<1> SUFFICES ASSUME NEW z \in Gap(m, msg) PROVE z \in SoundManagers
  OBVIOUS
<1>1. msg.seq \in Numbers
  BY DEF Messages
<1>2. m.lastSeq + 1 .. msg.seq \in SUBSET Numbers
  <2>1. m.lastSeq + 1 \in Nat
    BY BoundAssumption DEF SoundManagers, Managers, Numbers, NoSeq
  <2> QED
    BY <1>1, <2>1, BoundAssumption DEF Numbers
<1>8. PICK r \in SoundManagers : r = IF m.disabled THEN Rearm(m) ELSE m
  BY RearmSound
<1>3. ASSUME NEW o \in TryRecovery(r, TRUE)
      PROVE  o.m \in SoundManagers
  BY <1>3, TryRecoverySound
<1>4. ASSUME NEW x \in SoundManagers PROVE [x EXCEPT !.lastSeq = msg.seq] \in SoundManagers
  <2>1. PICK y : y = Moved(x, msg.seq, {})
    OBVIOUS
  <2>2. y \in SoundManagers
    BY <1>1, <2>1, MovedSound
  <2> QED
    BY <2>1, <2>2, MovedOnly
<1>5. PICK more \in SUBSET Numbers : more = m.lastSeq + 1 .. msg.seq
  BY <1>2
<1>6. CASE z = Swallowed(m, msg)
  <2>1. z = Moved(m, msg.seq, more)
    BY <1>5, <1>6 DEF Moved, Swallowed
  <2> QED
    BY <1>1, <2>1, MovedSound
<1>7. ASSUME NEW o \in TryRecovery(r, TRUE), GapStep(z, o, msg)
      PROVE  z \in SoundManagers
  <2>1. PICK y \in SoundManagers : y = o.m
    BY <1>3
  <2>2. Keep(y, msg) \in SoundManagers
    BY KeepSound
  <2>3. [y EXCEPT !.lastSeq = msg.seq] \in SoundManagers
    BY <1>4
  <2> QED
    BY <1>7, <2>1, <2>2, <2>3 DEF GapStep
<1>9. z = Swallowed(m, msg) \/ \E o \in TryRecovery(r, TRUE) : GapStep(z, o, msg)
  BY <1>8, GapSteps
<1> QED
  BY <1>6, <1>7, <1>9

\* A recovering sid keeps the message, restarted or as it was, unless a send raised.
LEMMA BufferItSteps ==
  ASSUME NEW m \in SoundManagers, NEW msg \in Messages, AnswersType, NEW z \in BufferIt(m, msg)
  PROVE  \E o : /\ Restarted(o, m) \/ o = [did |-> "nothing", m |-> m]
                /\ z = IF o.did = "raised" THEN Dropped(o.m, msg)
                       ELSE IF o.m.recovering THEN Keep(o.m, msg)
                       ELSE Dropped(Keep(o.m, msg), msg)
<1>1. PICK o \in AbortAndRestart(m, TRUE) \cup AbortAndRestart(m, FALSE)
                \cup {[did |-> "nothing", m |-> m]} :
        z = IF o.did = "raised" THEN Dropped(o.m, msg)
            ELSE IF o.m.recovering THEN Keep(o.m, msg)
            ELSE Dropped(Keep(o.m, msg), msg)
  BY DEF BufferIt
<1>2. Restarted(o, m) \/ o = [did |-> "nothing", m |-> m]
  BY <1>1, AbortAndRestartSound
<1> QED
  BY <1>1, <1>2

\* It leaves sound managers.
LEMMA BufferItSound ==
  ASSUME NEW m \in SoundManagers, NEW msg \in Messages, AnswersType
  PROVE  BufferIt(m, msg) \in SUBSET SoundManagers
<1>1. ASSUME NEW x \in SoundManagers
      PROVE  /\ Keep(x, msg) \in SoundManagers /\ Dropped(x, msg) \in SoundManagers
             /\ Dropped(Keep(x, msg), msg) \in SoundManagers
  BY KeepSound, DroppedSound
<1>2. ASSUME NEW z \in BufferIt(m, msg) PROVE z \in SoundManagers
  <2>1. PICK o : /\ Restarted(o, m) \/ o = [did |-> "nothing", m |-> m]
                 /\ z = IF o.did = "raised" THEN Dropped(o.m, msg)
                        ELSE IF o.m.recovering THEN Keep(o.m, msg)
                        ELSE Dropped(Keep(o.m, msg), msg)
    BY <1>2, BufferItSteps
  <2>2. o.m \in SoundManagers
    BY <2>1 DEF Recovered, Restarted
  <2> QED
    BY <1>1, <2>1, <2>2
<1> QED
  BY <1>2

\* The dispatch of a message leaves sound managers.
LEMMA DispatchSound ==
  ASSUME NEW m \in SoundManagers, NEW msg \in Messages, msg.ticker \in m.tickers, AnswersType
  PROVE  Dispatch(m, msg) \in SUBSET SoundManagers
  BY BufferItSound, GapSound, InSequenceSound DEF Dispatch

\* The manager that a message of market t makes known t.
Knows(m, t) == [m EXCEPT !.tickers = @ \cup {t}]

\* Nothing else of it changes.
LEMMA KnowsSound ==
  ASSUME NEW m \in SoundManagers, NEW t \in Tickers, NEW x, x = Knows(m, t)
  PROVE  /\ x \in SoundManagers /\ x.tickers = m.tickers \cup {t} /\ x.requests = m.requests
         /\ x.books = m.books /\ x.seq = m.seq /\ x.missing = m.missing
         /\ x.bootstrap = m.bootstrap /\ x.lastSeq = m.lastSeq
         /\ x.pendingDeltas = m.pendingDeltas /\ x.unseen = m.unseen
         /\ x.recovering = m.recovering /\ x.disabled = m.disabled
<1>1. x \in Managers
  BY DEF SoundManagers, Managers, Knows
<1>2. /\ x.tickers = m.tickers \cup {t} /\ x.requests = m.requests
      /\ x.books = m.books /\ x.seq = m.seq /\ x.missing = m.missing
      /\ x.bootstrap = m.bootstrap /\ x.lastSeq = m.lastSeq
      /\ x.pendingDeltas = m.pendingDeltas /\ x.unseen = m.unseen
      /\ x.recovering = m.recovering /\ x.disabled = m.disabled
  BY DEF SoundManagers, Managers, Knows
<1> QED
  BY <1>1, <1>2 DEF SoundManagers, Served

\* A scheduled recovery does nothing, or starts from a sid that has none under way.
LEMMA FireDeferredSteps ==
  ASSUME NEW m \in SoundManagers, NEW msg, AnswersType, NEW o \in FireDeferred(m, msg)
  PROVE  \/ o = [did |-> "nothing", m |-> m]
         \/ /\ ~m.recovering /\ ~IsGap(m, msg)
            /\ o.did \in {"nothing", "started", "raised"} /\ o.m \in SoundManagers
            /\ Follows(o.m, m)
            /\ Quiet(m) => Recovered(o, m)
<1>1. PICK x : x = [m EXCEPT !.deferred = FALSE]
  OBVIOUS
<1>2. x \in Managers
  BY <1>1 DEF SoundManagers, Managers
<1>3. SameView(x, m) /\ x.requests = m.requests /\ x.recovering = m.recovering
  BY <1>1 DEF SoundManagers, Managers, SameView
<1>4. x \in SoundManagers /\ Follows(x, m)
  BY <1>2, <1>3, SameViewFollows
<1>5. Quiet(m) => Quiet(x)
  BY <1>3 DEF Quiet, Idle
<1>6. ASSUME o \in StartRecovery(x, TRUE, FALSE)
      PROVE  /\ o.did \in {"nothing", "started", "raised"} /\ o.m \in SoundManagers
             /\ Follows(o.m, x)
             /\ Quiet(x) => Recovered(o, x)
  BY <1>4, <1>6, StartRecoverySound
<1>7. ASSUME o \in StartRecovery(x, TRUE, FALSE)
      PROVE  Follows(o.m, m) /\ (Quiet(m) => Recovered(o, m))
  BY <1>4, <1>5, <1>6, <1>7, FollowsTransitive DEF Recovered
<1> QED
  BY <1>1, <1>6, <1>7 DEF FireDeferred, When

\* A message is a recovery snapshot, or dispatched, or taken by a scheduled recovery first.
LEMMA HandleMessageSteps ==
  ASSUME NEW m \in SoundManagers, NEW msg \in Messages, AnswersType,
         NEW x, x = Knows(m, msg.ticker), NEW z \in HandleMessage(m, msg)
  PROVE  \/ msg.kind = "snapshot" /\ x.recovering /\ z \in RecoverySnapshot(x, msg)
         \/ z \in Dispatch(x, msg)
         \/ \E o \in FireDeferred(x, msg) :
              /\ ~x.recovering /\ ~IsGap(x, msg)
              /\ o.m \in SoundManagers /\ Follows(o.m, x)
              /\ Quiet(x) => Recovered(o, x)
              /\ \/ o.did = "raised" /\ z = Dropped(o.m, msg)
                 \/ o.did = "started" /\ z = Keep(o.m, msg)
                 \/ o.did = "nothing" /\ z \in Dispatch(o.m, msg)
<1>1. x \in SoundManagers
  BY KnowsSound DEF Messages
<1>2. \/ msg.kind = "snapshot" /\ x.recovering /\ z \in RecoverySnapshot(x, msg)
      \/ \E o \in FireDeferred(x, msg) :
           z \in CASE o.did = "raised" -> {Dropped(o.m, msg)}
                   [] o.did = "started" -> {Keep(o.m, msg)}
                   [] o.did = "nothing" -> Dispatch(o.m, msg)
  BY DEF HandleMessage, Knows
<1>3. ASSUME NEW o \in FireDeferred(x, msg),
             z \in CASE o.did = "raised" -> {Dropped(o.m, msg)}
                     [] o.did = "started" -> {Keep(o.m, msg)}
                     [] o.did = "nothing" -> Dispatch(o.m, msg)
      PROVE  \/ z \in Dispatch(x, msg)
             \/ /\ ~x.recovering /\ ~IsGap(x, msg)
                /\ o.m \in SoundManagers /\ Follows(o.m, x)
                /\ Quiet(x) => Recovered(o, x)
                /\ \/ o.did = "raised" /\ z = Dropped(o.m, msg)
                   \/ o.did = "started" /\ z = Keep(o.m, msg)
                   \/ o.did = "nothing" /\ z \in Dispatch(o.m, msg)
  <2>1. \/ o = [did |-> "nothing", m |-> x]
        \/ /\ ~x.recovering /\ ~IsGap(x, msg)
           /\ o.did \in {"nothing", "started", "raised"} /\ o.m \in SoundManagers
           /\ Follows(o.m, x)
           /\ Quiet(x) => Recovered(o, x)
    BY <1>1, <1>3, FireDeferredSteps
  <2>2. CASE o = [did |-> "nothing", m |-> x]
    <3>1. o.did = "nothing" /\ o.m = x
      BY <2>2
    <3> QED
      BY <1>3, <3>1
  <2>3. CASE o.did = "nothing"
    BY <1>3, <2>1, <2>2, <2>3
  <2>4. CASE o.did = "started"
    BY <1>3, <2>1, <2>2, <2>4
  <2>5. CASE o.did = "raised"
    BY <1>3, <2>1, <2>2, <2>5
  <2> QED
    BY <2>1, <2>2, <2>3, <2>4, <2>5
<1> QED
  BY <1>2, <1>3

\* A message leaves sound managers,
LEMMA HandleMessageSound ==
  ASSUME NEW m \in SoundManagers, NEW msg \in Messages, AnswersType
  PROVE  HandleMessage(m, msg) \in SUBSET SoundManagers
<1> SUFFICES ASSUME NEW z \in HandleMessage(m, msg) PROVE z \in SoundManagers
  OBVIOUS
<1>1. PICK x : x = Knows(m, msg.ticker)
  OBVIOUS
<1>2. x \in SoundManagers /\ msg.ticker \in x.tickers /\ msg.seq \in Numbers
  BY <1>1, KnowsSound DEF Messages
<1>3. ASSUME NEW o, o.m \in SoundManagers, Follows(o.m, x) PROVE msg.ticker \in o.m.tickers
  BY <1>2, <1>3 DEF Follows
<1>4. ASSUME NEW y \in SoundManagers
      PROVE  Keep(y, msg) \in SoundManagers /\ Dropped(y, msg) \in SoundManagers
  BY KeepSound, DroppedSound
<1>5. RecoverySnapshot(x, msg) \in SUBSET SoundManagers
  BY <1>2, RecoverySnapshotSound
<1>6. ASSUME NEW y \in SoundManagers, msg.ticker \in y.tickers
      PROVE  Dispatch(y, msg) \in SUBSET SoundManagers
  BY <1>6, DispatchSound
<1> QED
  BY <1>1, <1>2, <1>3, <1>4, <1>5, <1>6, HandleMessageSteps

\* and so does an answer.
LEMMA HandleAnswerSound ==
  ASSUME NEW m \in SoundManagers, NEW id, NEW msg, msg.seq \in Numbers, msg.ticker \in Tickers
  PROVE  HandleAnswer(m, id, msg) \in SUBSET SoundManagers
<1>1. PICK x : x = Knows(m, msg.ticker)
  OBVIOUS
<1>2. x \in SoundManagers /\ msg.ticker \in x.tickers
  BY <1>1, KnowsSound
<1> QED
  BY <1>1, <1>2, RecoverySnapshotSound DEF HandleAnswer, Knows

-----------------------------------------------------------------------------
(* Type correctness, and a gap blinds every book                           *)

\* What the log records of a message.
Entries == [ticker : Tickers, kind : Kinds, lost : BOOLEAN, shown : Nat]

\* The seed task waits to register a request only while it has one.
SeedingSound ==
  /\ seeding \in [chunks : Seq(SUBSET Tickers), id : Ids \cup {NoId}]
  /\ seeding.id # NoId => seeding.chunks # <<>>

\* The inductive invariant behind type correctness.
Sound ==
  /\ log \in Seq(Entries) /\ Len(log) <= MaxSeq
  /\ closed \subseteq Tickers
  /\ AnswersType
  /\ SeedingSound
  /\ mgr \in SoundManagers

\* The initial state is sound.
LEMMA SoundInit == Init => Sound
<1> SUFFICES ASSUME Init PROVE Sound
  OBVIOUS
<1>1. PICK e : e = <<>>
  OBVIOUS
<1>2. e \in Seq(Messages) /\ e \in Seq(Entries) /\ e \in Seq(SUBSET Tickers) /\ Len(e) = 0
  BY <1>1, EmptySeq
<1>3. 0 \in Numbers /\ 0 <= MaxSeq /\ 0 <= BootCap /\ 0 \in 0 .. MaxFaults
  BY BoundAssumption DEF Numbers
<1>4. log \in Seq(Entries) /\ Len(log) <= MaxSeq
  BY <1>1, <1>2, <1>3 DEF Init
<1>5. closed \subseteq Tickers /\ AnswersType
  BY DEF Init, AnswersType
<1>6. SeedingSound
  BY <1>1, <1>2 DEF Init, SeedingSound
<1>7. mgr \in Managers
  BY <1>1, <1>2, <1>3 DEF Init, Managers
<1>8. \A t \in Tickers : mgr.books[t] = "none" /\ mgr.bootstrap[t] = e
  BY <1>1 DEF Init
<1>9. mgr \in SoundManagers
  BY <1>2, <1>3, <1>7, <1>8 DEF SoundManagers, Served
<1> QED
  BY <1>4, <1>5, <1>6, <1>9 DEF Sound

\* A manager none of whose books, queues and markets change is as sound as it was.
LEMMA FaultSound ==
  ASSUME NEW m \in SoundManagers, NEW f, May(f, m), NEW x, x = Fault(m)
  PROVE  x \in SoundManagers /\ SameView(x, m) /\ x.requests = m.requests
         /\ x.recovering = m.recovering
<1>1. m.faults + 1 \in 0 .. MaxFaults
  BY BoundAssumption DEF SoundManagers, Managers, May
<1>2. x \in Managers
  BY <1>1 DEF SoundManagers, Managers, Fault
<1>3. SameView(x, m) /\ x.requests = m.requests /\ x.recovering = m.recovering
  BY DEF SoundManagers, Managers, Fault, SameView
<1> QED
  BY <1>2, <1>3, SameViewFollows

\* So is one that counts a fault or does not.
LEMMA ChargedSound ==
  ASSUME NEW m \in SoundManagers, NEW counts \in BOOLEAN, counts => m.faults < MaxFaults,
         NEW x, x = Charged(m, counts)
  PROVE  x \in SoundManagers /\ SameView(x, m) /\ x.requests = m.requests
         /\ x.recovering = m.recovering /\ x.disabled = m.disabled
<1>1. CASE counts
  <2>1. m.faults + 1 \in 0 .. MaxFaults
    BY <1>1, BoundAssumption DEF SoundManagers, Managers
  <2>2. x = Fault(m)
    BY <1>1 DEF Charged
  <2>3. x \in Managers
    BY <2>1, <2>2 DEF SoundManagers, Managers, Fault
  <2>4. SameView(x, m) /\ x.requests = m.requests /\ x.recovering = m.recovering
        /\ x.disabled = m.disabled
    BY <2>2 DEF SoundManagers, Managers, Fault, SameView
  <2> QED
    BY <2>3, <2>4, SameViewFollows
<1>2. CASE ~counts
  <2>1. x = m
    BY <1>2 DEF Charged
  <2> QED
    BY <2>1 DEF SameView
<1> QED
  BY <1>1, <1>2

\* The exchange forgets what it was asked.
LEMMA UnaskedSound ==
  ASSUME NEW m \in SoundManagers, NEW gone, NEW x, x = [m EXCEPT !.asked = @ \ gone]
  PROVE  x \in SoundManagers /\ SameView(x, m) /\ x.requests = m.requests
         /\ x.recovering = m.recovering /\ x.faults = m.faults
<1>1. x \in Managers
  BY DEF SoundManagers, Managers
<1>2. SameView(x, m) /\ x.requests = m.requests /\ x.recovering = m.recovering /\ x.faults = m.faults
  BY DEF SoundManagers, Managers, SameView
<1> QED
  BY <1>1, <1>2, SameViewFollows

\* What is emitted lengthens the log by one message, and the dispatcher handles it.
LEMMA EmitSound ==
  ASSUME Sound, NEW t \in Tickers, NEW kind \in Kinds, NEW lost \in BOOLEAN,
         NEW lag \in 0 .. MaxLag, Emit(t, kind, lost, lag)
  PROVE  /\ log' \in Seq(Entries) /\ Len(log') <= MaxSeq /\ mgr' \in SoundManagers
         /\ Len(log') = Len(log) + 1
         /\ log'[Len(log) + 1] = [ticker |-> t, kind |-> kind, lost |-> lost,
                                  shown |-> Len(log) + 1 + lag]
         /\ \A j \in 1 .. Len(log) : log'[j] = log[j]
         /\ [seq |-> Len(log) + 1, ticker |-> t, kind |-> kind] \in Messages
<1>1. PICK e \in Entries :
        e = [ticker |-> t, kind |-> kind, lost |-> lost, shown |-> Len(log) + 1 + lag]
  <2>1. Len(log) \in Nat
    BY LenProperties DEF Sound
  <2>2. Len(log) + 1 + lag \in Nat
    BY <2>1, BoundAssumption
  <2>3. [ticker |-> t, kind |-> kind, lost |-> lost, shown |-> Len(log) + 1 + lag] \in Entries
    BY <2>2 DEF Entries
  <2> QED
    BY <2>3
<1>2. log' = Append(log, e) /\ Len(log) < MaxSeq
  BY <1>1 DEF Emit
<1>3. /\ log' \in Seq(Entries) /\ Len(log') = Len(log) + 1 /\ log'[Len(log) + 1] = e
      /\ \A j \in 1 .. Len(log) : log'[j] = log[j]
  BY <1>2, AppendProperties DEF Sound
<1>4. Len(log) + 1 \in Numbers /\ Len(log) + 1 <= MaxSeq
  BY <1>2, LenProperties, BoundAssumption DEF Numbers, Sound
<1>5. PICK msg \in Messages : msg = [seq |-> Len(log) + 1, ticker |-> t, kind |-> kind]
  BY <1>4 DEF Messages
<1>9. PICK m : m = Charged(mgr, lost \/ lag > 0)
  OBVIOUS
<1>6. m \in SoundManagers /\ AnswersType
  BY <1>9, ChargedSound DEF Sound, Emit, May
<1>7. CASE lost
  <2>1. mgr' = m
    BY <1>7, <1>9 DEF Emit
  <2>2. mgr' \in SoundManagers
    BY <1>6, <2>1
  <2> QED
    BY <1>1, <1>3, <1>4, <1>5, <2>2
<1>8. CASE ~lost
  <2>1. mgr' \in HandleMessage(m, msg)
    BY <1>5, <1>8, <1>9 DEF Emit
  <2>2. mgr' \in SoundManagers
    BY <1>6, <2>1, HandleMessageSound
  <2> QED
    BY <1>1, <1>3, <1>4, <1>5, <2>2
<1> QED
  BY <1>7, <1>8

\* An answer touches no book, number or buffer,
LEMMA AnswerSound ==
  ASSUME Sound, NEW a \in mgr.asked, Answer(a)
  PROVE  AnswersType' /\ mgr' \in SoundManagers /\ SameView(mgr', mgr)
         /\ mgr'.requests = mgr.requests /\ mgr'.recovering = mgr.recovering
<1>1. mgr \in SoundManagers /\ a \in Requests
  BY DEF Sound, SoundManagers, Managers
<1>2. Len(log) \in Numbers
  BY LenProperties, BoundAssumption DEF Sound, Numbers
<1>3. AnswersType'
  BY <1>1, <1>2 DEF Sound, AnswersType, Answer, Requests
<1>4. mgr' = [mgr EXCEPT !.asked = @ \ {a}]
  BY DEF Answer
<1> QED
  BY <1>1, <1>3, <1>4, UnaskedSound

\* nor does a request that is never answered.
LEMMA IgnoreSound ==
  ASSUME Sound, NEW a \in mgr.asked, Ignore(a)
  PROVE  mgr' \in SoundManagers /\ SameView(mgr', mgr)
         /\ mgr'.requests = mgr.requests /\ mgr'.recovering = mgr.recovering
<1>1. mgr \in SoundManagers
  BY DEF Sound
<1>2. PICK m : m = [mgr EXCEPT !.asked = @ \ {a}]
  OBVIOUS
<1>3. /\ m \in SoundManagers /\ SameView(m, mgr) /\ m.requests = mgr.requests
      /\ m.recovering = mgr.recovering /\ m.faults = mgr.faults
  BY <1>1, <1>2, UnaskedSound
<1>4. mgr' = m \/ (May("silence", m) /\ mgr' = Fault(m))
  BY <1>2, <1>3 DEF Ignore, May
<1>5. ASSUME May("silence", m), mgr' = Fault(m)
      PROVE  mgr' \in SoundManagers /\ SameView(mgr', m) /\ mgr'.requests = m.requests
             /\ mgr'.recovering = m.recovering
  BY <1>3, <1>5, FaultSound
<1>6. ASSUME May("silence", m), mgr' = Fault(m)
      PROVE  SameView(mgr', mgr)
  BY <1>3, <1>5, <1>6 DEF SameView
<1> QED
  BY <1>3, <1>4, <1>5, <1>6

\* A rejected request is forgotten, or its recovery is given up.
LEMMA RejectSound ==
  ASSUME Sound, NEW id \in Ids, NEW named \in SUBSET Tickers, Reject(id, named)
  PROVE  \E m \in SoundManagers :
           /\ SameView(m, mgr) /\ m.requests = mgr.requests /\ m.recovering = mgr.recovering
           /\ \/ mgr' = m
              \/ \E o : Restarted(o, m) /\ mgr' = o.m
<1>1. mgr \in SoundManagers /\ AnswersType
  BY DEF Sound
<1>2. PICK asked : asked = {a \in mgr.asked : a.id = id}
  OBVIOUS
<1>3. PICK n : n = [mgr EXCEPT !.asked = @ \ asked]
  OBVIOUS
<1>4. PICK m : m = Fault(n)
  OBVIOUS
<1>5. /\ n \in SoundManagers /\ SameView(n, mgr) /\ n.requests = mgr.requests
      /\ n.recovering = mgr.recovering /\ n.faults = mgr.faults
  BY <1>1, <1>3, UnaskedSound
<1>6. May("reject", n)
  BY <1>5 DEF Reject, May
<1>7. m \in SoundManagers /\ SameView(m, n) /\ m.requests = n.requests /\ m.recovering = n.recovering
  BY <1>4, <1>5, <1>6, FaultSound
<1>8. SameView(m, mgr) /\ m.requests = mgr.requests /\ m.recovering = mgr.recovering
  BY <1>5, <1>7 DEF SameView
<1>9. mgr' \in IF m.requests[id] = {} THEN {m} ELSE {o.m : o \in RecoveryRejected(m, named)}
  BY <1>2, <1>3, <1>4 DEF Reject
<1>10. mgr' = m \/ \E o \in RecoveryRejected(m, named) : mgr' = o.m
  BY <1>9
<1>11. \A o \in RecoveryRejected(m, named) : Restarted(o, m)
  BY <1>1, <1>7, RecoveryRejectedSound
<1> QED
  BY <1>7, <1>8, <1>10, <1>11

\* An answer that arrives leaves a sound manager.
LEMMA ReceiveSound ==
  ASSUME Sound, NEW a \in answers, NEW withId \in BOOLEAN, Receive(a, withId)
  PROVE  AnswersType' /\ mgr' \in SoundManagers
<1>1. AnswersType /\ mgr \in SoundManagers
  BY DEF Sound
<1>2. AnswersType'
  BY <1>1 DEF AnswersType, Receive
<1>3. PICK msg \in Messages : msg = [seq |-> a.seq, ticker |-> a.ticker, kind |-> "snapshot"]
  BY <1>1 DEF AnswersType, Messages, Kinds
<1>4. mgr' \in IF withId THEN HandleAnswer(mgr, a.id, msg) ELSE HandleMessage(mgr, msg)
  BY <1>3 DEF Receive
<1>5. mgr' \in SoundManagers
  BY <1>1, <1>3, <1>4, HandleAnswerSound, HandleMessageSound DEF Messages
<1> QED
  BY <1>2, <1>5

\* What the seed task's decision leaves: nothing begun, or its chunks to be sent, or sent.
LEMMA SeedSound ==
  ASSUME Sound, NEW intervalOver \in BOOLEAN, Seed(intervalOver)
  PROVE  /\ mgr' \in SoundManagers
         /\ SeedingSound'
         /\ "slow" \notin Faults => /\ seeding' = seeding
                                    /\ \E o \in StartRecovery(mgr, intervalOver, FALSE) : mgr' = o.m
<1>1. mgr \in SoundManagers /\ AnswersType
  BY DEF Sound
<1>2. PICK b : b = BeginRecovery(mgr, intervalOver, FALSE)
  OBVIOUS
<1>3. PICK chunks \in Chunkings(mgr.tickers \ Unrecoverable(mgr)) :
        \/ b.did = "nothing" /\ mgr' = b.m /\ seeding' = seeding
        \/ /\ b.did # "nothing" /\ "slow" \in Faults
           /\ mgr' = b.m /\ seeding' = [seeding EXCEPT !.chunks = chunks]
        \/ /\ b.did # "nothing" /\ "slow" \notin Faults
           /\ mgr' \in {o.m : o \in SendChunks(b.m, chunks)} /\ seeding' = seeding
  BY <1>2 DEF Seed
<1>4. mgr.tickers \ Unrecoverable(mgr) \in SUBSET Tickers
  BY <1>1 DEF SoundManagers, Managers
<1>5. chunks \in Seq(SUBSET Tickers)
  BY <1>4, ChunkingsType
<1>6. b.m \in SoundManagers /\ b.did \in {"nothing", "begun"}
      /\ (b.did = "begun" => b.m.tickers = mgr.tickers)
  BY <1>1, <1>2, BeginRecoverySound
<1>7. \A o \in SendChunks(b.m, chunks) : o.m \in SoundManagers
  BY <1>1, <1>5, <1>6, SendChunksSound
<1>8. SeedingSound'
  <2>1. seeding.chunks = <<>> /\ SeedingSound
    BY DEF Seed, Sound
  <2>2. seeding' = seeding \/ seeding' = [seeding EXCEPT !.chunks = chunks]
    BY <1>3
  <2> QED
    BY <1>5, <2>1, <2>2 DEF SeedingSound
<1>9. mgr' \in SoundManagers
  BY <1>3, <1>6, <1>7
<1>10. ASSUME "slow" \notin Faults
       PROVE  seeding' = seeding /\ \E o \in StartRecovery(mgr, intervalOver, FALSE) : mgr' = o.m
  <2>1. CASE b.did = "nothing"
    <3>1. StartRecovery(mgr, intervalOver, FALSE) = {b}
      BY <1>2, <2>1 DEF StartRecovery
    <3> QED
      BY <1>3, <2>1, <3>1
  <2>2. CASE b.did # "nothing"
    <3>1. PICK o \in SendChunks(b.m, chunks) : mgr' = o.m
      BY <1>3, <1>10, <2>2
    <3>2. o \in StartRecovery(mgr, intervalOver, FALSE)
      BY <1>2, <2>2, <3>1 DEF StartRecovery
    <3> QED
      BY <1>3, <1>10, <2>2, <3>1, <3>2
  <2> QED
    BY <2>1, <2>2
<1> QED
  BY <1>8, <1>9, <1>10

\* So do the steps of a seed task that is slow.
LEMMA SeedTaskSound ==
  ASSUME Sound, SeedSend \/ SeedRaises \/ SeedRegister
  PROVE  /\ mgr' \in SoundManagers
         /\ SeedingSound'
<1>1. /\ mgr \in SoundManagers /\ <<>> \in Seq(SUBSET Tickers)
      /\ seeding \in [chunks : Seq(SUBSET Tickers), id : Ids \cup {NoId}]
      /\ seeding.id # NoId => seeding.chunks # <<>>
  BY EmptySeq DEF Sound, SeedingSound
<1>2. ASSUME seeding.chunks # <<>>
      PROVE  Head(seeding.chunks) \in SUBSET Tickers /\ Tail(seeding.chunks) \in Seq(SUBSET Tickers)
  <2>1. PICK s \in Seq(SUBSET Tickers) : s = seeding.chunks
    BY <1>1
  <2> QED
    BY <1>2, <2>1, HeadTailProperties
<1>3. CASE SeedSend
  <2>1. PICK id : id = CHOOSE i \in FreeIds(mgr) : \A j \in FreeIds(mgr) : i <= j
    OBVIOUS
  <2>2. id \in Ids
    <3>1. PICK S : S = FreeIds(mgr)
      OBVIOUS
    <3>2. S # {} /\ IsFiniteSet(S) /\ S \subseteq Int /\ S \subseteq Ids
      BY <1>3, <3>1, SetAssumption, FS_Subset DEF SeedSend, FreeIds
    <3>3. \E i \in S : \A j \in S : i <= j
      BY <3>2, MinOfSet
    <3> QED
      BY <2>1, <3>1, <3>2, <3>3
  <2>3. PICK chunk \in SUBSET Tickers : chunk = Head(seeding.chunks)
    BY <1>2, <1>3 DEF SeedSend
  <2>4. mgr' = Ask(mgr, id, chunk) /\ seeding' = [seeding EXCEPT !.id = id]
    BY <1>3, <2>1, <2>3 DEF SeedSend
  <2>5. PICK asks : asks = {[id |-> id, ticker |-> t] : t \in chunk} /\ asks \in SUBSET Requests
    <3>1. {[id |-> id, ticker |-> t] : t \in chunk} \in SUBSET Requests
      BY <2>2, <2>3 DEF Requests
    <3> QED
      BY <3>1
  <2>6. mgr' = [mgr EXCEPT !.asked = @ \cup asks]
    BY <2>4, <2>5 DEF Ask
  <2>7. mgr' \in Managers
    BY <1>1, <2>5, <2>6 DEF SoundManagers, Managers
  <2>8. SameView(mgr', mgr)
    BY <1>1, <2>6 DEF SoundManagers, Managers, SameView
  <2>9. SeedingSound'
    BY <1>1, <1>3, <2>2, <2>4 DEF SeedingSound, SeedSend
  <2> QED
    BY <1>1, <2>7, <2>8, <2>9, SameViewFollows
<1>4. CASE SeedRaises
  <2>1. mgr' \in SoundManagers
    BY <1>1, <1>4, FaultSound DEF SeedRaises
  <2>2. SeedingSound'
    BY <1>1, <1>4 DEF SeedRaises, SeedingSound
  <2> QED
    BY <2>1, <2>2
<1>5. CASE SeedRegister
  <2>1. PICK s \in Seq(SUBSET Tickers) : s = seeding.chunks
    BY <1>1
  <2>2. PICK id \in Ids : id = seeding.id
    BY <1>1, <1>5 DEF SeedRegister
  <2>3. mgr' = Register(mgr, id, Head(s)) /\ seeding' = [chunks |-> Tail(s), id |-> NoId]
    BY <1>5, <2>1, <2>2 DEF SeedRegister
  <2>4. PICK chunk \in SUBSET Tickers : chunk = Head(s)
    BY <1>1, <1>2, <1>5, <2>1 DEF SeedRegister
  <2>5. Tail(s) \in Seq(SUBSET Tickers)
    BY <1>1, <1>2, <1>5, <2>1 DEF SeedRegister
  <2>6. PICK r \in [Ids -> SUBSET Tickers] : r = [mgr.requests EXCEPT ![id] = chunk]
    BY <1>1, <2>2 DEF SoundManagers, Managers
  <2>7. mgr' = [mgr EXCEPT !.requests = r]
    BY <2>3, <2>4, <2>6 DEF Register
  <2>8. mgr' \in Managers
    BY <1>1, <2>7 DEF SoundManagers, Managers
  <2>9. SameView(mgr', mgr)
    BY <1>1, <2>7 DEF SoundManagers, Managers, SameView
  <2>10. SeedingSound'
    BY <2>3, <2>5 DEF SeedingSound
  <2> QED
    BY <1>1, <2>8, <2>9, <2>10, SameViewFollows
<1> QED
  BY <1>3, <1>4, <1>5

\* Every step keeps the invariant.
LEMMA SoundNext == Sound /\ [Next]_vars => Sound'
<1> SUFFICES ASSUME Sound, [Next]_vars PROVE Sound'
  OBVIOUS
<1>1. /\ log \in Seq(Entries) /\ Len(log) <= MaxSeq /\ closed \subseteq Tickers
      /\ AnswersType /\ SeedingSound /\ mgr \in SoundManagers
  BY DEF Sound
<1>2. ASSUME NEW t \in Tickers, NEW kind \in Kinds, NEW lost \in BOOLEAN,
             NEW lag \in 0 .. MaxLag, Emit(t, kind, lost, lag)
      PROVE  Sound'
  <2>1. log' \in Seq(Entries) /\ Len(log') <= MaxSeq /\ mgr' \in SoundManagers
    BY <1>2, EmitSound
  <2> QED
    BY <1>1, <1>2, <2>1 DEF Sound, Emit, AnswersType, SeedingSound
<1>3. ASSUME NEW a \in mgr.asked, Answer(a) PROVE Sound'
  <2>1. AnswersType' /\ mgr' \in SoundManagers
    BY <1>3, AnswerSound
  <2> QED
    BY <1>1, <1>3, <2>1 DEF Sound, Answer, SeedingSound
<1>4. ASSUME NEW a \in mgr.asked, Ignore(a) PROVE Sound'
  <2>1. mgr' \in SoundManagers
    BY <1>4, IgnoreSound
  <2> QED
    BY <1>1, <1>4, <2>1 DEF Sound, Ignore, SeedingSound, AnswersType
<1>5. ASSUME NEW id \in Ids, NEW named \in SUBSET Tickers, Reject(id, named) PROVE Sound'
  <2>1. mgr' \in SoundManagers
    BY <1>5, RejectSound DEF Recovered, Restarted
  <2> QED
    BY <1>1, <1>5, <2>1 DEF Sound, Reject, SeedingSound, AnswersType
<1>6. ASSUME NEW a \in answers, NEW withId \in BOOLEAN, Receive(a, withId) PROVE Sound'
  <2>1. AnswersType' /\ mgr' \in SoundManagers
    BY <1>6, ReceiveSound
  <2> QED
    BY <1>1, <1>6, <2>1 DEF Sound, Receive, SeedingSound
<1>7. ASSUME NEW over \in BOOLEAN, Seed(over) PROVE Sound'
  <2>1. mgr' \in SoundManagers /\ SeedingSound'
    BY <1>7, SeedSound
  <2> QED
    BY <1>1, <1>7, <2>1 DEF Sound, Seed, AnswersType
<1>8. ASSUME SeedSend \/ SeedRaises \/ SeedRegister PROVE Sound'
  <2>1. mgr' \in SoundManagers /\ SeedingSound'
    BY <1>8, SeedTaskSound
  <2>2. UNCHANGED <<log, closed, answers>>
    BY <1>8 DEF SeedSend, SeedRaises, SeedRegister
  <2> QED
    BY <1>1, <2>1, <2>2 DEF Sound, AnswersType
<1>9. ASSUME NEW t \in Tickers, Settle(t) PROVE Sound'
  BY <1>1, <1>9 DEF Settle, Sound, AnswersType, SeedingSound
<1>10. CASE UNCHANGED vars
  BY <1>1, <1>10 DEF vars, Sound, AnswersType, SeedingSound
<1> QED
  BY <1>2, <1>3, <1>4, <1>5, <1>6, <1>7, <1>8, <1>9, <1>10 DEF Next, Kinds

\* The manager is sound in every reachable state.
THEOREM AlwaysSound == Spec => []Sound
<1> QED
  BY SoundInit, SoundNext, PTL DEF Spec

\* Type correctness: numbers stay within the history, and the queue of a book that waits for
\* its snapshot never exceeds its cap (_bootstrap_buffer_cap).
THEOREM OrderBookV2Type == Spec => []TypeOK
<1>1. Sound => TypeOK
  BY DEF Sound, TypeOK, Entries, AnswersType, SeedingSound, SoundManagers
<1> QED
  BY <1>1, AlwaysSound, PTL

\* What an undisabled sid does with a message that shows a gap.
LEMMA GapBlinds ==
  ASSUME NEW m \in SoundManagers, ~m.recovering, ~m.disabled, AnswersType,
         NEW msg \in Messages, IsGap(m, msg), NEW z \in HandleMessage(m, msg)
  PROVE  \A t \in Tickers : ~Served(z, t)
<1>1. PICK x : x = Knows(m, msg.ticker)
  OBVIOUS
<1>2. /\ x \in SoundManagers /\ ~x.recovering /\ ~x.disabled /\ IsGap(x, msg)
  BY <1>1, KnowsSound DEF Messages, IsGap
<1>3. z \in Gap(x, msg)
  BY <1>1, <1>2, HandleMessageSteps DEF Dispatch
<1>4. PICK o \in TryRecovery(x, TRUE) :
        \/ z = Keep(o.m, msg)
        \/ z = [o.m EXCEPT !.lastSeq = msg.seq]
        \/ z = o.m
  <2>1. PICK n : n = IF x.disabled THEN Rearm(x) ELSE x
    OBVIOUS
  <2>2. n = x
    BY <1>2, <2>1
  <2>3. \E o \in TryRecovery(n, TRUE) : GapStep(z, o, msg)
    BY <1>2, <1>3, <2>1, GapSteps
  <2> QED
    BY <2>2, <2>3 DEF GapStep
<1>5. o.m \in SoundManagers /\ Follows(o.m, x) /\ \A t \in x.tickers : ~Served(o.m, t)
  BY <1>2, <1>4, TryRecoverySound
<1>6. \A t \in Tickers : ~Served(o.m, t)
  <2>1. o.m.tickers = x.tickers
    BY <1>5 DEF Follows
  <2> QED
    BY <1>5, <2>1 DEF SoundManagers, Served
<1>7. z.books = o.m.books
  <2>1. Keep(o.m, msg).books = o.m.books
    BY <1>5, KeepSound
  <2>2. [o.m EXCEPT !.lastSeq = msg.seq].books = o.m.books
    BY <1>5 DEF SoundManagers, Managers
  <2> QED
    BY <1>4, <2>1, <2>2
<1> QED
  BY <1>6, <1>7 DEF Served

\* Whenever a message shows a gap to a sid that is neither recovering nor disabled, no book
\* of it is served afterwards, whether the recovery starts, is suppressed or cannot be asked for.
THEOREM GapAlwaysBlinds == Spec => GapBlindsAll
<1> DEFINE k == Len(log')
           gap == /\ k > Len(log) /\ ~log'[k].lost
                  /\ mgr.lastSeq # NoSeq /\ k > mgr.lastSeq + 1
           A == gap /\ ~mgr.recovering /\ ~mgr.disabled => \A t \in Tickers : ~Served(mgr', t)
<1>1. ASSUME Sound, Next PROVE A
  <2> SUFFICES ASSUME gap, ~mgr.recovering, ~mgr.disabled PROVE \A t \in Tickers : ~Served(mgr', t)
    OBVIOUS
  <2>1. log' # log
    <3>1. Len(log) \in Nat
      BY LenProperties DEF Sound
    <3> QED
      BY <3>1
  <2>2. PICK t \in Tickers, kind \in Kinds, lost \in BOOLEAN, lag \in 0 .. MaxLag :
          Emit(t, kind, lost, lag)
    BY <1>1, <2>1 DEF Next, Kinds, Answer, Ignore, Reject, Receive, Seed, SeedSend, SeedRaises,
       SeedRegister, Settle
  <2>3. PICK msg : msg = [seq |-> Len(log) + 1, ticker |-> t, kind |-> kind]
    OBVIOUS
  <2>4. /\ Len(log') = Len(log) + 1 /\ log'[Len(log) + 1].lost = lost /\ msg \in Messages
        /\ msg.seq = Len(log) + 1
    <3>1. /\ Len(log') = Len(log) + 1
          /\ log'[Len(log) + 1] = [ticker |-> t, kind |-> kind, lost |-> lost,
                                   shown |-> Len(log) + 1 + lag]
          /\ msg \in Messages
      BY <1>1, <2>2, <2>3, EmitSound
    <3> QED
      BY <2>3, <3>1
  <2>5. PICK m : m = Charged(mgr, lost \/ lag > 0)
    OBVIOUS
  <2>6. ~lost /\ mgr' \in HandleMessage(m, msg)
    BY <2>2, <2>3, <2>4, <2>5 DEF Emit
  <2>7. m \in SoundManagers /\ ~m.recovering /\ ~m.disabled /\ m.lastSeq = mgr.lastSeq
    <3>1. (lost \/ lag > 0) => mgr.faults < MaxFaults
      BY <2>2 DEF Emit, May
    <3>2. /\ m \in SoundManagers /\ SameView(m, mgr)
          /\ m.recovering = mgr.recovering /\ m.disabled = mgr.disabled
      BY <1>1, <2>5, <3>1, ChargedSound DEF Sound
    <3>3. m.lastSeq = mgr.lastSeq
      BY <3>2 DEF SameView
    <3> QED
      BY <3>2, <3>3
  <2>8. IsGap(m, msg)
    <3>1. mgr.lastSeq \in Int
      BY <1>1, BoundAssumption DEF Sound, SoundManagers, Managers, Numbers, NoSeq
    <3> QED
      BY <2>4, <2>7, <3>1 DEF IsGap
  <2> QED
    BY <1>1, <2>4, <2>6, <2>7, <2>8, GapBlinds DEF Sound
<1>2. ASSUME Sound, UNCHANGED vars PROVE A
  <2>1. Len(log) \in Nat
    BY <1>2, LenProperties DEF Sound
  <2>2. ~gap
    BY <1>2, <2>1 DEF vars
  <2> QED
    BY <2>2
<1>3. Sound /\ [Next]_vars => [A]_vars
  BY <1>1, <1>2
<1> QED
  BY <1>3, AlwaysSound, PTL DEF Spec, GapBlindsAll

-----------------------------------------------------------------------------
(* What a served book lacks                                                *)

\* The deltas of t after number k and up to number n of a history h.
Deltas(h, n, t, k) == {j \in k + 1 .. n : h[j].ticker = t /\ h[j].kind = "delta"}

\* Lost on the way, and the baseline has not passed it: the next message shows the gap.
Ahead(m, h, n, j) == j \in 1 .. n /\ j > m.lastSeq /\ h[j].lost

\* What a served book of u lacks was shown late, is unseen, will be drained or will show as a
\* gap.
Covered(m, h, n, u) ==
  Served(m, u) =>
    /\ m.missing[u] \subseteq m.unseen \cup Late(u)
    /\ \A j \in Deltas(h, n, u, m.seq[u]) : j \in m.unseen \cup Held(m) \/ Ahead(m, h, n, j)

\* So of every market.
Covers(m, h, n) == \A u \in Tickers : Covered(m, h, n, u)

\* The buffer holds messages of the history, each once and in order.
Matches(s, h, n) ==
  \A i \in 1 .. Len(s) : /\ s[i].seq \in 1 .. n
                         /\ h[s[i].seq].ticker = s[i].ticker /\ h[s[i].seq].kind = s[i].kind

\* Numbers the sid and its books know, and its buffer, are of the history.
Within(m, h, n) ==
  /\ m.lastSeq <= n
  /\ \A u \in Tickers : /\ m.seq[u] <= n
                        /\ \A i \in 1 .. Len(m.bootstrap[u]) : m.bootstrap[u][i].seq <= n
  /\ Ascending(m.pendingDeltas) /\ Matches(m.pendingDeltas, h, n)

\* A sid that does not recover waits for nothing, and what its buffer holds is given up.
Settled(m) == ~m.recovering => Idle(m) /\ Held(m) \subseteq m.unseen

\* A snapshot at s of t brings its book to where the buffer takes over.
Fitting(m, h, n, t, s) ==
  /\ s <= n /\ m.lastSeq <= s
  /\ \A i \in 1 .. Len(m.bootstrap[t]) : m.bootstrap[t][i].seq <= s
  /\ \A j \in Deltas(h, n, t, s) : h[j].lost \/ j \in m.unseen \cup Held(m)

\* Every answer that a pending request waits for is such a snapshot.
Awaits(m, h, n) ==
  \A a \in answers : m.requests[a.id] # {} => Fitting(m, h, n, a.ticker, a.seq)

\* The inductive invariant behind ServedIsTrue, of a manager m that has dealt with the first n
\* messages of the history h.
Orderly(m, h, n) == Within(m, h, n) /\ Covers(m, h, n) /\ Settled(m) /\ Awaits(m, h, n)

\* Marking stale and giving up keep the first part,
LEMMA FollowsWithin ==
  ASSUME NEW m \in SoundManagers, NEW x \in SoundManagers, Follows(x, m),
         NEW h, NEW n \in Nat, Within(m, h, n)
  PROVE  Within(x, h, n)
<1>1. ASSUME x.pendingDeltas = <<>>
      PROVE  Ascending(x.pendingDeltas) /\ Matches(x.pendingDeltas, h, n)
  BY <1>1 DEF Ascending, Matches
<1> QED
  BY <1>1 DEF Follows, Within

\* and the second.
LEMMA FollowsCovers ==
  ASSUME NEW m \in SoundManagers, NEW x \in SoundManagers, Follows(x, m),
         NEW h, NEW n \in Nat, NEW u \in Tickers, Covered(m, h, n, u)
  PROVE  Covered(x, h, n, u)
<1>1. Served(x, u) => Served(m, u)
  BY DEF Follows
<1>2. /\ x.seq = m.seq /\ x.missing = m.missing /\ x.lastSeq = m.lastSeq
      /\ m.unseen \subseteq x.unseen /\ Held(m) \subseteq Held(x) \cup x.unseen
  BY DEF Follows
<1> QED
  BY <1>1, <1>2 DEF Covered, Ahead

\* A recovery begun, or given up, from an orderly sid leaves an orderly one.
LEMMA RecoveredOrderly ==
  ASSUME NEW m \in SoundManagers, NEW o, Recovered(o, m), NEW h, NEW n \in Nat,
         Within(m, h, n), Covers(m, h, n),
         Held(m) \subseteq m.unseen \/ o.m.pendingDeltas = <<>>
  PROVE  Orderly(o.m, h, n)
<1>1. o.m \in SoundManagers /\ Follows(o.m, m) /\ Unawaited(o.m)
  BY DEF Recovered
<1>2. Within(o.m, h, n)
  BY <1>1, FollowsWithin
<1>3. Covers(o.m, h, n)
  BY <1>1, FollowsCovers DEF Covers
<1>4. Held(o.m) \subseteq o.m.unseen
  <2>1. CASE o.m.pendingDeltas = <<>>
    BY <2>1, HeldNothing
  <2>2. CASE o.m.pendingDeltas = m.pendingDeltas /\ Held(m) \subseteq m.unseen
    BY <1>1, <2>2 DEF Follows, Held
  <2> QED
    BY <1>1, <2>1, <2>2 DEF Follows
<1>5. Settled(o.m)
  BY <1>4 DEF Settled, Recovered, Quiet
<1>6. Awaits(o.m, h, n)
  BY <1>1 DEF Awaits, Unawaited
<1> QED
  BY <1>2, <1>3, <1>5, <1>6 DEF Orderly

\* Without requests the last part says nothing.
LEMMA IdleAwaits ==
  ASSUME NEW m, Idle(m), AnswersType, NEW h, NEW n
  PROVE  Awaits(m, h, n)
  BY DEF Idle, AnswersType, Awaits

\* A message kept adds its number to those held.
LEMMA KeepHolds ==
  ASSUME NEW m \in SoundManagers, NEW msg \in Messages
  PROVE  Held(Keep(m, msg)) = Held(m) \cup {msg.seq}
<1>1. PICK s \in Seq(Messages) : s = m.pendingDeltas
  BY DEF SoundManagers, Managers
<1>2. Keep(m, msg).pendingDeltas = Append(s, msg)
  BY <1>1, KeepSound
<1>3. PICK k \in Nat : k = Len(s)
  BY LenProperties
<1>4. PICK q : q = Append(s, msg)
  OBVIOUS
<1>5. /\ Len(q) = k + 1 /\ q[k + 1] = msg /\ \A i \in 1 .. k : q[i] = s[i]
      /\ q \in Seq(Messages)
  BY <1>3, <1>4, AppendProperties
<1>6. DOMAIN q = 1 .. k + 1 /\ DOMAIN s = 1 .. k
  BY <1>3, <1>5, LenProperties
<1>7. {q[i].seq : i \in 1 .. k + 1} = {s[i].seq : i \in 1 .. k} \cup {msg.seq}
  <2>1. \A i \in 1 .. k + 1 : i \in 1 .. k \/ i = k + 1
    OBVIOUS
  <2>2. k + 1 \in 1 .. k + 1 /\ 1 .. k \subseteq 1 .. k + 1
    OBVIOUS
  <2> QED
    BY <1>5, <2>1, <2>2
<1> QED
  BY <1>1, <1>2, <1>4, <1>6, <1>7 DEF Held

\* A message of a sid's history that is kept comes behind what is kept already.
LEMMA KeepMatches ==
  ASSUME NEW m \in SoundManagers, NEW msg \in Messages, NEW h, NEW n \in Nat,
         Ascending(m.pendingDeltas), Matches(m.pendingDeltas, h, n),
         msg.seq = n + 1, h[n + 1].ticker = msg.ticker, h[n + 1].kind = msg.kind,
         NEW q, q = Append(m.pendingDeltas, msg)
  PROVE  Ascending(q) /\ Matches(q, h, n + 1)
<1>1. PICK s \in Seq(Messages) : s = m.pendingDeltas
  BY DEF SoundManagers, Managers
<1>3. PICK k \in Nat : k = Len(s)
  BY LenProperties
<1>5. /\ Len(q) = k + 1 /\ q[k + 1] = msg /\ \A i \in 1 .. k : q[i] = s[i]
      /\ q \in Seq(Messages)
  BY <1>1, <1>3, AppendProperties
<1>6. DOMAIN q = 1 .. k + 1 /\ DOMAIN s = 1 .. k
  BY <1>3, <1>5, LenProperties
<1>7. \A i \in 1 .. k : s[i].seq \in 1 .. n /\ h[s[i].seq].ticker = s[i].ticker
                        /\ h[s[i].seq].kind = s[i].kind
  BY <1>1, <1>3 DEF Matches
<1>8. ASSUME NEW i \in 1 .. k + 1
      PROVE  /\ q[i].seq \in 1 .. n + 1
             /\ h[q[i].seq].ticker = q[i].ticker /\ h[q[i].seq].kind = q[i].kind
  <2>1. CASE i = k + 1
    BY <1>5, <2>1
  <2>2. CASE i \in 1 .. k
    <3>1. q[i] = s[i] /\ s[i].seq \in 1 .. n /\ 1 .. n \subseteq 1 .. n + 1
      BY <1>5, <2>2, <1>7
    <3> QED
      BY <1>7, <2>2, <3>1
  <2>3. i = k + 1 \/ i \in 1 .. k
    OBVIOUS
  <2> QED
    BY <2>1, <2>2, <2>3
<1>9. ASSUME NEW i \in 1 .. k + 1, NEW j \in 1 .. k + 1, i < j
      PROVE  q[i].seq < q[j].seq
  <2>1. i \in 1 .. k
    BY <1>9
  <2>2. CASE j = k + 1
    <3>1. q[i].seq \in 1 .. n
      BY <1>5, <1>7, <2>1
    <3>2. q[j].seq = n + 1
      BY <1>5, <2>2
    <3>3. PICK a \in 1 .. n : a = q[i].seq
      BY <3>1
    <3>4. a < n + 1
      OBVIOUS
    <3> QED
      BY <3>2, <3>3, <3>4
  <2>3. CASE j \in 1 .. k
    BY <1>1, <1>5, <1>6, <1>9, <2>1, <2>3 DEF Ascending
  <2>4. j = k + 1 \/ j \in 1 .. k
    OBVIOUS
  <2> QED
    BY <2>2, <2>3, <2>4
<1> QED
  BY <1>5, <1>6, <1>8, <1>9 DEF Ascending, Matches

\* One message more adds at most one delta.
LEMMA DeltasNext ==
  ASSUME NEW h, NEW n \in Nat, NEW t, NEW k \in Nat, NEW j \in Deltas(h, n + 1, t, k)
  PROVE  j \in Deltas(h, n, t, k) \/ (j = n + 1 /\ h[j].ticker = t /\ h[j].kind = "delta")
  BY DEF Deltas

\* A buffer that matches a history matches a longer one.
LEMMA MatchesNext ==
  ASSUME NEW s, NEW h, NEW n \in Nat, Matches(s, h, n)
  PROVE  Matches(s, h, n + 1)
<1>1. 1 .. n \subseteq 1 .. n + 1
  OBVIOUS
<1> QED
  BY <1>1 DEF Matches

\* The numbers of a sound manager, as integers.
LEMMA NumbersOf ==
  ASSUME NEW m \in SoundManagers
  PROVE  /\ m.lastSeq \in Int /\ (m.lastSeq # NoSeq => m.lastSeq \in Nat)
         /\ \A u \in Tickers : m.seq[u] \in Nat
         /\ m.pendingDeltas \in Seq(Messages)
         /\ \A u \in Tickers : m.bootstrap[u] \in Seq(Messages)
         /\ m.unseen \subseteq Nat
  BY BoundAssumption DEF SoundManagers, Managers, Numbers, NoSeq

\* A message that is kept or thrown away knowingly, or lost, or no delta, passes by.
LEMMA PassesBy ==
  ASSUME NEW x \in SoundManagers, NEW y \in SoundManagers, NEW h, NEW n \in Nat,
         Orderly(x, h, n), AnswersType,
         y.books = x.books, y.seq = x.seq, y.missing = x.missing, y.bootstrap = x.bootstrap,
         y.lastSeq = x.lastSeq, y.requests = x.requests,
         x.unseen \subseteq y.unseen, Held(x) \subseteq Held(y),
         n + 1 \in Held(y) \cup y.unseen \/ h[n + 1].lost \/ h[n + 1].kind # "delta",
         Ascending(y.pendingDeltas), Matches(y.pendingDeltas, h, n + 1), Settled(y)
  PROVE  Orderly(y, h, n + 1)
<1>1. Within(x, h, n) /\ Covers(x, h, n) /\ Awaits(x, h, n)
  BY DEF Orderly
<1>2. Within(y, h, n + 1)
  <2>1. x.lastSeq \in Int /\ \A u \in Tickers : x.seq[u] \in Nat
    BY NumbersOf
  <2>2. x.lastSeq <= n + 1
    BY <1>1, <2>1 DEF Within
  <2>3. ASSUME NEW u \in Tickers
        PROVE  /\ x.seq[u] <= n + 1
               /\ \A i \in 1 .. Len(x.bootstrap[u]) : x.bootstrap[u][i].seq <= n + 1
    <3>1. x.seq[u] <= n + 1
      BY <1>1, <2>1 DEF Within
    <3>2. PICK b \in Seq(Messages) : b = x.bootstrap[u]
      BY NumbersOf
    <3>3. \A i \in 1 .. Len(b) : b[i].seq \in Int /\ b[i].seq <= n
      <4>1. \A i \in 1 .. Len(b) : b[i] \in Messages
        BY <3>2, ElementOfSeq
      <4>2. \A e \in Messages : e.seq \in Int
        BY BoundAssumption DEF Messages, Numbers
      <4> QED
        BY <1>1, <3>2, <4>1, <4>2 DEF Within
    <3>4. \A i \in 1 .. Len(b) : b[i].seq <= n + 1
      BY <3>3
    <3> QED
      BY <3>1, <3>2, <3>4
  <2> QED
    BY <2>2, <2>3 DEF Within
<1>3. ASSUME NEW u \in Tickers PROVE Covered(y, h, n + 1, u)
  <2> SUFFICES ASSUME Served(x, u)
               PROVE  /\ x.missing[u] \subseteq y.unseen \cup Late(u)
                      /\ \A j \in Deltas(h, n + 1, u, x.seq[u]) :
                           j \in y.unseen \cup Held(y) \/ Ahead(y, h, n + 1, j)
    BY DEF Covered, Served
  <2>1. /\ x.missing[u] \subseteq x.unseen \cup Late(u)
        /\ \A j \in Deltas(h, n, u, x.seq[u]) : j \in x.unseen \cup Held(x) \/ Ahead(x, h, n, j)
    BY <1>1 DEF Covers, Covered
  <2>2. ASSUME NEW j \in Deltas(h, n + 1, u, x.seq[u])
        PROVE  j \in y.unseen \cup Held(y) \/ Ahead(y, h, n + 1, j)
    <3>1. x.seq[u] \in Nat /\ x.lastSeq \in Int /\ x.lastSeq <= n
      BY <1>1, NumbersOf DEF Within
    <3>2. CASE j \in Deltas(h, n, u, x.seq[u])
      <4>1. ASSUME Ahead(x, h, n, j) PROVE Ahead(y, h, n + 1, j)
        BY <4>1 DEF Ahead
      <4> QED
        BY <2>1, <3>2, <4>1
    <3>3. CASE j = n + 1 /\ h[j].kind = "delta"
      <4>1. ASSUME h[j].lost PROVE Ahead(y, h, n + 1, j)
        BY <3>1, <3>3, <4>1 DEF Ahead
      <4> QED
        BY <3>3, <4>1
    <3> QED
      BY <3>1, <3>2, <3>3, DeltasNext
  <2> QED
    BY <2>1, <2>2
<1>4. ASSUME NEW a \in answers, y.requests[a.id] # {}
      PROVE  Fitting(y, h, n + 1, a.ticker, a.seq)
  <2>1. Fitting(x, h, n, a.ticker, a.seq) /\ a.seq \in Nat
    BY <1>1, <1>4, BoundAssumption DEF Awaits, AnswersType, Numbers
  <2>2. ASSUME NEW j \in Deltas(h, n + 1, a.ticker, a.seq)
        PROVE  h[j].lost \/ j \in y.unseen \cup Held(y)
    BY <2>1, <2>2, DeltasNext DEF Fitting
  <2>3. a.seq <= n + 1
    BY <2>1 DEF Fitting
  <2> QED
    BY <2>1, <2>2, <2>3 DEF Fitting
<1> QED
  BY <1>2, <1>3, <1>4 DEF Orderly, Covers, Awaits

\* A recovering sid that keeps the next message is orderly with it.
LEMMA KeepOrderly ==
  ASSUME NEW x \in SoundManagers, NEW h, NEW n \in Nat, Orderly(x, h, n), AnswersType,
         NEW msg \in Messages, msg.seq = n + 1, h[n + 1].ticker = msg.ticker,
         h[n + 1].kind = msg.kind, x.recovering
  PROVE  Orderly(Keep(x, msg), h, n + 1)
<1>1. PICK y : y = Keep(x, msg)
  OBVIOUS
<1>2. /\ y \in SoundManagers /\ y.pendingDeltas = Append(x.pendingDeltas, msg)
      /\ y.books = x.books /\ y.seq = x.seq /\ y.missing = x.missing
      /\ y.bootstrap = x.bootstrap /\ y.lastSeq = x.lastSeq /\ y.tickers = x.tickers
      /\ y.unseen = x.unseen /\ y.requests = x.requests /\ y.recovering = x.recovering
  BY <1>1, KeepSound
<1>3. Held(y) = Held(x) \cup {n + 1}
  BY <1>1, KeepHolds
<1>4. Ascending(y.pendingDeltas) /\ Matches(y.pendingDeltas, h, n + 1)
  BY <1>2, KeepMatches DEF Orderly, Within
<1>5. Settled(y)
  BY <1>2 DEF Settled
<1> QED
  BY <1>1, <1>2, <1>3, <1>4, <1>5, PassesBy

\* So is a sid that gives the next message up.
LEMMA DroppedOrderly ==
  ASSUME NEW x \in SoundManagers, NEW h, NEW n \in Nat, Orderly(x, h, n), AnswersType,
         NEW msg \in Messages, msg.seq = n + 1
  PROVE  Orderly(Dropped(x, msg), h, n + 1)
<1>1. PICK y : y = Dropped(x, msg)
  OBVIOUS
<1>2. /\ y \in SoundManagers /\ y.pendingDeltas = x.pendingDeltas
      /\ y.books = x.books /\ y.seq = x.seq /\ y.missing = x.missing
      /\ y.bootstrap = x.bootstrap /\ y.lastSeq = x.lastSeq /\ y.tickers = x.tickers
      /\ y.unseen = x.unseen \cup {n + 1} /\ y.requests = x.requests
      /\ y.recovering = x.recovering
  BY <1>1, DroppedSound
<1>3. Held(y) = Held(x)
  BY <1>2 DEF Held
<1>4. Ascending(y.pendingDeltas) /\ Matches(y.pendingDeltas, h, n + 1)
  BY <1>2, MatchesNext DEF Orderly, Within
<1>5. Settled(y)
  BY <1>2, <1>3 DEF Settled, Orderly, Idle
<1> QED
  BY <1>1, <1>2, <1>3, <1>4, <1>5, PassesBy

\* Kept in a buffer that no recovery will drain, and given up.
LEMMA KeptAndDroppedOrderly ==
  ASSUME NEW x \in SoundManagers, NEW h, NEW n \in Nat, Orderly(x, h, n), AnswersType,
         NEW msg \in Messages, msg.seq = n + 1, h[n + 1].ticker = msg.ticker,
         h[n + 1].kind = msg.kind
  PROVE  Orderly(Dropped(Keep(x, msg), msg), h, n + 1)
<1>1. PICK y : y = Keep(x, msg)
  OBVIOUS
<1>2. /\ y \in SoundManagers /\ y.pendingDeltas = Append(x.pendingDeltas, msg)
      /\ y.books = x.books /\ y.seq = x.seq /\ y.missing = x.missing
      /\ y.bootstrap = x.bootstrap /\ y.lastSeq = x.lastSeq /\ y.tickers = x.tickers
      /\ y.unseen = x.unseen /\ y.requests = x.requests /\ y.recovering = x.recovering
  BY <1>1, KeepSound
<1>3. Held(y) = Held(x) \cup {n + 1}
  BY <1>1, KeepHolds
<1>4. Ascending(y.pendingDeltas) /\ Matches(y.pendingDeltas, h, n + 1)
  BY <1>2, KeepMatches DEF Orderly, Within
<1>5. PICK z : z = Dropped(y, msg)
  OBVIOUS
<1>6. /\ z \in SoundManagers /\ z.pendingDeltas = y.pendingDeltas
      /\ z.books = x.books /\ z.seq = x.seq /\ z.missing = x.missing
      /\ z.bootstrap = x.bootstrap /\ z.lastSeq = x.lastSeq
      /\ z.unseen = x.unseen \cup {n + 1} /\ z.requests = x.requests
      /\ z.recovering = x.recovering
  BY <1>2, <1>5, DroppedSound
<1>7. Held(z) = Held(x) \cup {n + 1}
  BY <1>3, <1>6 DEF Held
<1>8. Settled(z)
  BY <1>6, <1>7 DEF Settled, Orderly, Idle
<1>9. Ascending(z.pendingDeltas) /\ Matches(z.pendingDeltas, h, n + 1)
  BY <1>4, <1>6
<1> QED
  BY <1>1, <1>5, <1>6, <1>7, <1>8, <1>9, PassesBy

\* The sid is recovering: the message goes into its buffer, or is given up.
LEMMA BufferItOrderly ==
  ASSUME NEW m \in SoundManagers, NEW h, NEW n \in Nat, Orderly(m, h, n), AnswersType,
         NEW msg \in Messages, msg.seq = n + 1, h[n + 1].ticker = msg.ticker,
         h[n + 1].kind = msg.kind, NEW z \in BufferIt(m, msg)
  PROVE  Orderly(z, h, n + 1)
<1>1. PICK o : /\ Restarted(o, m) \/ o = [did |-> "nothing", m |-> m]
               /\ z = IF o.did = "raised" THEN Dropped(o.m, msg)
                      ELSE IF o.m.recovering THEN Keep(o.m, msg)
                      ELSE Dropped(Keep(o.m, msg), msg)
  BY BufferItSteps
<1>2. o.m \in SoundManagers /\ Orderly(o.m, h, n)
  <2>1. CASE Restarted(o, m)
    BY <2>1, RecoveredOrderly DEF Restarted, Recovered, Orderly
  <2>2. CASE o = [did |-> "nothing", m |-> m]
    BY <2>2
  <2> QED
    BY <1>1, <2>1, <2>2
<1> QED
  BY <1>1, <1>2, DroppedOrderly, KeepOrderly, KeptAndDroppedOrderly

-----------------------------------------------------------------------------
(* The next message of the history                                         *)

\* A history of which the log is the beginning, and the number of its next message.
Extended(h, n) ==
  n = Len(log) /\ n \in Nat /\ n + 1 \in Numbers /\ \A j \in 1 .. n : h[j] = log[j]

\* What an advance of the baseline changes.
LEMMA AdvanceKeeps ==
  ASSUME NEW m \in SoundManagers, NEW k \in Numbers, NEW x, x = Advance(m, k)
  PROVE  /\ x \in SoundManagers /\ x.lastSeq = (IF m.lastSeq <= k THEN k ELSE m.lastSeq)
         /\ x.books = m.books /\ x.seq = m.seq /\ x.missing = m.missing
         /\ x.bootstrap = m.bootstrap /\ x.tickers = m.tickers
         /\ x.pendingDeltas = m.pendingDeltas /\ x.requests = m.requests
         /\ x.recovering = m.recovering
         /\ x.unseen = IF m.lastSeq = NoSeq THEN m.unseen \cup {j \in 1 .. k - 1 : log[j].lost}
                       ELSE m.unseen
<1>1. x \in SoundManagers /\ x.lastSeq = (IF m.lastSeq <= k THEN k ELSE m.lastSeq)
  BY AdvanceSound
<1>2. PICK top : top = Highest({m.lastSeq, k})
  OBVIOUS
<1>3. PICK seen : seen = IF m.lastSeq = NoSeq THEN m.unseen \cup {j \in 1 .. k - 1 : log[j].lost}
                         ELSE m.unseen
  OBVIOUS
<1>4. x = [m EXCEPT !.lastSeq = top, !.unseen = seen]
  BY <1>2, <1>3 DEF Advance, SoundManagers, Managers
<1>5. /\ x.books = m.books /\ x.seq = m.seq /\ x.missing = m.missing
      /\ x.bootstrap = m.bootstrap /\ x.tickers = m.tickers
      /\ x.pendingDeltas = m.pendingDeltas /\ x.requests = m.requests
      /\ x.recovering = m.recovering /\ x.unseen = seen
  BY <1>4 DEF SoundManagers, Managers
<1> QED
  BY <1>1, <1>3, <1>5

\* As Covered, but the book may miss what the baseline has not passed yet.
Loose(m, h, n, u) ==
  Served(m, u) =>
    /\ \A j \in m.missing[u] : j \in m.unseen \cup Late(u) \/ Ahead(m, h, n, j)
    /\ \A j \in Deltas(h, n, u, m.seq[u]) : j \in m.unseen \cup Held(m) \/ Ahead(m, h, n, j)

\* The baseline takes the message at k, and what was lost before the first is known to be unseen.
Advanced(y, x, h, k) ==
  /\ y.lastSeq = k
  /\ y.books = x.books /\ y.seq = x.seq /\ y.missing = x.missing
  /\ y.bootstrap = x.bootstrap /\ y.tickers = x.tickers
  /\ y.pendingDeltas = x.pendingDeltas /\ y.requests = x.requests
  /\ y.recovering = x.recovering /\ x.unseen \subseteq y.unseen
  /\ \A j \in 1 .. k : Ahead(x, h, k, j) => j \in y.unseen

\* The baseline of a sid in sequence takes the next message.
LEMMA AdvanceTakes ==
  ASSUME NEW x \in SoundManagers, NEW h, NEW n \in Nat, Extended(h, n),
         x.lastSeq \in {NoSeq, n}, ~h[n + 1].lost, NEW y, y = Advance(x, n + 1)
  PROVE  y \in SoundManagers /\ Advanced(y, x, h, n + 1)
<1>1. PICK k \in Numbers : k = n + 1
  BY DEF Extended
<1>2. x.lastSeq <= k /\ k - 1 = n
  BY <1>1 DEF NoSeq
<1>3. y = Advance(x, k)
  BY <1>1
<1>4. /\ y \in SoundManagers /\ y.lastSeq = (IF x.lastSeq <= k THEN k ELSE x.lastSeq)
      /\ y.books = x.books /\ y.seq = x.seq /\ y.missing = x.missing
      /\ y.bootstrap = x.bootstrap /\ y.tickers = x.tickers
      /\ y.pendingDeltas = x.pendingDeltas /\ y.requests = x.requests
      /\ y.recovering = x.recovering
      /\ y.unseen = IF x.lastSeq = NoSeq THEN x.unseen \cup {j \in 1 .. k - 1 : log[j].lost}
                    ELSE x.unseen
  BY <1>3, AdvanceKeeps
<1>5. ASSUME NEW j \in 1 .. n + 1, Ahead(x, h, n + 1, j) PROVE j \in y.unseen
  <2>1. j \in 1 .. n + 1 /\ j > x.lastSeq /\ h[j].lost /\ j # n + 1
    BY <1>5 DEF Ahead
  <2>2. j \in 1 .. n
    BY <2>1
  <2>3. x.lastSeq = NoSeq
    BY <2>1, <2>2 DEF NoSeq
  <2>4. log[j].lost
    BY <2>1, <2>2 DEF Extended
  <2> QED
    BY <1>2, <1>4, <2>2, <2>3, <2>4
<1> QED
  BY <1>1, <1>2, <1>4, <1>5 DEF Advanced

\* With the baseline past them, losses before its first message are unseen.
LEMMA AdvanceCovered ==
  ASSUME NEW x, NEW y, NEW h, NEW k \in Nat, Advanced(y, x, h, k),
         NEW u, Loose(x, h, k, u)
  PROVE  Covered(y, h, k, u)
<1>1. Held(y) = Held(x) /\ (Served(y, u) <=> Served(x, u))
  BY DEF Advanced, Held, Served
<1>2. \A j : Ahead(x, h, k, j) => j \in y.unseen
  BY DEF Advanced, Ahead
<1> QED
  BY <1>1, <1>2 DEF Loose, Covered, Advanced

\* A sid in sequence that advances over the next message is orderly with it.
LEMMA AdvanceOrderly ==
  ASSUME NEW x \in SoundManagers, NEW h, NEW n \in Nat, Extended(h, n),
         Within(x, h, n + 1), \A u \in Tickers : Loose(x, h, n + 1, u), Settled(x),
         Unawaited(x), x.lastSeq \in {NoSeq, n}, ~h[n + 1].lost
  PROVE  Orderly(Advance(x, n + 1), h, n + 1)
<1>1. PICK y : y = Advance(x, n + 1)
  OBVIOUS
<1>2. y \in SoundManagers /\ Advanced(y, x, h, n + 1)
  BY <1>1, AdvanceTakes
<1>3. Held(y) = Held(x)
  BY <1>2 DEF Held, Advanced
<1>4. Within(y, h, n + 1)
  BY <1>2 DEF Within, Advanced
<1>5. Covers(y, h, n + 1)
  BY <1>2, AdvanceCovered DEF Covers
<1>6. Settled(y)
  BY <1>2, <1>3 DEF Settled, Idle, Advanced
<1>7. Awaits(y, h, n + 1)
  BY <1>2 DEF Awaits, Unawaited, Advanced
<1> QED
  BY <1>1, <1>4, <1>5, <1>6, <1>7 DEF Orderly

\* A message of a market whose book does not lack it leaves the other books as they were.
LEMMA OthersCovered ==
  ASSUME NEW m \in SoundManagers, NEW x, NEW h, NEW n \in Nat, Orderly(m, h, n),
         x.lastSeq = m.lastSeq, x.unseen = m.unseen, x.pendingDeltas = m.pendingDeltas,
         NEW u \in Tickers, u # h[n + 1].ticker \/ h[n + 1].kind # "delta",
         x.books[u] = m.books[u], x.seq[u] = m.seq[u], x.missing[u] = m.missing[u]
  PROVE  Covered(x, h, n + 1, u)
<1>1. Covered(m, h, n, u)
  BY DEF Orderly, Covers
<1>2. m.seq[u] \in Nat
  BY NumbersOf
<1>3. Deltas(h, n + 1, u, m.seq[u]) \subseteq Deltas(h, n, u, m.seq[u])
  BY <1>2, DeltasNext
<1>4. ASSUME NEW j, Ahead(m, h, n, j) PROVE Ahead(x, h, n + 1, j)
  BY <1>4 DEF Ahead
<1>5. Held(x) = Held(m)
  BY DEF Held
<1> QED
  BY <1>1, <1>3, <1>4, <1>5 DEF Covered, Served

\* Loose is weaker than Covered.
LEMMA CoveredLoose ==
  ASSUME NEW m, NEW h, NEW n, NEW u, Covered(m, h, n, u)
  PROVE  Loose(m, h, n, u)
  BY DEF Covered, Loose

\* What is within a history is within a longer one.
LEMMA WithinNext ==
  ASSUME NEW m \in SoundManagers, NEW h, NEW n \in Nat, Within(m, h, n)
  PROVE  Within(m, h, n + 1)
<1>1. m.lastSeq \in Int /\ \A u \in Tickers : m.seq[u] \in Nat
  BY NumbersOf
<1>2. ASSUME NEW u \in Tickers
      PROVE  \A i \in 1 .. Len(m.bootstrap[u]) : m.bootstrap[u][i].seq <= n + 1
  <2>1. PICK b \in Seq(Messages) : b = m.bootstrap[u]
    BY NumbersOf
  <2>2. \A i \in 1 .. Len(b) : b[i] \in Messages
    BY <2>1, ElementOfSeq
  <2>3. \A e \in Messages : e.seq \in Int
    BY BoundAssumption DEF Messages, Numbers
  <2>4. \A i \in 1 .. Len(b) : b[i].seq \in Int /\ b[i].seq <= n
    BY <2>1, <2>2, <2>3 DEF Within
  <2>5. \A i \in 1 .. Len(b) : b[i].seq <= n + 1
    BY <2>4
  <2> QED
    BY <2>1, <2>5
<1>3. m.lastSeq <= n + 1 /\ \A u \in Tickers : m.seq[u] <= n + 1
  BY <1>1 DEF Within
<1> QED
  BY <1>2, <1>3, MatchesNext DEF Within

\* What is neither a book's nor a queue's is as it was.
SameRest(x, m) ==
  /\ x.tickers = m.tickers /\ x.lastSeq = m.lastSeq /\ x.recovering = m.recovering
  /\ x.pendingDeltas = m.pendingDeltas /\ x.requests = m.requests /\ x.unseen = m.unseen

\* A snapshot renews one book.
Freshened(x, m, msg) ==
  /\ SameRest(x, m)
  /\ Served(x, msg.ticker) /\ x.seq[msg.ticker] = msg.seq
  /\ x.missing[msg.ticker] \subseteq Late(msg.ticker) /\ x.bootstrap[msg.ticker] = <<>>
  /\ \A u \in Tickers \ {msg.ticker} :
       /\ x.books[u] = m.books[u] /\ x.seq[u] = m.seq[u]
       /\ x.missing[u] = m.missing[u] /\ x.bootstrap[u] = m.bootstrap[u]

\* That is what Fresh does.
LEMMA FreshKeeps ==
  ASSUME NEW m \in SoundManagers, NEW msg, msg.seq \in Numbers, msg.ticker \in m.tickers,
         NEW x, x = Fresh(m, msg)
  PROVE  x \in SoundManagers /\ Freshened(x, m, msg)
<1>1. x \in SoundManagers
  BY FreshSound
<1>2. msg.ticker \in Tickers
  BY DEF SoundManagers, Managers
<1>3. SameRest(x, m)
  BY DEF Fresh, SoundManagers, Managers, SameRest
<1>4. /\ Served(x, msg.ticker) /\ x.seq[msg.ticker] = msg.seq
      /\ x.missing[msg.ticker] \subseteq Late(msg.ticker) /\ x.bootstrap[msg.ticker] = <<>>
  <2>1. Unshown(msg.ticker, msg.seq) \subseteq Late(msg.ticker)
    BY DEF Late
  <2>2. x.missing[msg.ticker] = Unshown(msg.ticker, msg.seq)
    BY <1>2 DEF Fresh, SoundManagers, Managers
  <2>3. Served(x, msg.ticker) /\ x.seq[msg.ticker] = msg.seq /\ x.bootstrap[msg.ticker] = <<>>
    BY <1>2 DEF Fresh, SoundManagers, Managers, Served
  <2> QED
    BY <2>1, <2>2, <2>3
<1>5. \A u \in Tickers \ {msg.ticker} :
        /\ x.books[u] = m.books[u] /\ x.seq[u] = m.seq[u]
        /\ x.missing[u] = m.missing[u] /\ x.bootstrap[u] = m.bootstrap[u]
  BY <1>2 DEF Fresh, SoundManagers, Managers
<1> QED
  BY <1>1, <1>3, <1>4, <1>5 DEF Freshened

\* A delta for a book that is not served waits in its queue.
QueuedOne(x, m, msg) ==
  /\ ~Served(m, msg.ticker) /\ SameRest(x, m)
  /\ x.books = m.books /\ x.seq = m.seq /\ x.missing = m.missing
  /\ \A u \in Tickers \ {msg.ticker} : x.bootstrap[u] = m.bootstrap[u]
  /\ \A k \in Int : (\A i \in 1 .. Len(m.bootstrap[msg.ticker]) :
                       m.bootstrap[msg.ticker][i].seq <= k) /\ msg.seq <= k
       => \A i \in 1 .. Len(x.bootstrap[msg.ticker]) : x.bootstrap[msg.ticker][i].seq <= k

\* It is applied to a served one, which skips what lies between.
AppliedOne(x, m, msg) ==
  /\ Served(m, msg.ticker) /\ msg.seq > m.seq[msg.ticker] /\ SameRest(x, m)
  /\ x.books = m.books /\ x.bootstrap = m.bootstrap
  /\ x.seq[msg.ticker] = msg.seq
  /\ x.missing[msg.ticker] = m.missing[msg.ticker]
                             \cup Skipped(msg.ticker, m.seq[msg.ticker], msg.seq)
  /\ \A u \in Tickers \ {msg.ticker} : x.seq[u] = m.seq[u] /\ x.missing[u] = m.missing[u]

\* A delta is queued, applied or a desync, and that is all it does.
LEMMA ApplyDeltaSteps ==
  ASSUME NEW m \in SoundManagers, NEW msg \in Messages, NEW o \in ApplyDelta(m, msg)
  PROVE  /\ o.m \in SoundManagers
         /\ \/ o.did = "queued" /\ QueuedOne(o.m, m, msg)
            \/ o.did = "applied" /\ AppliedOne(o.m, m, msg)
            \/ o.did = "desync" /\ o.m = m /\ Served(m, msg.ticker)
<1>1. PICK t \in Tickers : t = msg.ticker
  BY DEF Messages
<1>2. o.m \in SoundManagers
  BY ApplyDeltaSound DEF Outcomes
<1>3. PICK queue : queue = Append(m.bootstrap[t], msg)
  OBVIOUS
<1>4. PICK r : r = IF Len(queue) > BootCap THEN Tail(queue) ELSE queue
  OBVIOUS
<1>5. PICK lacks : lacks = m.missing[t] \cup Skipped(t, m.seq[t], msg.seq)
  OBVIOUS
<1>6. \/ ~Served(m, t) /\ o = [did |-> "queued", m |-> [m EXCEPT !.bootstrap[t] = r]]
      \/ /\ Served(m, t) /\ msg.seq > m.seq[t]
         /\ o = [did |-> "applied", m |-> [m EXCEPT !.seq[t] = msg.seq, !.missing[t] = lacks]]
      \/ Served(m, t) /\ o = [did |-> "desync", m |-> m]
  BY <1>1, <1>3, <1>4, <1>5 DEF ApplyDelta, When
<1>7. ASSUME ~Served(m, t), o = [did |-> "queued", m |-> [m EXCEPT !.bootstrap[t] = r]]
      PROVE  QueuedOne(o.m, m, msg)
  <2>1. o.m = [m EXCEPT !.bootstrap[t] = r]
    BY <1>7
  <2>2. SameRest(o.m, m)
    BY <2>1 DEF SoundManagers, Managers, SameRest
  <2>3. o.m.books = m.books /\ o.m.seq = m.seq /\ o.m.missing = m.missing
    BY <2>1 DEF SoundManagers, Managers
  <2>4. o.m.bootstrap[t] = r /\ \A u \in Tickers \ {t} : o.m.bootstrap[u] = m.bootstrap[u]
    BY <2>1 DEF SoundManagers, Managers
  <2>5. ASSUME NEW k \in Int, \A i \in 1 .. Len(m.bootstrap[t]) : m.bootstrap[t][i].seq <= k,
               msg.seq <= k
        PROVE  \A i \in 1 .. Len(r) : r[i].seq <= k
    <3>1. PICK old : old = {e \in Messages : e.seq <= k}
      OBVIOUS
    <3>2. PICK b \in Seq(Messages) : b = m.bootstrap[t]
      BY NumbersOf
    <3>3. b \in Seq(old)
      <4>1. \A i \in 1 .. Len(b) : b[i] \in old
        BY <2>5, <3>1, <3>2, ElementOfSeq
      <4> QED
        BY <3>2, <4>1, LenProperties, SeqDef
    <3>4. queue \in Seq(old) /\ queue # <<>>
      BY <1>3, <2>5, <3>1, <3>2, <3>3, AppendProperties
    <3>5. r \in Seq(old)
      BY <1>4, <3>4, HeadTailProperties
    <3>6. \A i \in 1 .. Len(r) : r[i] \in old
      BY <3>5, ElementOfSeq
    <3> QED
      BY <3>1, <3>6
  <2>6. \A k \in Int : (\A i \in 1 .. Len(m.bootstrap[t]) : m.bootstrap[t][i].seq <= k)
                     /\ msg.seq <= k => \A i \in 1 .. Len(r) : r[i].seq <= k
    BY <2>5
  <2>7. PICK y : y = o.m
    OBVIOUS
  <2>8. \A k \in Int : (\A i \in 1 .. Len(m.bootstrap[t]) : m.bootstrap[t][i].seq <= k)
                     /\ msg.seq <= k
                     => \A i \in 1 .. Len(y.bootstrap[t]) : y.bootstrap[t][i].seq <= k
    BY <2>4, <2>6, <2>7
  <2>9. /\ ~Served(m, t) /\ SameRest(y, m)
        /\ y.books = m.books /\ y.seq = m.seq /\ y.missing = m.missing
        /\ \A u \in Tickers \ {t} : y.bootstrap[u] = m.bootstrap[u]
    BY <1>7, <2>2, <2>3, <2>4, <2>7
  <2>10. QueuedOne(y, m, msg)
    BY <1>1, <2>8, <2>9 DEF QueuedOne
  <2> QED
    BY <2>7, <2>10
<1>8. ASSUME Served(m, t), msg.seq > m.seq[t],
             o = [did |-> "applied", m |-> [m EXCEPT !.seq[t] = msg.seq, !.missing[t] = lacks]]
      PROVE  AppliedOne(o.m, m, msg)
  <2>1. o.m = [m EXCEPT !.seq[t] = msg.seq, !.missing[t] = lacks]
    BY <1>8
  <2>2. SameRest(o.m, m)
    BY <2>1 DEF SoundManagers, Managers, SameRest
  <2>3. /\ o.m.books = m.books /\ o.m.bootstrap = m.bootstrap
        /\ o.m.seq[t] = msg.seq /\ o.m.missing[t] = lacks
    BY <2>1 DEF SoundManagers, Managers
  <2>4. \A u \in Tickers \ {t} : o.m.seq[u] = m.seq[u] /\ o.m.missing[u] = m.missing[u]
    BY <2>1 DEF SoundManagers, Managers
  <2> QED
    BY <1>1, <1>5, <1>8, <2>2, <2>3, <2>4 DEF AppliedOne
<1> QED
  BY <1>1, <1>2, <1>6, <1>7, <1>8

\* The next message of the history, which was not lost.
Arrives(msg, h, n) ==
  /\ msg \in Messages /\ msg.seq = n + 1
  /\ h[n + 1].ticker = msg.ticker /\ h[n + 1].kind = msg.kind /\ ~h[n + 1].lost

\* A snapshot in sequence renews its book, and the baseline takes it.
LEMMA SnapshotInSequence ==
  ASSUME NEW m \in SoundManagers, NEW h, NEW n \in Nat, Extended(h, n), AnswersType,
         Orderly(m, h, n), Quiet(m), NEW msg, Arrives(msg, h, n), msg.ticker \in m.tickers,
         m.lastSeq \in {NoSeq, n}, msg.kind = "snapshot", NEW z \in InSequence(m, msg)
  PROVE  Orderly(z, h, n + 1)
<1>1. PICK t \in Tickers : t = msg.ticker
  BY DEF Arrives, Messages
<1>2. /\ msg.seq = n + 1 /\ n + 1 \in Numbers /\ h[n + 1].kind = "snapshot"
      /\ ~h[n + 1].lost
  BY DEF Arrives, Extended
<1>3. Within(m, h, n + 1)
  BY WithinNext DEF Orderly
<1>4. PICK x : x = Fresh(m, msg)
  OBVIOUS
<1>5. z = Advance(x, n + 1)
  <2>1. ApplySnapshot(m, msg) = {x}
    BY <1>1, <1>2, <1>3, <1>4, ApplySnapshotFresh DEF Within
  <2> QED
    BY <1>2, <2>1 DEF InSequence
<1>6. /\ x \in SoundManagers /\ SameRest(x, m)
      /\ x.seq[t] = n + 1 /\ x.missing[t] \subseteq Late(t) /\ x.bootstrap[t] = <<>>
      /\ \A u \in Tickers \ {t} :
           /\ x.books[u] = m.books[u] /\ x.seq[u] = m.seq[u]
           /\ x.missing[u] = m.missing[u] /\ x.bootstrap[u] = m.bootstrap[u]
  <2>1. msg.seq \in Numbers
    BY <1>2
  <2>2. x \in SoundManagers /\ Freshened(x, m, msg)
    BY <1>4, <2>1, FreshKeeps
  <2> QED
    BY <1>1, <1>2, <2>2 DEF Freshened
<1>7. Within(x, h, n + 1)
  <2>1. x.seq[t] <= n + 1 /\ \A i \in 1 .. Len(x.bootstrap[t]) : x.bootstrap[t][i].seq <= n + 1
    BY <1>6
  <2> QED
    BY <1>3, <1>6, <2>1 DEF Within, SameRest
<1>8. ASSUME NEW u \in Tickers PROVE Loose(x, h, n + 1, u)
  <2>1. CASE u = t
    <3>1. Deltas(h, n + 1, t, n + 1) = {}
      BY DEF Deltas
    <3> QED
      BY <1>6, <2>1, <3>1 DEF Loose
  <2>2. CASE u # t
    BY <1>2, <1>6, <2>2, OthersCovered, CoveredLoose DEF SameRest
  <2> QED
    BY <2>1, <2>2
<1>9. Settled(x) /\ Unawaited(x)
  <2>1. Held(x) = Held(m)
    BY <1>6 DEF SameRest, Held
  <2> QED
    BY <1>6, <2>1, IdleUnawaited DEF SameRest, Settled, Orderly, Quiet, Idle
<1> QED
  BY <1>2, <1>5, <1>6, <1>7, <1>8, <1>9, AdvanceOrderly DEF SameRest

\* A book is quarantined, which may begin a recovery.
LEMMA QuarantineOrderly ==
  ASSUME NEW x \in SoundManagers, NEW h, NEW n \in Nat, NEW t \in Tickers, AnswersType,
         Within(x, h, n), \A u \in Tickers \ {t} : Covered(x, h, n, u), Quiet(x),
         Held(x) \subseteq x.unseen,
         NEW q \in TryRecovery(MarkStale(x, {t}), FALSE)
  PROVE  /\ q.m \in SoundManagers /\ Orderly(q.m, h, n) /\ Unawaited(q.m)
         /\ q.m.lastSeq = x.lastSeq
<1>1. PICK y : y = MarkStale(x, {t})
  OBVIOUS
<1>2. /\ y \in SoundManagers /\ Follows(y, x) /\ ~Served(y, t) /\ Quiet(y)
      /\ Held(y) \subseteq y.unseen
  <2>1. y \in SoundManagers /\ \A u \in Tickers : Served(y, u) <=> Served(x, u) /\ u \notin {t}
    BY <1>1, MarkStaleSound
  <2>2. /\ Follows(y, x) /\ y.requests = x.requests /\ y.recovering = x.recovering
        /\ y.pendingDeltas = x.pendingDeltas /\ y.unseen = x.unseen
    BY <1>1, MarkStaleFollows
  <2>3. ~Served(y, t)
    BY <2>1
  <2> QED
    BY <2>1, <2>2, <2>3 DEF Quiet, Idle, Held
<1>3. Within(y, h, n)
  BY <1>2, FollowsWithin
<1>4. Covers(y, h, n)
  <2>1. ASSUME NEW u \in Tickers PROVE Covered(y, h, n, u)
    <3>1. CASE u = t
      BY <1>2, <3>1 DEF Covered
    <3>2. CASE u # t
      BY <1>2, <3>2, FollowsCovers
    <3> QED
      BY <3>1, <3>2
  <2> QED
    BY <2>1 DEF Covers
<1>5. Recovered(q, y)
  BY <1>1, <1>2, TryRecoverySound
<1>6. Orderly(q.m, h, n)
  BY <1>2, <1>3, <1>4, <1>5, RecoveredOrderly
<1> QED
  BY <1>2, <1>5, <1>6 DEF Recovered, Follows

\* What a book skips, as deltas of a history the log begins.
LEMMA SkippedAre ==
  ASSUME NEW h, \A j \in 1 .. Len(log) : h[j] = log[j], Len(log) \in Nat,
         NEW t, NEW from \in Nat, NEW to \in Nat, to <= Len(log) + 1
  PROVE  Skipped(t, from, to) = Deltas(h, to - 1, t, from)
<1>1. PICK n \in Nat : n = Len(log)
  OBVIOUS
<1>2. \A j \in from + 1 .. to - 1 : j \in 1 .. n
  BY <1>1
<1> QED
  BY <1>1, <1>2 DEF Skipped, Deltas

\* A delta in sequence: queued, applied, applied to a book that then shows incoherent, or a
\* desync, with the recovery the last two try.
LEMMA DeltaInSequence ==
  ASSUME NEW m \in SoundManagers, NEW h, NEW n \in Nat, Extended(h, n), AnswersType,
         Orderly(m, h, n), Quiet(m), NEW msg, Arrives(msg, h, n),
         m.lastSeq \in {NoSeq, n}, msg.kind # "snapshot", NEW z \in InSequence(m, msg)
  PROVE  Orderly(z, h, n + 1)
<1>1. PICK t \in Tickers : t = msg.ticker
  BY DEF Arrives, Messages
<1>2. /\ msg \in Messages /\ msg.seq = n + 1 /\ h[n + 1].ticker = t /\ ~h[n + 1].lost
  BY <1>1 DEF Arrives
<1>3. Within(m, h, n + 1)
  BY WithinNext DEF Orderly
<1>4. Held(m) \subseteq m.unseen /\ Unawaited(m) /\ Quiet(m)
  BY IdleUnawaited DEF Orderly, Settled, Quiet
<1>10. PICK k \in Numbers : k = n + 1
  BY DEF Extended
<1>5. PICK o \in ApplyDelta(m, msg) : SequenceStep(z, o, t, k)
  <2>1. k = msg.seq
    BY <1>2, <1>10
  <2> QED
    BY <1>1, <2>1, InSequenceSteps
<1>6. /\ o.m \in SoundManagers
      /\ \/ o.did = "queued" /\ QueuedOne(o.m, m, msg)
         \/ o.did = "applied" /\ AppliedOne(o.m, m, msg)
         \/ o.did = "desync" /\ o.m = m
  BY <1>2, ApplyDeltaSteps
<1>7. CASE o.did = "queued"
  <2>1. QueuedOne(o.m, m, msg) /\ (z = o.m \/ z = Advance(o.m, n + 1))
    BY <1>5, <1>6, <1>7, <1>10 DEF SequenceStep
  <2>2. Within(o.m, h, n + 1)
    <3>1. \A i \in 1 .. Len(o.m.bootstrap[t]) : o.m.bootstrap[t][i].seq <= n + 1
      <4>1. n + 1 \in Int /\ msg.seq <= n + 1
        BY <1>2
      <4> QED
        BY <1>1, <1>3, <2>1, <4>1 DEF QueuedOne, Within
    <3> QED
      BY <1>1, <1>3, <2>1, <3>1 DEF QueuedOne, SameRest, Within
  <2>3. ASSUME NEW u \in Tickers PROVE Covered(o.m, h, n + 1, u)
    <3>1. CASE u = t
      BY <1>1, <2>1, <3>1 DEF Covered, QueuedOne, Served
    <3>2. CASE u # t
      BY <1>2, <2>1, <3>2, OthersCovered DEF QueuedOne, SameRest
    <3> QED
      BY <3>1, <3>2
  <2>4. Settled(o.m) /\ Idle(o.m) /\ Unawaited(o.m) /\ o.m.lastSeq = m.lastSeq
    <3>1. Held(o.m) = Held(m)
      BY <2>1 DEF QueuedOne, SameRest, Held
    <3> QED
      BY <1>4, <2>1, <3>1 DEF QueuedOne, SameRest, Settled, Quiet, Idle, Unawaited
  <2>5. CASE z = o.m
    BY <2>2, <2>3, <2>4, <2>5, IdleAwaits DEF Orderly, Covers
  <2>6. CASE z = Advance(o.m, n + 1)
    BY <1>2, <1>6, <2>2, <2>3, <2>4, <2>6, CoveredLoose, AdvanceOrderly
  <2> QED
    BY <2>1, <2>5, <2>6
<1>8. CASE o.did = "desync"
  <2>1. PICK x : x = IF m.lastSeq = NoSeq THEN m ELSE Advance(m, n + 1)
    OBVIOUS
  <2>2. o.m = m
    BY <1>6, <1>8
  <2>3. PICK q \in TryRecovery(MarkStale(x, {t}), FALSE) : z = q.m
    <3>1. x = Consumed(o.m, k)
      BY <1>10, <2>1, <2>2 DEF Consumed
    <3> QED
      BY <1>5, <1>8, <3>1 DEF SequenceStep
  <2>4. \A u \in Tickers \ {t} : Covered(m, h, n + 1, u)
    BY <1>2, OthersCovered
  <2>5. /\ x \in SoundManagers /\ Within(x, h, n + 1) /\ Quiet(x) /\ Held(x) \subseteq x.unseen
        /\ \A u \in Tickers \ {t} : Covered(x, h, n + 1, u)
    <3>1. CASE x = m
      BY <1>3, <1>4, <2>4, <3>1
    <3>2. CASE x = Advance(m, n + 1)
      <4>1. x \in SoundManagers /\ Advanced(x, m, h, n + 1)
        BY <1>2, <3>2, AdvanceTakes
      <4>2. Held(x) = Held(m)
        BY <4>1 DEF Advanced, Held
      <4>3. Within(x, h, n + 1)
        BY <1>3, <4>1 DEF Within, Advanced
      <4>4. Quiet(x) /\ Held(x) \subseteq x.unseen
        BY <1>4, <4>1, <4>2 DEF Quiet, Idle, Advanced
      <4>5. \A u \in Tickers \ {t} : Covered(x, h, n + 1, u)
        BY <2>4, <4>1, CoveredLoose, AdvanceCovered
      <4> QED
        BY <4>1, <4>3, <4>4, <4>5
    <3> QED
      BY <2>1, <3>1, <3>2
  <2>7. Orderly(q.m, h, n + 1)
    <3>1. PICK j \in Nat : j = n + 1
      OBVIOUS
    <3>2. Orderly(q.m, h, j)
      BY <2>3, <2>5, <3>1, QuarantineOrderly
    <3> QED
      BY <3>1, <3>2
  <2> QED
    BY <2>3, <2>7
<1>9. CASE o.did = "applied"
  <2>1. PICK x \in SoundManagers : x = o.m /\ AppliedOne(x, m, msg)
    BY <1>6, <1>9
  <2>2. \/ z = Advance(x, n + 1)
        \/ \E q \in TryRecovery(MarkStale(x, {t}), FALSE) : z = q.m \/ z = Advance(q.m, n + 1)
    BY <1>5, <1>9, <1>10, <2>1 DEF SequenceStep
  <2>3. Within(x, h, n + 1)
    BY <1>1, <1>2, <1>3, <2>1 DEF AppliedOne, SameRest, Within
  <2>4. /\ Settled(x) /\ Quiet(x) /\ Unawaited(x) /\ x.lastSeq = m.lastSeq
        /\ Held(x) = Held(m) /\ Held(x) \subseteq x.unseen
    <3>1. Held(x) = Held(m)
      BY <2>1 DEF AppliedOne, SameRest, Held
    <3> QED
      BY <1>4, <2>1, <3>1 DEF AppliedOne, SameRest, Settled, Quiet, Idle, Unawaited
  <2>5. \A u \in Tickers \ {t} : Covered(x, h, n + 1, u)
    BY <1>1, <1>2, <2>1, OthersCovered DEF AppliedOne, SameRest
  <2>6. Loose(x, h, n + 1, t)
    <3>1. /\ m.missing[t] \subseteq m.unseen \cup Late(t)
          /\ \A j \in Deltas(h, n, t, m.seq[t]) : j \in m.unseen \cup Held(m) \/ Ahead(m, h, n, j)
      BY <1>1, <2>1 DEF AppliedOne, Orderly, Covers, Covered
    <3>2. Skipped(t, m.seq[t], n + 1) = Deltas(h, n, t, m.seq[t])
      <4>1. m.seq[t] \in Nat /\ n = Len(log) /\ n + 1 - 1 = n
        BY NumbersOf DEF Extended
      <4>2. PICK c \in Nat : c = m.seq[t]
        BY <4>1
      <4>3. \A j \in 1 .. n : h[j] = log[j]
        BY <4>1 DEF Extended
      <4>4. Skipped(t, c, n + 1) = Deltas(h, n, t, c)
        BY <4>1, <4>3 DEF Skipped, Deltas
      <4> QED
        BY <4>2, <4>4
    <3>3. ASSUME NEW j, Ahead(m, h, n, j) PROVE Ahead(x, h, n + 1, j)
      BY <2>4, <3>3 DEF Ahead
    <3>4. x.missing[t] = m.missing[t] \cup Deltas(h, n, t, m.seq[t]) /\ x.seq[t] = n + 1
          /\ x.unseen = m.unseen
      BY <1>1, <1>2, <2>1, <3>2 DEF AppliedOne, SameRest
    <3>5. Deltas(h, n + 1, t, n + 1) = {}
      BY DEF Deltas
    <3> QED
      BY <1>4, <3>1, <3>3, <3>4, <3>5 DEF Loose
  <2>7. CASE z = Advance(x, n + 1)
    <3>1. \A u \in Tickers : Loose(x, h, n + 1, u)
      BY <2>5, <2>6, CoveredLoose
    <3> QED
      BY <1>2, <2>3, <2>4, <2>7, <3>1, AdvanceOrderly
  <2>8. ASSUME NEW q \in TryRecovery(MarkStale(x, {t}), FALSE), z = q.m \/ z = Advance(q.m, n + 1)
        PROVE  Orderly(z, h, n + 1)
    <3>1. q \in TryRecovery(MarkStale(x, {t}), FALSE)
      OBVIOUS
    <3>2. PICK j \in Nat : j = n + 1
      OBVIOUS
    <3>3. /\ q.m \in SoundManagers /\ Orderly(q.m, h, j) /\ Unawaited(q.m)
          /\ q.m.lastSeq = x.lastSeq
      <4>1. /\ Within(x, h, j) /\ Quiet(x) /\ Held(x) \subseteq x.unseen
            /\ \A u \in Tickers \ {t} : Covered(x, h, j, u)
        BY <2>3, <2>4, <2>5, <3>2
      <4>2. q.m \in SoundManagers
        BY <3>1, <4>1, QuarantineOrderly
      <4>3. Orderly(q.m, h, j)
        BY <3>1, <4>1, QuarantineOrderly
      <4>4. Unawaited(q.m)
        BY <3>1, <4>1, QuarantineOrderly
      <4>5. q.m.lastSeq = x.lastSeq
        <5>1. PICK y : y = MarkStale(x, {t})
          OBVIOUS
        <5>2. y \in SoundManagers /\ y.lastSeq = x.lastSeq
          BY <5>1, MarkStaleSound, MarkStaleFollows DEF Follows
        <5> QED
          BY <3>1, <5>1, <5>2, TryRecoverySound DEF Follows
      <4> QED
        BY <4>2, <4>3, <4>4, <4>5
    <3>4. \A u \in Tickers : Loose(q.m, h, j, u)
      BY <3>3, CoveredLoose DEF Orderly, Covers
    <3>5. Orderly(Advance(q.m, n + 1), h, n + 1)
      BY <1>2, <2>4, <3>2, <3>3, <3>4, AdvanceOrderly DEF Orderly
    <3> QED
      BY <2>8, <3>2, <3>3, <3>5
  <2> QED
    BY <2>2, <2>7, <2>8
<1> QED
  BY <1>6, <1>7, <1>8, <1>9

-----------------------------------------------------------------------------
(* Gaps, and messages as a whole                                           *)

\* A sid none of whose books is served may move its baseline where it will.
LEMMA BlindOrderly ==
  ASSUME NEW m \in SoundManagers, NEW x \in SoundManagers, NEW h, NEW n \in Nat,
         Orderly(m, h, n), Unawaited(m), \A u \in Tickers : ~Served(m, u),
         x.books = m.books, x.seq = m.seq, x.bootstrap = m.bootstrap,
         x.pendingDeltas = m.pendingDeltas, x.requests = m.requests,
         x.recovering = m.recovering, x.unseen = m.unseen,
         x.lastSeq = m.lastSeq \/ x.lastSeq = n + 1
  PROVE  Orderly(x, h, n + 1)
<1>1. Within(m, h, n + 1)
  BY WithinNext DEF Orderly
<1>2. Within(x, h, n + 1)
  BY <1>1 DEF Within
<1>3. Covers(x, h, n + 1)
  BY DEF Covers, Covered, Served
<1>4. Settled(x)
  BY DEF Orderly, Settled, Idle, Held
<1>5. Awaits(x, h, n + 1)
  BY DEF Awaits, Unawaited
<1> QED
  BY <1>2, <1>3, <1>4, <1>5 DEF Orderly

\* While a sid is disabled its gaps are swallowed, and what they hide is known to be unseen.
LEMMA SwallowedOrderly ==
  ASSUME NEW m \in SoundManagers, NEW h, NEW n \in Nat, Extended(h, n), AnswersType,
         Orderly(m, h, n), Quiet(m), m.lastSeq # NoSeq,
         NEW more, more = m.lastSeq + 1 .. n + 1, NEW z, z = Moved(m, n + 1, more)
  PROVE  Orderly(z, h, n + 1)
<1>1. m.lastSeq \in Nat /\ m.lastSeq <= n /\ \A u \in Tickers : m.seq[u] \in Nat
  BY NumbersOf DEF Orderly, Within
<1>2. n + 1 \in more /\ more \in SUBSET Numbers /\ n + 1 \in Numbers \cup {NoSeq}
  <2>1. n + 1 \in Numbers
    BY DEF Extended
  <2>2. \A j \in more : j \in Nat /\ j <= n + 1
    BY <1>1
  <2>3. \A j \in more : j \in Numbers
    BY <2>1, <2>2, BoundAssumption DEF Numbers
  <2> QED
    BY <1>1, <2>1, <2>3
<1>3. /\ z \in SoundManagers /\ z.lastSeq = n + 1 /\ z.unseen = m.unseen \cup more
      /\ z.books = m.books /\ z.seq = m.seq /\ z.missing = m.missing
      /\ z.bootstrap = m.bootstrap /\ z.tickers = m.tickers
      /\ z.pendingDeltas = m.pendingDeltas /\ z.requests = m.requests
      /\ z.recovering = m.recovering
  <2>1. PICK k \in Numbers \cup {NoSeq} : k = n + 1
    BY <1>2
  <2>2. z = Moved(m, k, more)
    BY <2>1
  <2>3. z \in SoundManagers /\ Shifted(z, m, k, more)
    BY <1>2, <2>2, MovedSound
  <2> QED
    BY <2>1, <2>3 DEF Shifted
<1>4. Within(m, h, n + 1)
  BY WithinNext DEF Orderly
<1>5. Within(z, h, n + 1)
  BY <1>3, <1>4 DEF Within
<1>6. Held(z) = Held(m)
  BY <1>3 DEF Held
<1>7. ASSUME NEW u \in Tickers PROVE Covered(z, h, n + 1, u)
  <2>1. Covered(m, h, n, u)
    BY DEF Orderly, Covers
  <2>2. ASSUME NEW j, Ahead(m, h, n, j) PROVE j \in more
    BY <1>1, <2>2 DEF Ahead
  <2>3. ASSUME Served(m, u), NEW j \in Deltas(h, n + 1, u, m.seq[u])
        PROVE  j \in z.unseen \cup Held(z)
    <3>1. j \in Deltas(h, n, u, m.seq[u]) \/ j = n + 1
      <4>1. PICK k \in Nat : k = m.seq[u]
        BY <1>1
      <4>2. j \in Deltas(h, n + 1, u, k)
        BY <2>3, <4>1
      <4>3. j \in Deltas(h, n, u, k) \/ j = n + 1
        BY <4>2, DeltasNext
      <4> QED
        BY <4>1, <4>3
    <3> QED
      BY <1>2, <1>3, <1>6, <2>1, <2>2, <2>3, <3>1 DEF Covered
  <2> QED
    BY <1>3, <2>1, <2>3 DEF Covered, Served
<1>8. Settled(z)
  BY <1>3, <1>6 DEF Orderly, Settled, Idle
<1>9. Awaits(z, h, n + 1)
  BY <1>3, IdleAwaits DEF Quiet, Idle
<1> QED
  BY <1>5, <1>7, <1>8, <1>9 DEF Orderly, Covers

\* A gap leaves an orderly sid, whatever becomes of its recovery.
LEMMA GapOrderly ==
  ASSUME NEW m \in SoundManagers, NEW h, NEW n \in Nat, Extended(h, n), AnswersType,
         Orderly(m, h, n), Quiet(m), NEW msg, Arrives(msg, h, n), IsGap(m, msg),
         NEW z \in Gap(m, msg)
  PROVE  Orderly(z, h, n + 1)
<1>1. /\ msg \in Messages /\ msg.seq = n + 1 /\ h[n + 1].ticker = msg.ticker
      /\ h[n + 1].kind = msg.kind
  BY DEF Arrives
<1>2. PICK r : r = IF m.disabled THEN Rearm(m) ELSE m
  OBVIOUS
<1>3. r \in SoundManagers /\ Follows(r, m) /\ ~r.disabled /\ Quiet(r)
  <2>1. CASE m.disabled
    BY <1>2, <2>1, RearmSound
  <2>2. CASE ~m.disabled
    BY <1>2, <2>2 DEF Follows
  <2> QED
    BY <2>1, <2>2
<1>4. Within(r, h, n) /\ Covers(r, h, n) /\ Held(r) \subseteq r.unseen
  <2>1. Within(r, h, n)
    BY <1>3, FollowsWithin DEF Orderly
  <2>2. Covers(r, h, n)
    BY <1>3, FollowsCovers DEF Orderly, Covers
  <2>3. Held(m) \subseteq m.unseen /\ m.unseen \subseteq r.unseen
    BY <1>3 DEF Orderly, Settled, Quiet, Follows
  <2>4. Held(r) = Held(m) \/ Held(r) = {}
    <3>1. CASE r.pendingDeltas = <<>>
      BY <3>1, HeldNothing
    <3>2. CASE r.pendingDeltas = m.pendingDeltas
      BY <3>2 DEF Held
    <3> QED
      BY <1>3, <3>1, <3>2 DEF Follows
  <2> QED
    BY <2>1, <2>2, <2>3, <2>4
<1>5. ASSUME NEW o \in TryRecovery(r, TRUE), GapStep(z, o, msg)
      PROVE  Orderly(z, h, n + 1)
  <2>1. o.m \in SoundManagers /\ Recovered(o, r) /\ \A u \in r.tickers : ~Served(o.m, u)
    BY <1>3, <1>5, TryRecoverySound
  <2>2. Orderly(o.m, h, n) /\ Unawaited(o.m)
    BY <1>3, <1>4, <2>1, RecoveredOrderly DEF Recovered
  <2>3. \A u \in Tickers : ~Served(o.m, u)
    <3>1. o.m.tickers = r.tickers
      BY <2>1 DEF Recovered, Follows
    <3> QED
      BY <2>1, <3>1 DEF SoundManagers, Served
  <2>4. CASE o.did = "started" /\ z = Keep(o.m, msg)
    BY <1>1, <2>1, <2>2, <2>4, KeepOrderly DEF Recovered
  <2>5. CASE z = [o.m EXCEPT !.lastSeq = msg.seq]
    <3>1. PICK y \in SoundManagers : y = o.m
      BY <2>1
    <3>2. PICK k \in Numbers \cup {NoSeq} : k = n + 1
      BY DEF Extended
    <3>3. PICK none \in SUBSET Numbers : none = {}
      OBVIOUS
    <3>4. PICK x : x = Moved(y, k, none)
      OBVIOUS
    <3>5. x \in SoundManagers /\ Shifted(x, y, k, none)
      BY <3>4, MovedSound
    <3>6. z = x
      BY <1>1, <2>5, <3>1, <3>2, <3>3, <3>4, MovedOnly
    <3>7. Orderly(x, h, n + 1)
      BY <2>2, <2>3, <3>1, <3>2, <3>3, <3>5, BlindOrderly DEF Shifted
    <3> QED
      BY <3>6, <3>7
  <2>6. CASE z = o.m
    BY <2>1, <2>2, <2>3, <2>6, BlindOrderly
  <2> QED
    BY <1>5, <2>4, <2>5, <2>6 DEF GapStep
<1>6. CASE z = Swallowed(m, msg)
  <2>1. PICK more : more = m.lastSeq + 1 .. n + 1
    OBVIOUS
  <2>2. z = Moved(m, n + 1, more) /\ m.lastSeq # NoSeq
    BY <1>1, <1>6, <2>1 DEF Moved, IsGap, Swallowed
  <2> QED
    BY <2>1, <2>2, SwallowedOrderly
<1>7. z = Swallowed(m, msg) \/ \E o \in TryRecovery(r, TRUE) : GapStep(z, o, msg)
  BY <1>1, <1>2, GapSteps
<1> QED
  BY <1>5, <1>6, <1>7

\* The next message, dispatched, leaves an orderly sid.
LEMMA DispatchOrderly ==
  ASSUME NEW m \in SoundManagers, NEW h, NEW n \in Nat, Extended(h, n), AnswersType,
         Orderly(m, h, n), NEW msg, Arrives(msg, h, n), msg.ticker \in m.tickers,
         NEW z \in Dispatch(m, msg)
  PROVE  Orderly(z, h, n + 1)
<1>1. /\ msg \in Messages /\ msg.seq = n + 1 /\ h[n + 1].ticker = msg.ticker
      /\ h[n + 1].kind = msg.kind
  BY DEF Arrives
<1>2. CASE m.recovering
  BY <1>1, <1>2, BufferItOrderly DEF Dispatch
<1>3. CASE ~m.recovering
  <2>1. Quiet(m)
    BY <1>3 DEF Quiet, Orderly, Settled
  <2>2. CASE IsGap(m, msg)
    BY <1>3, <2>1, <2>2, GapOrderly DEF Dispatch
  <2>3. CASE ~IsGap(m, msg)
    <3>1. m.lastSeq \in {NoSeq, n}
      <4>1. m.lastSeq \in Int
        BY NumbersOf
      <4> QED
        BY <1>1, <2>3, <4>1 DEF IsGap
    <3>2. z \in InSequence(m, msg)
      BY <1>3, <2>3 DEF Dispatch
    <3> QED
      BY <2>1, <3>1, <3>2, SnapshotInSequence, DeltaInSequence
  <2> QED
    BY <2>2, <2>3
<1> QED
  BY <1>2, <1>3

\* Learning of a market changes nothing of it.
LEMMA KnowsOrderly ==
  ASSUME NEW m \in SoundManagers, NEW h, NEW n, Orderly(m, h, n), NEW t \in Tickers,
         NEW x, x = Knows(m, t)
  PROVE  Orderly(x, h, n)
<1>1. /\ x.books = m.books /\ x.seq = m.seq /\ x.missing = m.missing
      /\ x.bootstrap = m.bootstrap /\ x.lastSeq = m.lastSeq
      /\ x.pendingDeltas = m.pendingDeltas /\ x.unseen = m.unseen
      /\ x.recovering = m.recovering /\ x.requests = m.requests
  BY KnowsSound
<1> QED
  BY <1>1 DEF Orderly, Within, Covers, Covered, Settled, Awaits, Fitting, Held, Served, Ahead, Idle

\* A scheduled recovery that a message sets off takes the message, or leaves it to be dispatched.
LEMMA FiredOrderly ==
  ASSUME NEW x \in SoundManagers, NEW h, NEW n \in Nat, Extended(h, n), AnswersType,
         Orderly(x, h, n), NEW msg, Arrives(msg, h, n), msg.ticker \in x.tickers,
         NEW o, ~x.recovering, Recovered(o, x), NEW z,
         \/ o.did = "raised" /\ z = Dropped(o.m, msg)
         \/ o.did = "started" /\ z = Keep(o.m, msg)
         \/ o.did = "nothing" /\ z \in Dispatch(o.m, msg)
  PROVE  Orderly(z, h, n + 1)
<1>1. /\ msg \in Messages /\ msg.seq = n + 1 /\ h[n + 1].ticker = msg.ticker
      /\ h[n + 1].kind = msg.kind
  BY DEF Arrives
<1>2. o.m \in SoundManagers /\ Orderly(o.m, h, n) /\ msg.ticker \in o.m.tickers
  BY RecoveredOrderly DEF Recovered, Orderly, Settled, Follows
<1>3. CASE o.did = "raised"
  BY <1>1, <1>2, <1>3, DroppedOrderly
<1>4. CASE o.did = "started"
  BY <1>1, <1>2, <1>4, KeepOrderly DEF Recovered
<1>5. CASE o.did = "nothing"
  BY <1>2, <1>5, DispatchOrderly
<1> QED
  BY <1>3, <1>4, <1>5

-----------------------------------------------------------------------------
(* The drain of the buffer, row by row                                     *)

\* A history up to n, of which the log is the beginning, but perhaps for its last message.
Reaches(h, n) ==
  Len(log) \in Nat /\ n <= Len(log) + 1 /\ \A j \in 1 .. Len(log) : h[j] = log[j]

\* What a served book of u lacks while the buffer is drained, its first i messages being dealt with.
Drawn(x, h, n, buffer, top, i, u) ==
  Served(x, u) =>
    /\ x.missing[u] \subseteq x.unseen \cup Late(u)
    /\ \A j \in Deltas(h, n, u, x.seq[u]) :
         \/ j \in x.unseen
         \/ j > top /\ h[j].lost
         \/ \E k \in i + 1 .. Len(buffer) : buffer[k].seq = j

\* The invariant of the drain's loop, before row i + 1 of the buffer.
Draining(x, h, n, buffer, top, i) ==
  /\ x \in SoundManagers /\ x.pendingDeltas = <<>> /\ Quiet(x)
  /\ x.lastSeq \in Nat /\ x.lastSeq <= top /\ Within(x, h, n)
  /\ \A u \in Tickers : Drawn(x, h, n, buffer, top, i, u)

\* The baseline a drain starts from is within the history,
LEMMA DrainBaseWithin ==
  ASSUME NEW m \in SoundManagers, NEW h, NEW n \in Nat, Within(m, h, n)
  PROVE  /\ DrainBase(m) \in Nat /\ DrainBase(m) <= n
         /\ Highest({m.lastSeq, 0}) = IF m.lastSeq = NoSeq THEN 0 ELSE m.lastSeq
<1>1. m.lastSeq \in Int /\ (m.lastSeq # NoSeq => m.lastSeq \in Nat)
  BY NumbersOf
<1>2. Highest({m.lastSeq, 0}) = IF m.lastSeq <= 0 THEN 0 ELSE m.lastSeq
  BY <1>1, HighestOfTwo
<1>3. Highest({m.lastSeq, 0}) = IF m.lastSeq = NoSeq THEN 0 ELSE m.lastSeq
  BY <1>1, <1>2 DEF NoSeq
<1>4. PICK U : U = {u \in m.tickers : m.books[u] # "none"}
  OBVIOUS
<1>5. PICK known : known = {m.seq[t] : t \in U}
  OBVIOUS
<1>6. U \subseteq Tickers /\ known \subseteq Int /\ \A k \in known : k \in Nat /\ k <= n
  <2>1. U \subseteq Tickers
    BY <1>4 DEF SoundManagers, Managers
  <2>2. \A u \in Tickers : m.seq[u] \in Nat /\ m.seq[u] <= n
    BY NumbersOf DEF Within
  <2>3. ASSUME NEW k \in known PROVE k \in Nat /\ k <= n
    BY <1>5, <2>1, <2>2
  <2>4. known \subseteq Int
    BY <2>3
  <2> QED
    BY <2>1, <2>3, <2>4
<1>7. IsFiniteSet(known)
  <2>1. PICK f : f = m.seq
    OBVIOUS
  <2>2. IsFiniteSet(U)
    BY <1>6, SetAssumption, FS_Subset
  <2>3. IsFiniteSet({f[t] : t \in U})
    BY <2>2, FiniteRange
  <2> QED
    BY <1>5, <2>1, <2>3
<1>8. known # {} => Highest(known) \in known
  BY <1>6, <1>7, HighestOf
<1>9. DrainBase(m) = IF known = {} THEN Highest({m.lastSeq, 0}) ELSE Highest(known)
  BY <1>4, <1>5 DEF DrainBase
<1>10. m.lastSeq <= n
  BY DEF Within
<1>11. DrainBase(m) \in Nat /\ DrainBase(m) <= n
  <2>1. CASE known = {}
    BY <1>1, <1>3, <1>9, <1>10, <2>1
  <2>2. CASE known # {}
    BY <1>6, <1>8, <1>9, <2>2
  <2> QED
    BY <2>1, <2>2
<1> QED
  BY <1>3, <1>11

\* and so is the last number it deals with, which no row exceeds.
LEMMA DrainTopWithin ==
  ASSUME NEW m \in SoundManagers, NEW h, NEW n \in Nat, Within(m, h, n),
         m.pendingDeltas # <<>>
  PROVE  /\ DrainTop(m, m.pendingDeltas) \in Nat /\ DrainTop(m, m.pendingDeltas) <= n
         /\ DrainBase(m) <= DrainTop(m, m.pendingDeltas)
         /\ \A i \in 1 .. Len(m.pendingDeltas) :
              m.pendingDeltas[i].seq <= DrainTop(m, m.pendingDeltas)
<1>1. PICK s \in Seq(Messages) : s = m.pendingDeltas
  BY NumbersOf
<1>2. PICK k \in Nat : k = Len(s)
  BY LenProperties
<1>3. k > 0
  BY <1>1, <1>2, EmptySeq
<1>4. \A i \in 1 .. k : s[i].seq \in 1 .. n
  BY <1>1, <1>2 DEF Within, Matches
<1>5. \A i \in 1 .. k : s[i].seq <= s[k].seq
  <2>1. ASSUME NEW i \in 1 .. k, i # k PROVE s[i].seq < s[k].seq
    <3>1. k \in 1 .. k /\ i < k
      BY <1>3, <2>1
    <3> QED
      BY <1>1, <1>2, <2>1, <3>1 DEF Within, Ascending
  <2>2. k \in 1 .. k
    BY <1>3
  <2>3. ASSUME NEW i \in 1 .. k PROVE s[i].seq \in Int
    BY <1>4
  <2> QED
    BY <2>1, <2>2, <2>3
<1>6. PICK last \in 1 .. n : last = s[k].seq
  BY <1>3, <1>4
<1>7. PICK base \in Nat : base = DrainBase(m) /\ base <= n
  BY DrainBaseWithin
<1>8. DrainTop(m, s) = IF base <= last THEN last ELSE base
  BY <1>2, <1>6, <1>7, HighestOfTwo DEF DrainTop
<1>9. \A i \in 1 .. k : s[i].seq <= DrainTop(m, s)
  BY <1>4, <1>5, <1>6, <1>7, <1>8
<1> QED
  BY <1>1, <1>2, <1>6, <1>7, <1>8, <1>9

\* The invariant holds when the loop starts.
LEMMA DrainStartDrains ==
  ASSUME NEW m \in SoundManagers, NEW h, NEW n \in Nat, Within(m, h, n), Covers(m, h, n),
         Quiet(m), NEW buffer, buffer = m.pendingDeltas, buffer # <<>>,
         NEW top, top = DrainTop(m, buffer)
  PROVE  Draining(DrainStart(m, buffer), h, n, buffer, top, 0)
<1>1. PICK x : x = DrainStart(m, buffer)
  OBVIOUS
<1>2. PICK s : s = {buffer[i].seq : i \in DOMAIN buffer}
  OBVIOUS
<1>3. PICK lower : lower = Highest({m.lastSeq, 0})
  OBVIOUS
<1>4. buffer \in Seq(Messages)
  BY NumbersOf
<1>5. /\ x \in SoundManagers /\ x.pendingDeltas = <<>>
      /\ x.books = m.books /\ x.seq = m.seq /\ x.missing = m.missing
      /\ x.bootstrap = m.bootstrap /\ x.requests = m.requests
      /\ x.recovering = m.recovering /\ x.tickers = m.tickers
      /\ x.lastSeq = DrainBase(m)
      /\ x.unseen = m.unseen \cup ((lower + 1 .. top) \ s)
  BY <1>1, <1>2, <1>3, <1>4, DrainStartSound
<1>6. /\ DrainBase(m) \in Nat /\ DrainBase(m) <= n /\ top \in Nat /\ DrainBase(m) <= top
      /\ lower \in Nat
      /\ (m.lastSeq # NoSeq => lower = m.lastSeq) /\ (m.lastSeq = NoSeq => lower = 0)
  BY <1>3, DrainBaseWithin, DrainTopWithin, NumbersOf
<1>7. Within(x, h, n)
  <2>1. Ascending(x.pendingDeltas) /\ Matches(x.pendingDeltas, h, n)
    BY <1>5 DEF Ascending, Matches
  <2> QED
    BY <1>5, <1>6, <2>1 DEF Within
<1>8. Quiet(x)
  BY <1>5 DEF Quiet, Idle
<1>9. ASSUME NEW u \in Tickers PROVE Drawn(x, h, n, buffer, top, 0, u)
  <2>1. Covered(m, h, n, u)
    BY DEF Covers
  <2>2. ASSUME NEW j, Ahead(m, h, n, j), j \notin s
        PROVE  j \in x.unseen \/ (j > top /\ h[j].lost)
    <3>1. j \in 1 .. n /\ j > m.lastSeq /\ h[j].lost
      BY <2>2 DEF Ahead
    <3>2. j >= lower + 1
      BY <1>6, <3>1
    <3> QED
      BY <1>5, <1>6, <2>2, <3>1, <3>2
  <2>3. ASSUME NEW j \in s PROVE \E k \in 0 + 1 .. Len(buffer) : buffer[k].seq = j
    <3>1. DOMAIN buffer = 1 .. Len(buffer)
      BY <1>4, LenProperties
    <3> QED
      BY <1>2, <2>3, <3>1
  <2>4. Held(m) = s
    BY <1>2 DEF Held
  <2> QED
    BY <1>5, <2>1, <2>2, <2>3, <2>4 DEF Covered, Drawn, Served
<1> QED
  BY <1>1, <1>5, <1>6, <1>7, <1>8, <1>9 DEF Draining

\* The message of row i, and its place in the history.
Row(msg, h, n, buffer, top, i) ==
  /\ buffer \in Seq(Messages) /\ i \in 1 .. Len(buffer) /\ msg = buffer[i]
  /\ Ascending(buffer) /\ Matches(buffer, h, n) /\ top \in Nat /\ msg.seq <= top

\* What its place says of it: the rows that follow have higher numbers.
Placed(msg, h, n, buffer, top, i) ==
  /\ msg \in Messages /\ msg.ticker \in Tickers /\ msg.seq \in Nat /\ msg.seq \in Numbers
  /\ msg.seq \in 1 .. n /\ h[msg.seq].ticker = msg.ticker /\ top \in Nat /\ msg.seq <= top
  /\ i \in Nat /\ Len(buffer) \in Nat
  /\ \A k \in i .. Len(buffer) : k \in i + 1 .. Len(buffer) \/ buffer[k] = msg
  /\ \A k \in i .. Len(buffer) : buffer[k].seq >= msg.seq

\* That is so of every row.
LEMMA RowPlaced ==
  ASSUME NEW msg, NEW h, NEW n \in Nat, NEW buffer, NEW top, NEW i,
         Row(msg, h, n, buffer, top, i)
  PROVE  Placed(msg, h, n, buffer, top, i)
<1>1. msg \in Messages
  BY ElementOfSeq DEF Row
<1>2. PICK l \in Nat : l = Len(buffer)
  BY LenProperties DEF Row
<1>3. i \in 1 .. l /\ i \in Nat
  BY <1>2 DEF Row
<1>4. \A k \in i .. l : k \in i + 1 .. l \/ k = i
  BY <1>3
<1>5. msg.seq \in 1 .. n /\ h[msg.seq].ticker = msg.ticker /\ msg.seq \in Nat
  BY <1>2, <1>3 DEF Row, Matches
<1>6. ASSUME NEW k \in i .. l PROVE buffer[k].seq >= msg.seq
  <2>1. CASE k = i
    BY <1>5, <2>1 DEF Row
  <2>2. CASE k # i
    <3>1. k \in 1 .. l /\ i < k
      BY <1>3, <1>6, <2>2
    <3>2. buffer[k].seq \in 1 .. n
      BY <1>2, <3>1 DEF Row, Matches
    <3>3. msg.seq < buffer[k].seq
      BY <1>2, <1>3, <3>1 DEF Row, Ascending
    <3> QED
      BY <1>5, <3>2, <3>3
  <2> QED
    BY <2>1, <2>2
<1> QED
  BY <1>1, <1>2, <1>3, <1>4, <1>5, <1>6 DEF Row, Messages, Placed

\* A book that the message is not for, or that has passed it, is as far drawn with it as without.
LEMMA DrawnOn ==
  ASSUME NEW x, NEW w, NEW h, NEW n \in Nat, NEW buffer, NEW top, NEW i, NEW msg,
         Row(msg, h, n, buffer, top, i), NEW u \in Tickers, x.seq[u] \in Nat,
         Drawn(x, h, n, buffer, top, i - 1, u),
         u # msg.ticker \/ x.seq[u] >= msg.seq,
         w.unseen = x.unseen, w.seq[u] = x.seq[u], w.missing[u] = x.missing[u],
         Served(w, u) => Served(x, u)
  PROVE  Drawn(w, h, n, buffer, top, i, u)
<1>0. Placed(msg, h, n, buffer, top, i)
  BY RowPlaced
<1>1. /\ msg.seq \in Nat /\ h[msg.seq].ticker = msg.ticker /\ i \in Nat
      /\ \A k \in i .. Len(buffer) : k \in i + 1 .. Len(buffer) \/ buffer[k] = msg
  BY <1>0 DEF Placed
<1>2. i - 1 + 1 = i
  BY <1>1
<1>3. ASSUME NEW j \in Deltas(h, n, u, x.seq[u]) PROVE j # msg.seq
  BY <1>1, <1>3 DEF Deltas
<1>4. ASSUME NEW j \in Deltas(h, n, u, x.seq[u]), NEW k \in i .. Len(buffer), buffer[k].seq = j
      PROVE  k \in i + 1 .. Len(buffer)
  BY <1>1, <1>3, <1>4
<1> QED
  BY <1>2, <1>4 DEF Drawn

\* All between a book's number and k is unseen, and what is after k may be lacked at row i.
DrawnTo(k, x, h, n, buffer, top, i, u) ==
  /\ Deltas(h, k - 1, u, x.seq[u]) \subseteq x.unseen
  /\ \A j \in Deltas(h, n, u, k) :
       \/ j \in x.unseen
       \/ j > top /\ h[j].lost
       \/ \E p \in i + 1 .. Len(buffer) : buffer[p].seq = j

\* A book that takes the message lacks nothing between.
LEMMA DrawnUp ==
  ASSUME NEW x, NEW h, NEW n \in Nat, NEW buffer, NEW top, NEW i, NEW msg,
         Row(msg, h, n, buffer, top, i), NEW u \in Tickers, x.seq[u] \in Nat,
         Drawn(x, h, n, buffer, top, i - 1, u), Served(x, u), x.seq[u] < msg.seq
  PROVE  DrawnTo(msg.seq, x, h, n, buffer, top, i, u)
<1>0. Placed(msg, h, n, buffer, top, i)
  BY RowPlaced
<1>1. /\ msg.seq \in Nat /\ msg.seq \in 1 .. n /\ top \in Nat /\ msg.seq <= top /\ i \in Nat
      /\ \A k \in i .. Len(buffer) : k \in i + 1 .. Len(buffer) \/ buffer[k] = msg
      /\ \A k \in i .. Len(buffer) : buffer[k].seq >= msg.seq
  BY <1>0 DEF Placed
<1>2. i - 1 + 1 = i
  BY <1>1
<1>3. \A j \in Deltas(h, n, u, x.seq[u]) :
        \/ j \in x.unseen
        \/ j > top /\ h[j].lost
        \/ \E k \in i .. Len(buffer) : buffer[k].seq = j
  BY <1>2 DEF Drawn
<1>4. ASSUME NEW j \in Deltas(h, msg.seq - 1, u, x.seq[u]) PROVE j \in x.unseen
  <2>1. j \in Deltas(h, n, u, x.seq[u]) /\ j \in Nat /\ j < msg.seq
    BY <1>1, <1>4 DEF Deltas
  <2>2. ~(j > top)
    BY <1>1, <2>1
  <2>3. ~\E k \in i .. Len(buffer) : buffer[k].seq = j
    BY <1>1, <2>1
  <2> QED
    BY <1>3, <2>1, <2>2, <2>3
<1>5. ASSUME NEW j \in Deltas(h, n, u, msg.seq)
      PROVE  \/ j \in x.unseen
             \/ j > top /\ h[j].lost
             \/ \E k \in i + 1 .. Len(buffer) : buffer[k].seq = j
  <2>1. j \in Deltas(h, n, u, x.seq[u]) /\ j # msg.seq
    BY <1>1, <1>5 DEF Deltas
  <2> QED
    BY <1>1, <1>3, <2>1
<1> QED
  BY <1>4, <1>5 DEF DrawnTo

\* The baseline follows the message.
LEMMA DrainAdvance ==
  ASSUME NEW w, NEW h, NEW n \in Nat, NEW buffer, NEW top \in Nat, top <= n, NEW i,
         Draining(w, h, n, buffer, top, i), NEW k \in Numbers, k <= top
  PROVE  Draining(Advance(w, k), h, n, buffer, top, i)
<1>0. PICK v \in SoundManagers : v = w
  BY DEF Draining
<1>1. w \in SoundManagers /\ w.lastSeq \in Nat /\ w.lastSeq <= top /\ w.lastSeq # NoSeq
  BY DEF Draining, NoSeq
<1>2. PICK y : y = Advance(w, k)
  OBVIOUS
<1>3. /\ y \in SoundManagers /\ y.lastSeq = (IF w.lastSeq <= k THEN k ELSE w.lastSeq)
      /\ y.books = w.books /\ y.seq = w.seq /\ y.missing = w.missing
      /\ y.bootstrap = w.bootstrap /\ y.tickers = w.tickers
      /\ y.pendingDeltas = w.pendingDeltas /\ y.requests = w.requests
      /\ y.recovering = w.recovering /\ y.unseen = w.unseen
  <2>0. y = Advance(v, k)
    BY <1>0, <1>2
  <2>1. /\ y \in SoundManagers /\ y.lastSeq = (IF v.lastSeq <= k THEN k ELSE v.lastSeq)
        /\ y.books = v.books /\ y.seq = v.seq /\ y.missing = v.missing
        /\ y.bootstrap = v.bootstrap /\ y.tickers = v.tickers
        /\ y.pendingDeltas = v.pendingDeltas /\ y.requests = v.requests
        /\ y.recovering = v.recovering
        /\ y.unseen = IF v.lastSeq = NoSeq THEN v.unseen \cup {j \in 1 .. k - 1 : log[j].lost}
                      ELSE v.unseen
    BY <2>0, AdvanceKeeps
  <2> QED
    BY <1>0, <1>1, <2>1
<1>4. y.lastSeq \in Nat /\ y.lastSeq <= top /\ y.lastSeq <= n
  BY <1>1, <1>3, BoundAssumption DEF Numbers
<1>5. Within(y, h, n)
  BY <1>3, <1>4 DEF Draining, Within
<1>6. \A u \in Tickers : Drawn(y, h, n, buffer, top, i, u)
  BY <1>3 DEF Draining, Drawn, Served
<1> QED
  BY <1>2, <1>3, <1>4, <1>5, <1>6 DEF Draining, Quiet, Idle

\* A delta that the drain applies, or refuses as a desync, which quarantines the book.
LEMMA DrainDeltaDraws ==
  ASSUME NEW x, NEW h, NEW n \in Nat, Reaches(h, n), NEW buffer, NEW top \in Nat, NEW i,
         NEW msg, Row(msg, h, n, buffer, top, i), Draining(x, h, n, buffer, top, i - 1),
         Served(x, msg.ticker), x.seq[msg.ticker] < msg.seq, NEW w \in DrainDelta(x, msg)
  PROVE  Draining(w, h, n, buffer, top, i)
<1>0. Placed(msg, h, n, buffer, top, i)
  BY RowPlaced
<1>1. PICK t \in Tickers : t = msg.ticker
  BY <1>0 DEF Placed
<1>2. msg \in Messages /\ msg.seq \in Nat /\ msg.seq \in 1 .. n
  BY <1>0 DEF Placed
<1>3. /\ x \in SoundManagers /\ x.pendingDeltas = <<>> /\ Quiet(x)
      /\ x.lastSeq \in Nat /\ x.lastSeq <= top /\ Within(x, h, n)
      /\ \A u \in Tickers : Drawn(x, h, n, buffer, top, i - 1, u)
  BY DEF Draining
<1>4. \A u \in Tickers : x.seq[u] \in Nat
  BY <1>3, NumbersOf
<1>5. PICK o \in ApplyDelta(x, msg) : w = IF o.did = "desync" THEN MarkStale(o.m, {t}) ELSE o.m
  BY <1>1 DEF DrainDelta
<1>6. /\ o.m \in SoundManagers
      /\ \/ o.did = "queued" /\ QueuedOne(o.m, x, msg)
         \/ o.did = "applied" /\ AppliedOne(o.m, x, msg)
         \/ o.did = "desync" /\ o.m = x
  BY <1>2, <1>3, ApplyDeltaSteps
<1>7. ~QueuedOne(o.m, x, msg)
  BY DEF QueuedOne
<1>8. CASE o.did = "desync" /\ o.m = x
  <2>1. w = MarkStale(x, {t})
    BY <1>5, <1>8
  <2>2. w \in SoundManagers /\ \A u \in Tickers : Served(w, u) <=> Served(x, u) /\ u \notin {t}
    BY <1>3, <2>1, MarkStaleSound
  <2>3. /\ Follows(w, x) /\ w.requests = x.requests /\ w.recovering = x.recovering
        /\ w.pendingDeltas = x.pendingDeltas /\ w.unseen = x.unseen
    BY <1>3, <2>1, MarkStaleFollows
  <2>4. Within(w, h, n)
    BY <1>3, <2>2, <2>3, FollowsWithin
  <2>5. ASSUME NEW u \in Tickers PROVE Drawn(w, h, n, buffer, top, i, u)
    <3>1. CASE u = t
      BY <2>2, <3>1 DEF Drawn
    <3>2. CASE u # t
      <4>1. w.seq[u] = x.seq[u] /\ w.missing[u] = x.missing[u]
        BY <2>3 DEF Follows
      <4> QED
        BY <1>1, <1>3, <1>4, <2>2, <2>3, <3>2, <4>1, DrawnOn
    <3> QED
      BY <3>1, <3>2
  <2> QED
    BY <1>3, <2>2, <2>3, <2>4, <2>5 DEF Draining, Quiet, Idle, Follows
<1>9. CASE o.did = "applied" /\ AppliedOne(o.m, x, msg)
  <2>1. w = o.m /\ w \in SoundManagers
    BY <1>5, <1>6, <1>9
  <2>2. /\ SameRest(w, x) /\ w.books = x.books /\ w.bootstrap = x.bootstrap
        /\ w.seq[t] = msg.seq
        /\ w.missing[t] = x.missing[t] \cup Skipped(t, x.seq[t], msg.seq)
        /\ \A u \in Tickers \ {t} : w.seq[u] = x.seq[u] /\ w.missing[u] = x.missing[u]
    BY <1>1, <1>9, <2>1 DEF AppliedOne
  <2>3. Within(w, h, n)
    BY <1>2, <1>3, <2>2 DEF SameRest, Within
  <2>4. Skipped(t, x.seq[t], msg.seq) = Deltas(h, msg.seq - 1, t, x.seq[t])
    <3>1. x.seq[t] \in Nat /\ msg.seq <= Len(log) + 1
      BY <1>2, <1>4 DEF Reaches
    <3> QED
      BY <1>2, <3>1, SkippedAre DEF Reaches
  <2>5. /\ Deltas(h, msg.seq - 1, t, x.seq[t]) \subseteq x.unseen
        /\ \A j \in Deltas(h, n, t, msg.seq) :
             \/ j \in x.unseen
             \/ j > top /\ h[j].lost
             \/ \E k \in i + 1 .. Len(buffer) : buffer[k].seq = j
    <3>1. x.seq[t] \in Nat /\ Drawn(x, h, n, buffer, top, i - 1, t) /\ Served(x, t)
      BY <1>1, <1>3, <1>4
    <3>2. x.seq[t] < msg.seq
      BY <1>1
    <3>3. DrawnTo(msg.seq, x, h, n, buffer, top, i, t)
      BY <3>1, <3>2, DrawnUp
    <3> QED
      BY <3>3 DEF DrawnTo
  <2>6. x.missing[t] \subseteq x.unseen \cup Late(t)
    BY <1>1, <1>3 DEF Drawn
  <2>7. ASSUME NEW u \in Tickers PROVE Drawn(w, h, n, buffer, top, i, u)
    <3>1. CASE u = t
      BY <2>2, <2>4, <2>5, <2>6, <3>1 DEF Drawn, SameRest
    <3>2. CASE u # t
      <4>1. w.seq[u] = x.seq[u] /\ w.missing[u] = x.missing[u] /\ w.unseen = x.unseen
        BY <2>2, <3>2 DEF SameRest
      <4>2. Served(w, u) => Served(x, u)
        BY <2>2 DEF Served
      <4> QED
        BY <1>1, <1>3, <1>4, <3>2, <4>1, <4>2, DrawnOn
    <3> QED
      BY <3>1, <3>2
  <2> QED
    BY <1>3, <2>1, <2>2, <2>3, <2>7 DEF Draining, Quiet, Idle, SameRest
<1> QED
  BY <1>6, <1>7, <1>8, <1>9

\* A snapshot that the drain applies renews its book.
LEMMA DrainSnapshotDraws ==
  ASSUME NEW x, NEW h, NEW n \in Nat, NEW buffer, NEW top \in Nat, NEW i,
         NEW msg, Row(msg, h, n, buffer, top, i), Draining(x, h, n, buffer, top, i - 1),
         Served(x, msg.ticker), x.seq[msg.ticker] < msg.seq, NEW w \in ApplySnapshot(x, msg)
  PROVE  Draining(w, h, n, buffer, top, i)
<1>0. Placed(msg, h, n, buffer, top, i)
  BY RowPlaced
<1>1. PICK t \in Tickers : t = msg.ticker
  BY <1>0 DEF Placed
<1>2. msg \in Messages /\ msg.seq \in Nat /\ msg.seq \in 1 .. n /\ msg.seq \in Numbers
  BY <1>0 DEF Placed
<1>3. /\ x \in SoundManagers /\ x.pendingDeltas = <<>> /\ Quiet(x)
      /\ x.lastSeq \in Nat /\ x.lastSeq <= top /\ Within(x, h, n)
      /\ \A u \in Tickers : Drawn(x, h, n, buffer, top, i - 1, u)
  BY DEF Draining
<1>4. \A u \in Tickers : x.seq[u] \in Nat
  BY <1>3, NumbersOf
<1>5. t \in x.tickers /\ x.bootstrap[t] = <<>>
  BY <1>1, <1>3 DEF SoundManagers, Served
<1>6. w = Fresh(x, msg)
  <2>1. PICK b : b = x.bootstrap[msg.ticker]
    OBVIOUS
  <2>2. \A j \in 1 .. Len(b) : b[j].seq <= msg.seq
    BY <1>1, <1>5, <2>1
  <2> QED
    BY <1>1, <1>2, <1>3, <1>5, <2>1, <2>2, ApplySnapshotFresh
<1>7. w \in SoundManagers /\ Freshened(w, x, msg)
  BY <1>1, <1>2, <1>3, <1>5, <1>6, FreshKeeps
<1>8. /\ SameRest(w, x) /\ w.seq[t] = msg.seq /\ w.missing[t] \subseteq Late(t)
      /\ w.bootstrap[t] = <<>>
      /\ \A u \in Tickers \ {t} : /\ w.books[u] = x.books[u] /\ w.seq[u] = x.seq[u]
                                  /\ w.missing[u] = x.missing[u] /\ w.bootstrap[u] = x.bootstrap[u]
  BY <1>1, <1>7 DEF Freshened
<1>9. Within(w, h, n)
  <2>1. \A j \in 1 .. Len(w.bootstrap[t]) : w.bootstrap[t][j].seq <= n
    BY <1>8
  <2> QED
    BY <1>2, <1>3, <1>8, <2>1 DEF Within, SameRest
<1>10. \A j \in Deltas(h, n, t, msg.seq) :
         \/ j \in x.unseen
         \/ j > top /\ h[j].lost
         \/ \E k \in i + 1 .. Len(buffer) : buffer[k].seq = j
  <2>1. x.seq[t] \in Nat /\ Drawn(x, h, n, buffer, top, i - 1, t) /\ Served(x, t)
    BY <1>1, <1>3, <1>4
  <2>2. x.seq[t] < msg.seq
    BY <1>1
  <2>3. DrawnTo(msg.seq, x, h, n, buffer, top, i, t)
    BY <2>1, <2>2, DrawnUp
  <2> QED
    BY <2>3 DEF DrawnTo
<1>11. ASSUME NEW u \in Tickers PROVE Drawn(w, h, n, buffer, top, i, u)
  <2>1. CASE u = t
    BY <1>8, <1>10, <2>1 DEF Drawn, SameRest
  <2>2. CASE u # t
    <3>1. w.seq[u] = x.seq[u] /\ w.missing[u] = x.missing[u] /\ w.unseen = x.unseen
      BY <1>8, <2>2 DEF SameRest
    <3>2. Served(w, u) => Served(x, u)
      BY <1>8, <2>2 DEF Served
    <3> QED
      BY <1>1, <1>3, <1>4, <2>2, <3>1, <3>2, DrawnOn
  <2> QED
    BY <2>1, <2>2
<1> QED
  BY <1>3, <1>7, <1>8, <1>9, <1>11 DEF Draining, Quiet, Idle, SameRest

\* One turn of the loop keeps its invariant.
LEMMA DrainOneDraws ==
  ASSUME NEW x, NEW h, NEW n \in Nat, Reaches(h, n), NEW buffer, NEW top \in Nat, top <= n, NEW i,
         NEW msg, Row(msg, h, n, buffer, top, i), Draining(x, h, n, buffer, top, i - 1),
         NEW y \in DrainOne(x, msg)
  PROVE  Draining(y, h, n, buffer, top, i)
<1>0. Placed(msg, h, n, buffer, top, i)
  BY RowPlaced
<1>1. /\ msg \in Messages /\ msg.ticker \in Tickers /\ msg.seq \in Nat
      /\ msg.seq \in Numbers /\ msg.seq <= top
  BY <1>0 DEF Placed
<1>2. x \in SoundManagers /\ \A u \in Tickers : x.seq[u] \in Nat
  BY NumbersOf DEF Draining
<1>3. CASE ~Served(x, msg.ticker) \/ msg.seq <= x.seq[msg.ticker]
  <2>1. y = x
    BY <1>3 DEF DrainOne
  <2>2. ASSUME NEW u \in Tickers PROVE Drawn(x, h, n, buffer, top, i, u)
    <3>1. CASE ~Served(x, u)
      BY <3>1 DEF Drawn
    <3>2. CASE Served(x, u)
      <4>1. u # msg.ticker \/ x.seq[u] >= msg.seq
        BY <1>1, <1>2, <1>3, <3>2
      <4>2. Drawn(x, h, n, buffer, top, i - 1, u)
        BY DEF Draining
      <4> QED
        BY <1>2, <4>1, <4>2, DrawnOn
    <3> QED
      BY <3>1, <3>2
  <2> QED
    BY <2>1, <2>2 DEF Draining
<1>4. CASE Served(x, msg.ticker) /\ ~(msg.seq <= x.seq[msg.ticker])
  <2>1. x.seq[msg.ticker] < msg.seq
    BY <1>1, <1>2, <1>4
  <2>2. PICK w \in (IF msg.kind = "delta" THEN DrainDelta(x, msg) ELSE ApplySnapshot(x, msg)) :
          y = Advance(w, msg.seq)
    BY <1>4 DEF DrainOne
  <2>3. Draining(w, h, n, buffer, top, i)
    BY <1>4, <2>1, <2>2, DrainDeltaDraws, DrainSnapshotDraws
  <2> QED
    BY <1>1, <2>2, <2>3, DrainAdvance
<1> QED
  BY <1>3, <1>4

-----------------------------------------------------------------------------
(* Recoveries that end                                                     *)

\* The drain of the buffer of a recovery that is over leaves an orderly sid.
LEMMA DrainBufferOrderly ==
  ASSUME NEW m \in SoundManagers, NEW h, NEW n \in Nat, Reaches(h, n), AnswersType,
         Within(m, h, n), Covers(m, h, n), Quiet(m), NEW z \in DrainBuffer(m)
  PROVE  Orderly(z, h, n)
<1>1. PICK buffer \in Seq(Messages) : buffer = m.pendingDeltas
  BY NumbersOf
<1>2. Ascending(buffer) /\ Matches(buffer, h, n)
  BY <1>1 DEF Within
<1>3. InOrder(m.pendingDeltas) = buffer
  BY <1>1, <1>2, InOrderOfAscending
<1>4. CASE buffer = <<>>
  <2>1. z = m
    BY <1>3, <1>4 DEF DrainBuffer
  <2>2. Held(m) = {}
    BY <1>1, <1>4, HeldNothing
  <2>3. Settled(m) /\ Awaits(m, h, n)
    BY <2>2, IdleAwaits DEF Settled, Quiet
  <2> QED
    BY <2>1, <2>3 DEF Orderly
<1>5. CASE buffer # <<>>
  <2>1. PICK after : Replays(after, m, buffer) /\ DrainBuffer(m) = after[Len(buffer)]
    BY <1>3, <1>5, DrainBufferReplays
  <2>2. PICK l \in Nat : l = Len(buffer)
    BY LenProperties
  <2>3. PICK top : top = DrainTop(m, buffer)
    OBVIOUS
  <2>4. top \in Nat /\ top <= n /\ \A i \in 1 .. l : buffer[i].seq <= top
    BY <1>1, <1>5, <2>2, <2>3, DrainTopWithin
  <2>5. Draining(DrainStart(m, buffer), h, n, buffer, top, 0)
    BY <1>1, <1>5, <2>3, DrainStartDrains
  <2>6. /\ after[0] = {DrainStart(m, buffer)}
        /\ \A i \in 1 .. l : \A y \in after[i] : \E x \in after[i - 1] : y \in DrainOne(x, buffer[i])
    BY <2>1, <2>2, ReplayRows
  <2>7. ASSUME NEW i \in 1 .. l PROVE Row(buffer[i], h, n, buffer, top, i)
    BY <1>2, <2>2, <2>4 DEF Row
  <2>8. PICK P : P = {i \in 0 .. l : \A x \in after[i] : Draining(x, h, n, buffer, top, i)}
    OBVIOUS
  <2>9. 0 \in P
    BY <2>5, <2>6, <2>8
  <2>10. ASSUME NEW i \in 1 .. l, i - 1 \in P PROVE i \in P
    <3>1. ASSUME NEW y \in after[i] PROVE Draining(y, h, n, buffer, top, i)
      <4>1. PICK x \in after[i - 1] : y \in DrainOne(x, buffer[i])
        BY <2>6
      <4>2. Draining(x, h, n, buffer, top, i - 1)
        BY <2>8, <2>10
      <4> QED
        BY <2>4, <2>7, <4>1, <4>2, DrainOneDraws
    <3> QED
      BY <2>8, <3>1
  <2>11. l \in P
    BY <2>9, <2>10, Climb
  <2>12. Draining(z, h, n, buffer, top, l)
    BY <2>1, <2>2, <2>8, <2>11
  <2>13. ASSUME NEW u \in Tickers PROVE Covered(z, h, n, u)
    <3>1. z.seq[u] \in Nat /\ z.lastSeq \in Nat /\ z.lastSeq <= top
      BY <2>12, NumbersOf DEF Draining
    <3>2. ASSUME NEW j \in Deltas(h, n, u, z.seq[u]), j > top, h[j].lost PROVE Ahead(z, h, n, j)
      BY <2>4, <3>1, <3>2 DEF Deltas, Ahead
    <3>3. l + 1 .. Len(buffer) = {}
      BY <2>2
    <3>4. Drawn(z, h, n, buffer, top, l, u)
      BY <2>12 DEF Draining
    <3> QED
      BY <3>2, <3>3, <3>4 DEF Drawn, Covered
  <2>14. Settled(z) /\ Awaits(z, h, n)
    BY <2>12, HeldNothing, IdleAwaits DEF Draining, Settled, Quiet
  <2> QED
    BY <2>12, <2>13, <2>14 DEF Orderly, Covers, Draining
<1> QED
  BY <1>4, <1>5

\* The parts of the invariant read only books, numbers and buffer.
LEMMA SameViewOrderly ==
  ASSUME NEW m, NEW x, SameView(x, m), NEW h, NEW n
  PROVE  /\ Within(m, h, n) => Within(x, h, n)
         /\ Covers(m, h, n) => Covers(x, h, n)
         /\ Held(x) = Held(m)
         /\ \A t, s : Fitting(m, h, n, t, s) => Fitting(x, h, n, t, s)
<1>1. Held(x) = Held(m)
  BY DEF SameView, Held
<1>2. Within(m, h, n) => Within(x, h, n)
  BY DEF SameView, Within
<1>3. Covers(m, h, n) => Covers(x, h, n)
  BY <1>1 DEF SameView, Covers, Covered, Served, Ahead
<1>4. \A t, s : Fitting(m, h, n, t, s) => Fitting(x, h, n, t, s)
  BY <1>1 DEF SameView, Fitting
<1> QED
  BY <1>1, <1>2, <1>3, <1>4

\* The snapshot that a recovery waits for.
LEMMA RecoverySnapshotOrderly ==
  ASSUME NEW m \in SoundManagers, NEW h, NEW n \in Nat, Reaches(h, n), AnswersType,
         Orderly(m, h, n), NEW msg, msg.seq \in Numbers, msg.ticker \in m.tickers,
         Fitting(m, h, n, msg.ticker, msg.seq), NEW z \in RecoverySnapshot(m, msg)
  PROVE  Orderly(z, h, n)
<1>1. PICK t \in Tickers : t = msg.ticker
  BY DEF SoundManagers, Managers
<1>2. PICK x \in ApplySnapshot(m, msg) : \E y \in TickOffs(x, t) : z \in CompleteIfAnswered(y)
  BY <1>1, RecoverySnapshotSteps
<1>3. /\ msg.seq \in Nat /\ msg.seq <= n /\ m.lastSeq <= msg.seq /\ m.lastSeq \in Int
      /\ \A i \in 1 .. Len(m.bootstrap[t]) : m.bootstrap[t][i].seq <= msg.seq
      /\ \A j \in Deltas(h, n, t, msg.seq) : h[j].lost \/ j \in m.unseen \cup Held(m)
  BY <1>1, NumbersOf, BoundAssumption DEF Fitting, Numbers
<1>4. x = Fresh(m, msg)
  BY <1>1, <1>2, <1>3, ApplySnapshotFresh
<1>5. x \in SoundManagers /\ Freshened(x, m, msg)
  BY <1>4, FreshKeeps
<1>6. /\ SameRest(x, m) /\ x.seq[t] = msg.seq /\ x.missing[t] \subseteq Late(t)
      /\ x.bootstrap[t] = <<>>
      /\ \A u \in Tickers \ {t} : /\ x.books[u] = m.books[u] /\ x.seq[u] = m.seq[u]
                                  /\ x.missing[u] = m.missing[u] /\ x.bootstrap[u] = m.bootstrap[u]
  BY <1>1, <1>5 DEF Freshened
<1>7. Held(x) = Held(m)
  BY <1>6 DEF SameRest, Held
<1>8. \A k : \A i \in 1 .. Len(x.bootstrap[t]) : x.bootstrap[t][i].seq <= k
  BY <1>6
<1>9. Within(x, h, n)
  BY <1>3, <1>6, <1>8 DEF Orderly, Within, SameRest
<1>10. ASSUME NEW u \in Tickers PROVE Covered(x, h, n, u)
  <2>1. CASE u = t
    <3>1. ASSUME NEW j \in Deltas(h, n, t, msg.seq), h[j].lost PROVE Ahead(x, h, n, j)
      BY <1>3, <1>6, <3>1 DEF Deltas, Ahead, SameRest
    <3> QED
      BY <1>3, <1>6, <1>7, <2>1, <3>1 DEF Covered, SameRest
  <2>2. CASE u # t
    <3>1. Covered(m, h, n, u)
      BY DEF Orderly, Covers
    <3> QED
      BY <1>6, <1>7, <2>2, <3>1 DEF Covered, SameRest, Served, Ahead
  <2> QED
    BY <2>1, <2>2
<1>11. ASSUME NEW a \in answers, m.requests[a.id] # {} PROVE Fitting(x, h, n, a.ticker, a.seq)
  <2>1. Fitting(m, h, n, a.ticker, a.seq)
    BY <1>11 DEF Orderly, Awaits
  <2>2. \A i \in 1 .. Len(x.bootstrap[a.ticker]) : x.bootstrap[a.ticker][i].seq <= a.seq
    <3>1. CASE a.ticker = t
      BY <1>8, <3>1
    <3>2. CASE a.ticker # t
      BY <1>6, <2>1, <3>2 DEF AnswersType, Fitting
    <3> QED
      BY <3>1, <3>2
  <2> QED
    BY <1>6, <1>7, <2>1, <2>2 DEF Fitting, SameRest
<1>12. ASSUME NEW y \in TickOffs(x, t), z \in CompleteIfAnswered(y) PROVE Orderly(z, h, n)
  <2>1. /\ y \in SoundManagers /\ SameView(y, x) /\ y.recovering = x.recovering
        /\ \A i \in Ids : y.requests[i] \subseteq x.requests[i]
    BY <1>5, <1>12, TickOffSound
  <2>2. Within(y, h, n) /\ Covers(y, h, n)
    BY <1>9, <1>10, <2>1, SameViewOrderly DEF Covers
  <2>3. CASE Pending(y) # {}
    <3>1. z = y
      BY <1>12, <2>3 DEF CompleteIfAnswered
    <3>2. Settled(y)
      <4>1. Held(y) = Held(x) /\ y.unseen = x.unseen
        BY <2>1, SameViewOrderly DEF SameView
      <4>2. Settled(x)
        BY <1>6, <1>7 DEF SameRest, Settled, Orderly, Idle
      <4>3. Idle(x) => Idle(y)
        BY <2>1 DEF Idle
      <4> QED
        BY <2>1, <4>1, <4>2, <4>3 DEF Settled
    <3>3. Awaits(y, h, n)
      <4>1. ASSUME NEW a \in answers, y.requests[a.id] # {}
            PROVE  Fitting(y, h, n, a.ticker, a.seq)
        <5>1. a.id \in Ids
          BY DEF AnswersType
        <5>2. m.requests[a.id] # {}
          BY <1>6, <2>1, <4>1, <5>1 DEF SameRest
        <5> QED
          BY <1>11, <2>1, <5>2, SameViewOrderly
      <4> QED
        BY <4>1 DEF Awaits
    <3> QED
      BY <2>2, <3>1, <3>2, <3>3 DEF Orderly
  <2>4. CASE Pending(y) = {}
    <3>1. PICK c : c = Completed(y)
      OBVIOUS
    <3>2. z \in DrainBuffer(c)
      BY <1>12, <2>4, <3>1 DEF CompleteIfAnswered, Completed
    <3>3. /\ c \in SoundManagers /\ SameView(c, y) /\ c.requests = y.requests /\ ~c.recovering
      BY <2>1, <3>1, CompletedSound
    <3>4. Idle(y)
      BY <2>4 DEF Pending, Idle
    <3>5. Quiet(c)
      BY <3>3, <3>4 DEF Quiet, Idle
    <3>6. Within(c, h, n) /\ Covers(c, h, n)
      BY <2>2, <3>3, SameViewOrderly
    <3> QED
      BY <3>2, <3>3, <3>5, <3>6, DrainBufferOrderly
  <2> QED
    BY <2>3, <2>4
<1> QED
  BY <1>2, <1>12

\* A snapshot of the history itself, taken while a recovery waits for one.
LEMMA PlainSnapshotOrderly ==
  ASSUME NEW x \in SoundManagers, NEW h, NEW n \in Nat, Extended(h, n), AnswersType,
         Orderly(x, h, n), NEW msg, Arrives(msg, h, n), msg.kind = "snapshot",
         msg.ticker \in x.tickers, NEW z \in RecoverySnapshot(x, msg)
  PROVE  Orderly(z, h, n + 1)
<1>1. /\ msg \in Messages /\ msg.seq = n + 1 /\ h[n + 1].ticker = msg.ticker
      /\ h[n + 1].kind = msg.kind
  BY DEF Arrives
<1>2. /\ Within(x, h, n) /\ Settled(x) /\ Ascending(x.pendingDeltas)
      /\ Matches(x.pendingDeltas, h, n)
  BY DEF Orderly, Within
<1>3. PICK k \in Nat : k = n + 1
  OBVIOUS
<1>4. Orderly(x, h, k)
  BY <1>1, <1>2, <1>3, MatchesNext, PassesBy
<1>5. Within(x, h, k)
  BY <1>4 DEF Orderly
<1>6. PICK t \in Tickers : t = msg.ticker
  BY <1>1 DEF Messages
<1>7. Deltas(h, k, t, k) = {}
  BY <1>3 DEF Deltas
<1>8. Fitting(x, h, k, t, k)
  BY <1>5, <1>7 DEF Within, Fitting
<1>9. Reaches(h, k)
  BY <1>3 DEF Extended, Reaches
<1>10. msg.seq = k /\ msg.seq \in Numbers
  BY <1>1, <1>3 DEF Messages
<1>11. Orderly(z, h, k)
  BY <1>4, <1>6, <1>8, <1>9, <1>10, RecoverySnapshotOrderly
<1> QED
  BY <1>3, <1>11

\* A message of the history that arrives leaves an orderly sid, whatever it sets off.
LEMMA HandleMessageOrderly ==
  ASSUME NEW m \in SoundManagers, NEW h, NEW n \in Nat, Extended(h, n), AnswersType,
         Orderly(m, h, n), NEW msg, Arrives(msg, h, n), NEW z \in HandleMessage(m, msg)
  PROVE  Orderly(z, h, n + 1)
<1>1. msg \in Messages /\ msg.ticker \in Tickers
  BY DEF Arrives, Messages
<1>2. PICK x : x = Knows(m, msg.ticker)
  OBVIOUS
<1>3. x \in SoundManagers /\ msg.ticker \in x.tickers
  BY <1>1, <1>2, KnowsSound
<1>4. Orderly(x, h, n)
  BY <1>1, <1>2, KnowsOrderly
<1>5. \/ msg.kind = "snapshot" /\ x.recovering /\ z \in RecoverySnapshot(x, msg)
      \/ z \in Dispatch(x, msg)
      \/ \E o \in FireDeferred(x, msg) :
           /\ ~x.recovering /\ ~IsGap(x, msg)
           /\ o.m \in SoundManagers /\ Follows(o.m, x)
           /\ Quiet(x) => Recovered(o, x)
           /\ \/ o.did = "raised" /\ z = Dropped(o.m, msg)
              \/ o.did = "started" /\ z = Keep(o.m, msg)
              \/ o.did = "nothing" /\ z \in Dispatch(o.m, msg)
  BY <1>1, <1>2, HandleMessageSteps
<1>6. ~x.recovering => Quiet(x)
  BY <1>4 DEF Orderly, Settled, Quiet
<1>7. CASE msg.kind = "snapshot" /\ z \in RecoverySnapshot(x, msg)
  BY <1>3, <1>4, <1>7, PlainSnapshotOrderly
<1>8. CASE z \in Dispatch(x, msg)
  BY <1>3, <1>4, <1>8, DispatchOrderly
<1>9. ASSUME NEW o, ~x.recovering, Recovered(o, x),
             \/ o.did = "raised" /\ z = Dropped(o.m, msg)
             \/ o.did = "started" /\ z = Keep(o.m, msg)
             \/ o.did = "nothing" /\ z \in Dispatch(o.m, msg)
      PROVE  Orderly(z, h, n + 1)
  BY <1>3, <1>4, <1>9, FiredOrderly
<1> QED
  BY <1>5, <1>6, <1>7, <1>8, <1>9

\* An answer, that of a request no longer pending included.
LEMMA HandleAnswerOrderly ==
  ASSUME NEW m \in SoundManagers, NEW h, NEW n \in Nat, Reaches(h, n), AnswersType,
         Orderly(m, h, n), NEW a \in answers, NEW msg, msg.seq = a.seq, msg.ticker = a.ticker,
         NEW z \in HandleAnswer(m, a.id, msg)
  PROVE  Orderly(z, h, n)
<1>1. a.id \in Ids /\ a.ticker \in Tickers /\ a.seq \in Numbers
  BY DEF AnswersType
<1>2. PICK x : x = Knows(m, a.ticker)
  OBVIOUS
<1>3. x \in SoundManagers /\ a.ticker \in x.tickers /\ x.requests = m.requests
  BY <1>1, <1>2, KnowsSound
<1>4. Orderly(x, h, n)
  BY <1>1, <1>2, KnowsOrderly
<1>5. z \in IF x.requests[a.id] = {} THEN {x} ELSE RecoverySnapshot(x, msg)
  BY <1>2 DEF HandleAnswer, Knows
<1>6. ASSUME x.requests[a.id] # {} PROVE Fitting(x, h, n, a.ticker, a.seq)
  BY <1>4, <1>6 DEF Orderly, Awaits
<1>7. ASSUME x.requests[a.id] # {}, z \in RecoverySnapshot(x, msg) PROVE Orderly(z, h, n)
  BY <1>1, <1>3, <1>4, <1>6, <1>7, RecoverySnapshotOrderly
<1> QED
  BY <1>4, <1>5, <1>7

\* What an orderly sid serves is true.
LEMMA OrderlyServes ==
  ASSUME Sound, Orderly(mgr, log, Len(log))
  PROVE  ServedIsTrue
<1>1. mgr \in SoundManagers /\ Len(log) \in Nat
  BY LenProperties DEF Sound
<1>2. PICK n \in Nat : n = Len(log)
  BY <1>1
<1>3. ASSUME NEW t \in Tickers, Served(mgr, t)
      PROVE  mgr.missing[t] \subseteq mgr.unseen \cup Late(t) /\ Passed(t) \subseteq mgr.unseen
  <2>1. Covered(mgr, log, n, t) /\ mgr.lastSeq <= n /\ mgr.seq[t] <= n
    BY <1>2 DEF Orderly, Covers, Within
  <2>2. mgr.lastSeq \in Int /\ mgr.seq[t] \in Nat
    BY <1>1, NumbersOf
  <2>3. PICK last \in Int : last = mgr.lastSeq
    BY <2>2
  <2>4. PICK own \in Nat : own = mgr.seq[t]
    BY <2>2
  <2>5. PICK next \in Int : next = last + 1
    OBVIOUS
  <2>6. PICK top : top = Highest({next, own})
    OBVIOUS
  <2>7. top = (IF next <= own THEN own ELSE next)
    BY <2>6, HighestOfTwo
  <2>8. Passed(t) = Skipped(t, own, top) \ Held(mgr)
    BY <2>3, <2>4, <2>5, <2>6 DEF Passed, Buffered, Held
  <2>9. ASSUME NEW j \in Skipped(t, own, top)
        PROVE  j \in Deltas(log, n, t, own) /\ j <= last
    <3>1. j \in own + 1 .. top - 1 /\ log[j].ticker = t /\ log[j].kind = "delta"
      BY DEF Skipped
    <3>2. j \in Int /\ own + 1 <= j /\ j <= last
      BY <2>5, <2>7, <3>1
    <3>3. j <= n
      BY <2>1, <2>3, <3>2
    <3> QED
      BY <3>1, <3>2, <3>3 DEF Deltas
  <2>10. ASSUME NEW j \in Passed(t) PROVE j \in mgr.unseen
    <3>1. j \in Skipped(t, own, top) /\ j \notin Held(mgr)
      BY <2>8, <2>10
    <3>2. j \in Deltas(log, n, t, own) /\ j <= last
      BY <2>9, <3>1
    <3>3. ~(j > last)
      BY <3>2 DEF Deltas
    <3> QED
      BY <1>3, <2>1, <2>3, <2>4, <3>1, <3>2, <3>3 DEF Covered, Ahead
  <2> QED
    BY <1>3, <2>1, <2>10 DEF Covered
<1> QED
  BY <1>3 DEF ServedIsTrue

-----------------------------------------------------------------------------
(* The specification                                                       *)

\* A history that goes on as the log does is as good to an orderly sid.
LEMMA ExtendedOrderly ==
  ASSUME NEW m \in SoundManagers, NEW n \in Nat, Orderly(m, log, n), AnswersType,
         NEW h, \A j \in 1 .. n : h[j] = log[j]
  PROVE  Orderly(m, h, n)
<1>1. /\ Within(m, log, n) /\ Covers(m, log, n) /\ Settled(m) /\ Awaits(m, log, n)
      /\ \A u \in Tickers : m.seq[u] \in Nat
  BY NumbersOf DEF Orderly
<1>2. ASSUME NEW t, NEW k \in Nat PROVE Deltas(h, n, t, k) = Deltas(log, n, t, k)
  <2>1. k + 1 .. n \subseteq 1 .. n
    OBVIOUS
  <2> QED
    BY <2>1 DEF Deltas
<1>3. \A j \in 1 .. n : h[j].lost = log[j].lost
  OBVIOUS
<1>4. Within(m, h, n)
  BY <1>1 DEF Within, Matches
<1>5. Covers(m, h, n)
  <2>1. ASSUME NEW j PROVE Ahead(m, log, n, j) => Ahead(m, h, n, j)
    BY <1>3 DEF Ahead
  <2>2. ASSUME NEW u \in Tickers PROVE Covered(m, h, n, u)
    <3>1. Deltas(h, n, u, m.seq[u]) = Deltas(log, n, u, m.seq[u])
      BY <1>1, <1>2
    <3>2. Covered(m, log, n, u)
      BY <1>1 DEF Covers
    <3> QED
      BY <2>1, <3>1, <3>2 DEF Covered
  <2> QED
    BY <2>2 DEF Covers
<1>6. ASSUME NEW a \in answers, m.requests[a.id] # {} PROVE Fitting(m, h, n, a.ticker, a.seq)
  <2>1. Fitting(m, log, n, a.ticker, a.seq) /\ a.seq \in Nat
    BY <1>1, <1>6, BoundAssumption DEF Awaits, AnswersType, Numbers
  <2>2. Deltas(h, n, a.ticker, a.seq) = Deltas(log, n, a.ticker, a.seq)
    BY <1>2, <2>1
  <2>3. ASSUME NEW j \in Deltas(log, n, a.ticker, a.seq) PROVE h[j].lost = log[j].lost
    <3>1. j \in 1 .. n
      BY <2>1, <2>3 DEF Deltas
    <3> QED
      BY <1>3, <3>1
  <2> QED
    BY <2>1, <2>2, <2>3 DEF Fitting
<1> QED
  BY <1>1, <1>4, <1>5, <1>6 DEF Orderly, Awaits

\* A request is registered before anything else happens, and its answers name it.
RequestsKnown == "slow" \notin Faults /\ "noid" \notin Faults

\* The inductive invariant of the specification.
Truthful ==
  /\ Sound
  /\ Orderly(mgr, log, Len(log))
  /\ seeding.chunks = <<>>

\* A manager with the same view, requests and recovery is as orderly.
LEMMA SameStandingOrderly ==
  ASSUME NEW m, NEW x, SameView(x, m), x.requests = m.requests, x.recovering = m.recovering,
         NEW h, NEW n, Orderly(m, h, n)
  PROVE  Orderly(x, h, n)
<1>1. /\ Within(x, h, n) /\ Covers(x, h, n) /\ Held(x) = Held(m)
      /\ \A t, s : Fitting(m, h, n, t, s) => Fitting(x, h, n, t, s)
  BY SameViewOrderly DEF Orderly
<1>2. Settled(x)
  BY <1>1 DEF Orderly, Settled, Idle, SameView
<1>3. Awaits(x, h, n)
  BY <1>1 DEF Orderly, Awaits
<1> QED
  BY <1>1, <1>2, <1>3 DEF Orderly

\* What is emitted, lost or handled, keeps it.
LEMMA EmitTruthful ==
  ASSUME Truthful, NEW t \in Tickers, NEW kind \in Kinds, NEW lost \in BOOLEAN,
         NEW lag \in 0 .. MaxLag, Emit(t, kind, lost, lag)
  PROVE  Orderly(mgr, log, Len(log))'
<1>1. /\ log' \in Seq(Entries) /\ Len(log') <= MaxSeq /\ mgr' \in SoundManagers
      /\ Len(log') = Len(log) + 1
      /\ log'[Len(log) + 1] = [ticker |-> t, kind |-> kind, lost |-> lost,
                               shown |-> Len(log) + 1 + lag]
      /\ \A j \in 1 .. Len(log) : log'[j] = log[j]
      /\ [seq |-> Len(log) + 1, ticker |-> t, kind |-> kind] \in Messages
  BY EmitSound DEF Truthful
<1>2. PICK n \in Nat : n = Len(log)
  BY LenProperties DEF Truthful, Sound
<1>3. PICK h : h = log'
  OBVIOUS
<1>4. PICK z : z = mgr'
  OBVIOUS
<1>5. PICK msg \in Messages : msg = [seq |-> n + 1, ticker |-> t, kind |-> kind]
  BY <1>1, <1>2
<1>6. /\ Len(h) = n + 1 /\ h[n + 1] = [ticker |-> t, kind |-> kind, lost |-> lost,
                                        shown |-> n + 1 + lag]
      /\ \A j \in 1 .. n : h[j] = log[j]
  BY <1>1, <1>2, <1>3
<1>7. Extended(h, n)
  <2>1. n + 1 \in Numbers
    BY <1>5 DEF Messages
  <2> QED
    BY <1>2, <1>6, <2>1 DEF Extended
<1>8. PICK m : m = Charged(mgr, lost \/ lag > 0)
  OBVIOUS
<1>9. m \in SoundManagers /\ AnswersType /\ Orderly(m, h, n)
  <2>1. mgr \in SoundManagers /\ AnswersType /\ Orderly(mgr, log, n)
    BY <1>2 DEF Truthful, Sound
  <2>2. Orderly(mgr, h, n)
    BY <1>6, <2>1, ExtendedOrderly
  <2>3. /\ m \in SoundManagers /\ SameView(m, mgr) /\ m.requests = mgr.requests
        /\ m.recovering = mgr.recovering
    BY <1>8, <2>1, ChargedSound DEF Emit, May
  <2> QED
    BY <2>1, <2>2, <2>3, SameStandingOrderly
<1>10. ASSUME lost PROVE Orderly(z, h, n + 1)
  <2>1. z = m
    BY <1>4, <1>8, <1>10 DEF Emit
  <2>2. Settled(m) /\ Ascending(m.pendingDeltas) /\ Matches(m.pendingDeltas, h, n + 1)
    BY <1>9, MatchesNext DEF Orderly, Within
  <2>3. h[n + 1].lost
    BY <1>6, <1>10
  <2> QED
    BY <1>9, <2>1, <2>2, <2>3, PassesBy
<1>11. ASSUME ~lost PROVE Orderly(z, h, n + 1)
  <2>1. z \in HandleMessage(m, msg)
    BY <1>2, <1>4, <1>5, <1>8, <1>11 DEF Emit
  <2>2. Arrives(msg, h, n)
    BY <1>5, <1>6, <1>11 DEF Arrives
  <2> QED
    BY <1>7, <1>9, <2>1, <2>2, HandleMessageOrderly
<1>12. Orderly(z, h, n + 1)
  BY <1>10, <1>11
<1>13. ASSUME NEW u \in Tickers PROVE Late(u) \subseteq Late(u)'
  <2>1. ASSUME NEW k \in Numbers PROVE Unshown(u, k) \subseteq Unshown(u, k)'
    <3>1. DOMAIN log = 1 .. n /\ DOMAIN log' = 1 .. n + 1
      BY <1>1, <1>2, <1>3, <1>6, LenProperties DEF Truthful, Sound
    <3> QED
      BY <1>1, <1>2, <3>1 DEF Unshown
  <2> QED
    BY <2>1 DEF Late, Numbers
<1>14. ASSUME NEW u \in Tickers, Covered(z, h, n + 1, u) PROVE Covered(mgr, log, Len(log), u)'
  BY <1>3, <1>4, <1>6, <1>13, <1>14 DEF Covered, Served, Held, Ahead, Deltas
<1> QED
  BY <1>3, <1>4, <1>6, <1>12, <1>14 DEF Emit, Orderly, Covers, Awaits

\* A step that adds neither to the log nor to the answers under way.
LEMMA StaysOrderly ==
  ASSUME NEW n \in Nat, n = Len(log), log' = log, answers' \subseteq answers,
         NEW z, z = mgr', Orderly(z, log, n)
  PROVE  Orderly(mgr, log, Len(log))'
<1>1. ASSUME NEW u \in Tickers PROVE Late(u)' = Late(u)
  BY DEF Late, Unshown, Numbers
<1>2. ASSUME NEW u \in Tickers PROVE Covered(mgr, log, Len(log), u)'
  BY <1>1 DEF Orderly, Covers, Covered, Served, Held, Ahead, Deltas
<1> QED
  BY <1>2 DEF Orderly, Covers, Awaits

\* The exchange answers with its last number: nothing of the market comes after it.
LEMMA AnswerTruthful ==
  ASSUME Truthful, NEW a \in mgr.asked, Answer(a)
  PROVE  Orderly(mgr, log, Len(log))'
<1>1. PICK n \in Nat : n = Len(log)
  BY LenProperties DEF Truthful, Sound
<1>2. PICK z : z = mgr'
  OBVIOUS
<1>3. /\ z \in SoundManagers /\ SameView(z, mgr) /\ z.requests = mgr.requests
      /\ z.recovering = mgr.recovering
  BY <1>2, AnswerSound DEF Truthful
<1>4. Orderly(z, log, n)
  BY <1>1, <1>3, SameStandingOrderly DEF Truthful
<1>5. a.ticker \in Tickers
  BY DEF Truthful, Sound, SoundManagers, Managers, Requests
<1>6. PICK t \in Tickers : t = a.ticker
  BY <1>5
<1>7. Deltas(log, n, t, n) = {}
  BY DEF Deltas
<1>8. Fitting(z, log, n, t, n)
  BY <1>4, <1>7 DEF Orderly, Within, Fitting
<1>9. PICK new : new = [id |-> a.id, ticker |-> t, seq |-> n]
  OBVIOUS
<1>10. answers' = answers \cup {new} /\ log' = log
  BY <1>1, <1>6, <1>9 DEF Answer
<1>11. ASSUME NEW b \in answers', z.requests[b.id] # {}
       PROVE  Fitting(z, log, n, b.ticker, b.seq)
  <2>1. CASE b = new
    BY <1>8, <1>9, <2>1
  <2>2. CASE b \in answers
    BY <1>4, <1>11, <2>2 DEF Orderly, Awaits
  <2> QED
    BY <1>10, <1>11, <2>1, <2>2
<1>12. ASSUME NEW u \in Tickers PROVE Late(u)' = Late(u)
  BY <1>10 DEF Late, Unshown, Numbers
<1>13. ASSUME NEW u \in Tickers PROVE Covered(mgr, log, Len(log), u)'
  BY <1>1, <1>2, <1>4, <1>10, <1>12 DEF Orderly, Covers, Covered, Served, Held, Ahead, Deltas
<1>14. (Within(mgr, log, Len(log)) /\ Settled(mgr))'
  BY <1>1, <1>2, <1>4, <1>10 DEF Orderly, Within, Settled, Matches
<1> QED
  BY <1>1, <1>2, <1>10, <1>11, <1>13, <1>14 DEF Orderly, Covers, Awaits

\* A request that is never answered changes nothing of it.
LEMMA IgnoreTruthful ==
  ASSUME Truthful, NEW a \in mgr.asked, Ignore(a)
  PROVE  Orderly(mgr, log, Len(log))'
<1>1. PICK n \in Nat : n = Len(log)
  BY LenProperties DEF Truthful, Sound
<1>2. PICK z : z = mgr'
  OBVIOUS
<1>3. /\ z \in SoundManagers /\ SameView(z, mgr) /\ z.requests = mgr.requests
      /\ z.recovering = mgr.recovering
  BY <1>2, IgnoreSound DEF Truthful
<1>4. Orderly(z, log, n)
  BY <1>1, <1>3, SameStandingOrderly DEF Truthful
<1>5. log' = log /\ answers' = answers
  BY DEF Ignore
<1> QED
  BY <1>1, <1>2, <1>4, <1>5, StaysOrderly

\* A rejected request is forgotten, or its recovery given up and started again.
LEMMA RejectTruthful ==
  ASSUME Truthful, NEW id \in Ids, NEW named \in SUBSET Tickers, Reject(id, named)
  PROVE  Orderly(mgr, log, Len(log))'
<1>1. PICK n \in Nat : n = Len(log)
  BY LenProperties DEF Truthful, Sound
<1>2. PICK z : z = mgr'
  OBVIOUS
<1>3. PICK m \in SoundManagers :
        /\ SameView(m, mgr) /\ m.requests = mgr.requests /\ m.recovering = mgr.recovering
        /\ z = m \/ \E o : Restarted(o, m) /\ z = o.m
  BY <1>2, RejectSound DEF Truthful
<1>4. Orderly(m, log, n)
  BY <1>1, <1>3, SameStandingOrderly DEF Truthful
<1>5. ASSUME NEW o, Restarted(o, m) PROVE Orderly(o.m, log, n)
  BY <1>4, <1>5, RecoveredOrderly DEF Restarted, Orderly
<1>6. Orderly(z, log, n)
  BY <1>3, <1>4, <1>5
<1>7. log' = log /\ answers' = answers
  BY DEF Reject
<1> QED
  BY <1>1, <1>2, <1>6, <1>7, StaysOrderly

\* An answer that arrives, and names its request.
LEMMA ReceiveTruthful ==
  ASSUME Truthful, RequestsKnown, NEW a \in answers, NEW withId \in BOOLEAN, Receive(a, withId)
  PROVE  Orderly(mgr, log, Len(log))'
<1>1. PICK n \in Nat : n = Len(log)
  BY LenProperties DEF Truthful, Sound
<1>2. PICK z : z = mgr'
  OBVIOUS
<1>3. PICK msg : msg = [seq |-> a.seq, ticker |-> a.ticker, kind |-> "snapshot"]
  OBVIOUS
<1>4. z \in HandleAnswer(mgr, a.id, msg)
  BY <1>2, <1>3 DEF Receive, RequestsKnown
<1>5. mgr \in SoundManagers /\ AnswersType /\ Orderly(mgr, log, n)
  BY <1>1 DEF Truthful, Sound
<1>6. Reaches(log, n)
  BY <1>1 DEF Reaches
<1>7. msg.seq = a.seq /\ msg.ticker = a.ticker
  BY <1>3
<1>8. Orderly(z, log, n)
  BY <1>4, <1>5, <1>6, <1>7, HandleAnswerOrderly
<1>9. log' = log /\ answers' \subseteq answers
  BY DEF Receive
<1> QED
  BY <1>1, <1>2, <1>8, <1>9, StaysOrderly

\* What the seed task begins it also asks for, in the same step.
LEMMA SeedTruthful ==
  ASSUME Truthful, RequestsKnown, NEW intervalOver \in BOOLEAN, Seed(intervalOver)
  PROVE  Orderly(mgr, log, Len(log))' /\ seeding' = seeding
<1>1. PICK n \in Nat : n = Len(log)
  BY LenProperties DEF Truthful, Sound
<1>2. PICK z : z = mgr'
  OBVIOUS
<1>3. seeding' = seeding /\ \E o \in StartRecovery(mgr, intervalOver, FALSE) : z = o.m
  BY <1>2, SeedSound DEF Truthful, RequestsKnown
<1>4. mgr \in SoundManagers /\ AnswersType /\ Orderly(mgr, log, n)
  BY <1>1 DEF Truthful, Sound
<1>5. Quiet(mgr) /\ Held(mgr) \subseteq mgr.unseen
  BY <1>4 DEF Seed, Orderly, Settled, Quiet
<1>6. ASSUME NEW o \in StartRecovery(mgr, intervalOver, FALSE) PROVE Orderly(o.m, log, n)
  <2>1. Recovered(o, mgr)
    BY <1>4, <1>5, <1>6, StartRecoverySound
  <2> QED
    BY <1>4, <1>5, <2>1, RecoveredOrderly DEF Orderly
<1>7. log' = log /\ answers' = answers
  BY DEF Seed
<1>8. Orderly(z, log, n)
  BY <1>3, <1>6
<1> QED
  BY <1>1, <1>2, <1>3, <1>7, <1>8, StaysOrderly

\* It holds at the beginning,
LEMMA TruthfulInit == Init => Truthful
<1> SUFFICES ASSUME Init PROVE Truthful
  OBVIOUS
<1>1. Sound
  BY SoundInit
<1>2. PICK n \in Nat : n = Len(log)
  BY <1>1, LenProperties DEF Sound
<1>3. PICK e : e = <<>>
  OBVIOUS
<1>4. Len(e) = 0 /\ n = 0
  BY <1>2, <1>3, EmptySeq DEF Init
<1>5. /\ mgr.pendingDeltas = e /\ ~mgr.recovering /\ mgr.lastSeq = NoSeq
      /\ mgr.requests = [i \in Ids |-> {}]
      /\ \A u \in Tickers : mgr.books[u] = "none" /\ mgr.seq[u] = 0 /\ mgr.bootstrap[u] = e
  BY <1>3 DEF Init
<1>6. Within(mgr, log, n)
  BY <1>4, <1>5 DEF Within, Ascending, Matches, NoSeq
<1>7. Covers(mgr, log, n)
  BY <1>5 DEF Covers, Covered, Served
<1>8. Held(mgr) = {} /\ Idle(mgr)
  BY <1>3, <1>5, HeldNothing DEF Idle
<1>9. Settled(mgr) /\ Awaits(mgr, log, n)
  BY <1>8 DEF Settled, Awaits, Init
<1>10. seeding.chunks = <<>>
  BY DEF Init
<1> QED
  BY <1>1, <1>2, <1>6, <1>7, <1>9, <1>10 DEF Truthful, Orderly

\* and every step keeps it, when requests are known.
LEMMA TruthfulNext == ASSUME RequestsKnown PROVE Truthful /\ [Next]_vars => Truthful'
<1> SUFFICES ASSUME Truthful, [Next]_vars PROVE Truthful'
  OBVIOUS
<1>1. Sound'
  BY SoundNext DEF Truthful
<1>2. seeding.chunks = <<>> /\ seeding.id = NoId
  BY DEF Truthful, Sound, SeedingSound
<1>3. ASSUME NEW t \in Tickers, NEW kind \in Kinds, NEW lost \in BOOLEAN,
             NEW lag \in 0 .. MaxLag, Emit(t, kind, lost, lag)
      PROVE  Truthful'
  BY <1>1, <1>2, <1>3, EmitTruthful DEF Truthful, Emit
<1>4. ASSUME NEW a \in mgr.asked, Answer(a) PROVE Truthful'
  BY <1>1, <1>2, <1>4, AnswerTruthful DEF Truthful, Answer
<1>5. ASSUME NEW a \in mgr.asked, Ignore(a) PROVE Truthful'
  BY <1>1, <1>2, <1>5, IgnoreTruthful DEF Truthful, Ignore
<1>6. ASSUME NEW id \in Ids, NEW named \in SUBSET Tickers, Reject(id, named) PROVE Truthful'
  BY <1>1, <1>2, <1>6, RejectTruthful DEF Truthful, Reject
<1>7. ASSUME NEW a \in answers, NEW withId \in BOOLEAN, Receive(a, withId) PROVE Truthful'
  BY RequestsKnown, <1>1, <1>2, <1>7, ReceiveTruthful DEF Truthful, Receive
<1>8. ASSUME NEW over \in BOOLEAN, Seed(over) PROVE Truthful'
  BY RequestsKnown, <1>1, <1>2, <1>8, SeedTruthful DEF Truthful
<1>9. ~SeedSend /\ ~SeedRaises /\ ~SeedRegister
  BY <1>2 DEF SeedSend, SeedRaises, SeedRegister
<1>10. ASSUME UNCHANGED <<log, mgr, answers, seeding>> PROVE Truthful'
  <2>1. PICK n \in Nat : n = Len(log)
    BY LenProperties DEF Truthful, Sound
  <2>2. Orderly(mgr, log, Len(log))'
    BY <1>10, <2>1, StaysOrderly DEF Truthful
  <2> QED
    BY <1>1, <1>2, <1>10, <2>2 DEF Truthful
<1> QED
  BY <1>3, <1>4, <1>5, <1>6, <1>7, <1>8, <1>9, <1>10 DEF Next, Kinds, Settle, vars

\* A served book has every delta of its market up to the baseline, except what the manager
\* knows it threw away and what the exchange's snapshots showed late, by however much.
THEOREM ServedAlwaysTrue == ASSUME RequestsKnown PROVE Spec => []ServedIsTrue
<1>1. Truthful => ServedIsTrue
  BY OrderlyServes DEF Truthful
<1>2. Truthful /\ [Next]_vars => Truthful'
  BY TruthfulNext, RequestsKnown
<1> QED
  BY <1>1, <1>2, TruthfulInit, PTL DEF Spec
=============================================================================
