------------------------------ MODULE OrderBookV2 ------------------------------
(*****************************************************************************)
(* OrderbookManagerV2: the books of one subscription (one sid), fed by a     *)
(* WebSocket whose messages carry consecutive sequence numbers.  A number    *)
(* that is missing is a gap: every book of the sid stops being served and a  *)
(* snapshot of each is requested, in chunks; what arrives meanwhile is       *)
(* buffered, and drained when the last snapshot is in.  Recoveries are rate- *)
(* limited, watched for a timeout, and given up after some failures.  Beside *)
(* the dispatcher a seed watchdog asks for the snapshots of blind books.     *)
(*                                                                           *)
(* What a delta says is abstracted to whether a book contains it: `missing`  *)
(* are the deltas that a book at its sequence should contain and does not.   *)
(* A book that misses something may underflow or cross, another may not.     *)
(* A snapshot may itself be older than the number it carries, and lack the   *)
(* last deltas up to it: 63.8% of the desyncs the code counted.              *)
(*                                                                           *)
(* The handlers of the dispatcher call one another, so they are operators    *)
(* from a manager (a record) to the set of managers they may leave behind.   *)
(*****************************************************************************)
EXTENDS Integers, FiniteSets, SequencesExt

CONSTANTS
  Tickers,      \* the markets of the sid
  MaxSeq,       \* bound: messages the exchange emits
  Ids,          \* bound: request ids in use at the same time
  ChunkSize,    \* _recovery_chunk_size
  BootCap,      \* _bootstrap_buffer_cap
  BufferCap,    \* _max_recovery_buffer
  MaxFailures,  \* MAX_RECOVERY_FAILURES
  MaxFaults,    \* bound: messages lost, deltas that snapshots show late, requests
                \* ignored or rejected, sends that raise
  MaxClosed,    \* bound: markets that settle
  MaxLag,       \* bound: messages by which a snapshot is older than its number
  Faults        \* of "loss", "silence", "reject", "send", "noid", "slow"

ASSUME SetAssumption == IsFiniteSet(Tickers) /\ IsFiniteSet(Ids) /\ Ids \subseteq Nat
ASSUME BoundAssumption ==
  /\ {MaxSeq, MaxFaults, MaxClosed, MaxLag} \subseteq Nat
  /\ {ChunkSize, BootCap, BufferCap, MaxFailures} \subseteq Nat \ {0}

VARIABLES
  log,       \* what the exchange emitted: ticker, kind, whether it was lost on the way, and
             \* the number from which on its snapshots show it
  closed,    \* markets that settled, known to discovery and to the exchange
  mgr,       \* the manager
  answers,   \* snapshots on their way to the manager
  seeding    \* the chunks the seed task has yet to register, and the id of the one it sent

vars == <<log, closed, mgr, answers, seeding>>

NoSeq == -1      \* the sid has no baseline
NoId == -1

May(fault, m) == fault \in Faults /\ m.faults < MaxFaults
Fault(m) == [m EXCEPT !.faults = @ + 1]
Charged(m, counts) == IF counts THEN Fault(m) ELSE m

Highest(S) == CHOOSE x \in S : \A y \in S : y <= x
When(condition, S) == IF condition THEN S ELSE {}

-----------------------------------------------------------------------------
(* Books.  "none" has no OrderbookState; "live" is initialized, and the only *)
(* one that get_top_of_book serves; "stale" was marked so.                   *)

Served(m, t) == m.books[t] = "live"

MarkStale(m, S) ==
  [m EXCEPT !.books = [t \in Tickers |-> IF t \in S /\ @[t] # "none" THEN "stale" ELSE @[t]]]

(* The baseline of the sid moves up to k.  A first baseline jumps over what  *)
(* was lost before it: `unseen` is the history of the numbers jumped over.   *)
Advance(m, k) ==
  [m EXCEPT !.lastSeq = Highest({@, k}),
            !.unseen = IF m.lastSeq = NoSeq THEN @ \cup {j \in 1 .. k - 1 : log[j].lost} ELSE @]

(* What a book of t at number `from` skips when the next it takes is `to`. *)
Skipped(t, from, to) ==
  {j \in from + 1 .. to - 1 : log[j].ticker = t /\ log[j].kind = "delta"}

(* _apply_delta_msg: a book that is not initialized queues the delta, the    *)
(* oldest of a full queue going first; a number that does not grow, or an    *)
(* underflow, is a desync, which leaves the book as it was.                  *)
ApplyDelta(m, msg) ==
  LET t == msg.ticker
      queue == Append(m.bootstrap[t], msg)
      lacks == m.missing[t] \cup Skipped(t, m.seq[t], msg.seq)
      grows == msg.seq > m.seq[t]
  IN  When(~Served(m, t),
        {[did |-> "queued", m |-> [m EXCEPT !.bootstrap[t] =
                                     IF Len(queue) > BootCap THEN Tail(queue) ELSE queue]]})
      \cup When(Served(m, t) /\ grows,
        {[did |-> "applied", m |-> [m EXCEPT !.seq[t] = msg.seq, !.missing[t] = lacks]]})
      \cup When(Served(m, t) /\ (~grows \/ lacks # {}),
        {[did |-> "desync", m |-> m]})

(* The loops of both drains apply a delta so: a desync quarantines the book  *)
(* and the loop goes on.                                                     *)
DrainDelta(m, msg) ==
  {IF o.did = "desync" THEN MarkStale(o.m, {msg.ticker}) ELSE o.m : o \in ApplyDelta(m, msg)}

(* Sorted by number, and stably: a message goes behind those that precede it. *)
Place(s, msg) == InsertAt(s, Cardinality({i \in DOMAIN s : s[i].seq <= msg.seq}) + 1, msg)

InOrder(buffer) ==
  LET sorted[n \in 0 .. Len(buffer)] ==
        IF n = 0 THEN <<>> ELSE Place(sorted[n - 1], buffer[n])
  IN  sorted[Len(buffer)]

(* The deltas of t that a snapshot numbered n should show, and does not. *)
Unshown(t, n) ==
  {j \in 1 .. n : j \in DOMAIN log /\ log[j].ticker = t /\ log[j].kind = "delta"
                  /\ n < log[j].shown}

Fresh(m, msg) ==
  [m EXCEPT !.books[msg.ticker] = "live", !.seq[msg.ticker] = msg.seq,
            !.missing[msg.ticker] = Unshown(msg.ticker, msg.seq),
            !.bootstrap[msg.ticker] = <<>>]

(* _drain_bootstrap_buffer takes what the snapshot does not contain. *)
DrainQueued(ms, msg, queued) ==
  IF queued.seq <= msg.seq THEN ms
  ELSE {Advance(x, queued.seq) : x \in UNION {DrainDelta(y, queued) : y \in ms}}

(* _apply_snapshot_msg *)
ApplySnapshot(m, msg) ==
  LET queue == InOrder(m.bootstrap[msg.ticker])
      after[n \in 0 .. Len(queue)] ==
        IF n = 0 THEN {Fresh(m, msg)} ELSE DrainQueued(after[n - 1], msg, queue[n])
  IN  after[Len(queue)]

-----------------------------------------------------------------------------
(* Recovery.                                                                 *)

Unrecoverable(m) == m.dead \cup closed
Pending(m) == UNION {m.requests[i] : i \in Ids}

FreeIds(m) ==
  Ids \ ({i \in Ids : m.requests[i] # {}} \cup {a.id : a \in m.asked \cup answers}
         \cup {seeding.id})

Requests == [id : Ids, ticker : Tickers]

(* A request for a chunk leaves under an id, and is registered under it. *)
Ask(m, id, chunk) == [m EXCEPT !.asked = @ \cup {[id |-> id, ticker |-> t] : t \in chunk}]
Register(m, id, chunk) == [m EXCEPT !.requests[id] = chunk]

(* The recoverable tickers, in the order of a set, cut into chunks. *)
Chunkings(S) ==
  {[i \in 1 .. (Len(p) + ChunkSize - 1) \div ChunkSize |->
      {p[j] : j \in (i - 1) * ChunkSize + 1 .. IF i * ChunkSize < Len(p) THEN i * ChunkSize
                                               ELSE Len(p)}] : p \in SetToSeqs(S)}

(* The loop over the chunks; a send without a connection raises, and leaves  *)
(* the rest of the recovery unasked.                                         *)
SendChunks(m, chunks) ==
  LET ids == SetToSeq(FreeIds(m))
      Under(id, n) == UNION {chunks[i] : i \in {j \in 1 .. n : ids[j] = id}}
      Sent(n) ==
        [m EXCEPT !.asked = @ \cup {r \in Requests : r.ticker \in Under(r.id, n)},
                  !.requests = [id \in Ids |-> @[id] \cup Under(id, n)]]
  IN  When(Len(chunks) <= Len(ids),
        {[did |-> "started", m |-> Sent(Len(chunks))]}
        \cup When(May("send", m),
               {[did |-> "raised", m |-> Fault(Sent(n))] : n \in 0 .. Len(chunks) - 1}))

(* A buffer is thrown away. *)
Discard(m) ==
  [m EXCEPT !.pendingDeltas = <<>>,
            !.unseen = @ \cup {m.pendingDeltas[i].seq : i \in DOMAIN m.pendingDeltas}]

CleanupRecovery(m) ==
  [Discard(m) EXCEPT !.recovering = FALSE, !.requests = [i \in Ids |-> {}]]

DisableRecovery(m) == [CleanupRecovery(m) EXCEPT !.disabled = TRUE]

(* Mutant: a suppressed start marks nothing. *)
BeginRecoveryUnmarked(m, intervalOver, staleAll) ==
  LET marked == IF staleAll THEN MarkStale(m, m.tickers) ELSE m
      now == [marked EXCEPT !.started = TRUE, !.deferred = FALSE]
  IN  IF m.disabled THEN [did |-> "nothing", m |-> m]
      ELSE IF ~intervalOver
      THEN [did |-> "nothing", m |-> [m EXCEPT !.deferred = TRUE]]
      ELSE IF m.tickers \subseteq Unrecoverable(m)
      THEN [did |-> "nothing", m |-> DisableRecovery(now)]
      ELSE [did |-> "begun", m |-> [Discard(now) EXCEPT !.recovering = TRUE]]

(* What _start_recovery decides before it sends.  A start within the minimum *)
(* interval of the last one is suppressed, and scheduled for its end.        *)
BeginRecovery(m, intervalOver, staleAll) ==
  LET marked == IF staleAll THEN MarkStale(m, m.tickers) ELSE m
      now == [marked EXCEPT !.started = TRUE, !.deferred = FALSE]
  IN  IF m.disabled THEN [did |-> "nothing", m |-> m]
      ELSE IF ~intervalOver
      THEN [did |-> "nothing", m |-> [marked EXCEPT !.deferred = TRUE]]
      ELSE IF m.tickers \subseteq Unrecoverable(m)
      THEN [did |-> "nothing", m |-> DisableRecovery(now)]
      ELSE [did |-> "begun", m |-> [Discard(now) EXCEPT !.recovering = TRUE]]

(* _start_recovery as the dispatcher calls it: nothing comes in between. *)
StartRecovery(m, intervalOver, staleAll) ==
  LET begun == BeginRecovery(m, intervalOver, staleAll)
  IN  IF begun.did = "nothing" THEN {begun}
      ELSE UNION {SendChunks(begun.m, chunks) :
                    chunks \in Chunkings(m.tickers \ Unrecoverable(m))}

(* The clock is asked where the code asks it: after a first start the        *)
(* interval may be over or not.                                              *)
IntervalOver(m) == IF m.started THEN BOOLEAN ELSE {TRUE}

TryRecovery(m, staleAll) == UNION {StartRecovery(m, over, staleAll) : over \in IntervalOver(m)}

(* _register_failure_and_maybe_break and the retry of its callers. *)
FailAndRetry(m) ==
  LET failed == [m EXCEPT !.failures = @ + 1]
  IN  IF failed.failures >= MaxFailures
      THEN {[did |-> "nothing", m |-> DisableRecovery(failed)]}
      ELSE StartRecovery(failed, TRUE, FALSE)   \* internal: not subject to the interval

(* _handle_recovery_rejected: the exchange may name a ticker. *)
RecoveryRejected(m, named) == FailAndRetry(CleanupRecovery([m EXCEPT !.dead = @ \cup named]))

(* _abort_and_restart_recovery: on a timeout with part of the snapshots in,  *)
(* the tickers still waited for are taken for settled.                       *)
AbortAndRestart(m, timedOut) ==
  LET stuck == Pending(m)
      settled == timedOut /\ stuck # {} /\ Cardinality(stuck) < Cardinality(m.tickers)
  IN  FailAndRetry(CleanupRecovery([m EXCEPT !.dead = IF settled THEN @ \cup stuck ELSE @]))

(* _rearm_recovery_after_backoff *)
Rearm(m) == [m EXCEPT !.disabled = FALSE, !.failures = 0, !.started = FALSE]

(* _drain_buffer: the baseline becomes the highest number of a book, and     *)
(* then of every message drained; one for a book that is not initialized is  *)
(* dropped, and its number is not counted.                                   *)
DrainOne(m, msg) ==
  IF ~Served(m, msg.ticker) \/ msg.seq <= m.seq[msg.ticker] THEN {m}
  ELSE {Advance(x, msg.seq) : x \in IF msg.kind = "delta" THEN DrainDelta(m, msg)
                                    ELSE ApplySnapshot(m, msg)}

(* The baseline a drain starts from, and the last number it deals with. *)
DrainBase(m) ==
  LET known == {m.seq[t] : t \in {u \in m.tickers : m.books[u] # "none"}}
  IN  IF known = {} THEN Highest({m.lastSeq, 0}) ELSE Highest(known)

DrainTop(m, buffer) == Highest({DrainBase(m), buffer[Len(buffer)].seq})

DrainStart(m, buffer) ==
  LET jumped == (Highest({m.lastSeq, 0}) + 1 .. DrainTop(m, buffer))
                  \ {buffer[i].seq : i \in DOMAIN buffer}
  IN  [m EXCEPT !.pendingDeltas = <<>>, !.lastSeq = DrainBase(m), !.unseen = @ \cup jumped]

DrainBuffer(m) ==
  LET buffer == InOrder(m.pendingDeltas)
      after[n \in 0 .. Len(buffer)] ==
        IF n = 0 THEN {DrainStart(m, buffer)}
        ELSE UNION {DrainOne(x, buffer[n]) : x \in after[n - 1]}
  IN  IF buffer = <<>> THEN {m} ELSE after[Len(buffer)]

(* The recovery of the sid is over when no request of it is pending. *)
CompleteIfAnswered(m) ==
  IF Pending(m) # {} THEN {m}
  ELSE DrainBuffer([m EXCEPT !.recovering = FALSE, !.failures = 0, !.disabled = FALSE])

(* _handle_recovery_snapshot: the ticker is ticked off in one chunk that has *)
(* it.                                                                       *)
RecoverySnapshot(m, msg) ==
  LET Has(x) == {i \in Ids : msg.ticker \in x.requests[i]}
      TickOff(x) == IF Has(x) = {} THEN {x}
                    ELSE {[x EXCEPT !.requests[i] = @ \ {msg.ticker}] : i \in Has(x)}
  IN  UNION {CompleteIfAnswered(y) : y \in UNION {TickOff(x) : x \in ApplySnapshot(m, msg)}}

-----------------------------------------------------------------------------
(* handle_message, from the end to the beginning.                            *)

(* The number follows the baseline, or the sid has none.  An incoherent book *)
(* is quarantined like a desynced one; a number is consumed unless the book  *)
(* waits for its first snapshot, or the request for a recovery raises after  *)
(* an applied delta.                                                         *)
InSequence(m, msg) ==
  LET t == msg.ticker
      Quarantine(x) == TryRecovery(MarkStale(x, {t}), FALSE)
      Counted(x) == IF x.lastSeq = NoSeq THEN x ELSE Advance(x, msg.seq)
      After(o) ==
        CASE o.did = "queued" -> {IF o.m.books[t] = "stale" THEN Advance(o.m, msg.seq) ELSE o.m}
          [] o.did = "desync" -> {q.m : q \in Quarantine(Counted(o.m))}
          [] o.did = "applied" ->
               {Advance(o.m, msg.seq)}
               \cup When(o.m.missing[t] # {},
                      {IF q.did = "raised" THEN q.m ELSE Advance(q.m, msg.seq) :
                         q \in Quarantine(o.m)})
  IN  IF msg.kind = "snapshot"
      THEN {Advance(x, msg.seq) : x \in ApplySnapshot(m, msg)}
      ELSE UNION {After(o) : o \in ApplyDelta(m, msg)}

Keep(m, msg) == [m EXCEPT !.pendingDeltas = Append(@, msg)]

IsGap(m, msg) == m.lastSeq # NoSeq /\ msg.seq # m.lastSeq + 1

(* A gap: swallowed while the sid is disabled and its backoff runs, or       *)
(* suppressed; otherwise its message is the first in the buffer.             *)
Gap(m, msg) ==
  LET After(o) ==
        CASE o.did = "started" -> Keep(o.m, msg)
          [] o.did = "nothing" /\ ~o.m.disabled -> [o.m EXCEPT !.lastSeq = msg.seq]
          [] OTHER -> o.m
      swallowed == [m EXCEPT !.lastSeq = msg.seq, !.unseen = @ \cup (m.lastSeq + 1 .. msg.seq)]
  IN  When(m.disabled, {swallowed})
      \cup {After(o) : o \in TryRecovery(IF m.disabled THEN Rearm(m) ELSE m, TRUE)}

(* The handler raises, and the message is gone. *)
Dropped(m, msg) == [m EXCEPT !.unseen = @ \cup {msg.seq}]

(* The sid is recovering: _guard_stuck_recovery, then the buffer. *)
BufferIt(m, msg) ==
  LET guarded == AbortAndRestart(m, TRUE)
                 \cup (IF Len(m.pendingDeltas) >= BufferCap THEN AbortAndRestart(m, FALSE)
                       ELSE {[did |-> "nothing", m |-> m]})
  IN  {IF o.did = "raised" THEN Dropped(o.m, msg)
       ELSE IF o.m.recovering THEN Keep(o.m, msg)
       ELSE Dropped(Keep(o.m, msg), msg) : o \in guarded}

Dispatch(m, msg) ==
  IF m.recovering THEN BufferIt(m, msg)
  ELSE IF IsGap(m, msg) THEN Gap(m, msg)
  ELSE InSequence(m, msg)

(* Mutant: also a message that shows a gap starts it. *)
FireDeferredOnGap(m, msg) ==
  {[did |-> "nothing", m |-> m]}
  \cup When(~m.recovering /\ m.deferred,
         StartRecovery([m EXCEPT !.deferred = FALSE], TRUE, FALSE))

(* A scheduled recovery whose time has come starts on the next message that  *)
(* is no gap, and that message is the first in the buffer.                   *)
FireDeferred(m, msg) ==
  {[did |-> "nothing", m |-> m]}
  \cup When(~m.recovering /\ ~IsGap(m, msg) /\ m.deferred,
         StartRecovery([m EXCEPT !.deferred = FALSE], TRUE, FALSE))

(* A delta, or a snapshot without an id. *)
HandleMessage(m0, msg) ==
  LET m == [m0 EXCEPT !.tickers = @ \cup {msg.ticker}]
  IN  IF msg.kind = "snapshot" /\ m.recovering /\ Pending(m) # {}
      THEN RecoverySnapshot(m, msg)
      ELSE UNION {CASE o.did = "raised" -> {Dropped(o.m, msg)}
                    [] o.did = "started" -> {Keep(o.m, msg)}
                    [] o.did = "nothing" -> Dispatch(o.m, msg) : o \in FireDeferred(m, msg)}

(* A snapshot with an id: that of a request no longer pending is an echo. *)
HandleAnswer(m0, id, msg) ==
  LET m == [m0 EXCEPT !.tickers = @ \cup {msg.ticker}]
  IN  IF m.requests[id] = {} THEN {m} ELSE RecoverySnapshot(m, msg)

-----------------------------------------------------------------------------
Init ==
  /\ log = <<>>
  /\ closed = {}
  /\ mgr = [books |-> [t \in Tickers |-> "none"], seq |-> [t \in Tickers |-> 0],
            missing |-> [t \in Tickers |-> {}], bootstrap |-> [t \in Tickers |-> <<>>],
            tickers |-> {}, lastSeq |-> NoSeq, recovering |-> FALSE, pendingDeltas |-> <<>>,
            requests |-> [i \in Ids |-> {}], asked |-> {}, failures |-> 0, dead |-> {},
            disabled |-> FALSE, started |-> FALSE, deferred |-> FALSE,
            unseen |-> {}, faults |-> 0]
  /\ answers = {}
  /\ seeding = [chunks |-> <<>>, id |-> NoId]

(* The exchange emits a delta, or the snapshot a subscription begins with,   *)
(* and the dispatcher handles it unless it is lost.  The snapshots show it   *)
(* from its number on, or from a few numbers later.                          *)
Emit(t, kind, lost, lag) ==
  /\ Len(log) < MaxSeq /\ t \notin closed
  /\ lost => May("loss", mgr)
  /\ kind = "snapshot" => \A j \in DOMAIN log : log[j].ticker # t \/ log[j].kind = "delta"
  /\ lag > 0 => kind = "delta" /\ mgr.faults < MaxFaults
  /\ log' = Append(log, [ticker |-> t, kind |-> kind, lost |-> lost,
                         shown |-> Len(log) + 1 + lag])
  /\ LET m == Charged(mgr, lost \/ lag > 0)
     IN  mgr' \in IF lost THEN {m}
                  ELSE HandleMessage(m, [seq |-> Len(log) + 1, ticker |-> t, kind |-> kind])
  /\ UNCHANGED <<closed, answers, seeding>>

(* The exchange answers for one ticker of a request, *)
Answer(a) ==
  /\ a.ticker \notin closed
  /\ mgr' = [mgr EXCEPT !.asked = @ \ {a}]
  /\ answers' = answers \cup {[id |-> a.id, ticker |-> a.ticker, seq |-> Len(log)]}
  /\ UNCHANGED <<log, closed, seeding>>

(* or never does, *)
Ignore(a) ==
  /\ LET m == [mgr EXCEPT !.asked = @ \ {a}]
     IN  IF a.ticker \in closed THEN mgr' = m ELSE May("silence", mgr) /\ mgr' = Fault(m)
  /\ UNCHANGED <<log, closed, answers, seeding>>

(* or rejects the whole request (code 15), naming a settled market or none. *)
Reject(id, named) ==
  /\ May("reject", mgr)
  /\ LET asked == {a \in mgr.asked : a.id = id}
     IN  /\ asked # {}
         /\ {a \in answers : a.id = id} = {}
         /\ named \subseteq {a.ticker : a \in asked} \cap closed /\ Cardinality(named) <= 1
         /\ LET m == Fault([mgr EXCEPT !.asked = @ \ asked])
            IN  mgr' \in IF m.requests[id] = {} THEN {m}
                         ELSE {o.m : o \in RecoveryRejected(m, named)}
  /\ UNCHANGED <<log, closed, answers, seeding>>

(* An answer arrives; Kalshi may leave out the id. *)
Receive(a, withId) ==
  /\ withId \/ "noid" \in Faults
  /\ answers' = answers \ {a}
  /\ LET msg == [seq |-> a.seq, ticker |-> a.ticker, kind |-> "snapshot"]
     IN  mgr' \in IF withId THEN HandleAnswer(mgr, a.id, msg) ELSE HandleMessage(mgr, msg)
  /\ UNCHANGED <<log, closed, seeding>>

(* seed_blind_sids *)
Blind(t) == t \in mgr.tickers \ Unrecoverable(mgr) /\ ~Served(mgr, t)

(* Mutant: only a sid that is blind as a whole is seeded. *)
SeedWhenAllBlind(intervalOver) ==
  /\ seeding.chunks = <<>> /\ ~mgr.recovering /\ ~mgr.disabled
  /\ intervalOver \in IntervalOver(mgr)
  /\ mgr.tickers # {} /\ \A t \in mgr.tickers : Blind(t)
  /\ mgr' = BeginRecovery(mgr, intervalOver, FALSE).m
  /\ \E chunks \in Chunkings(mgr.tickers \ Unrecoverable(mgr)) :
       seeding' = IF mgr'.recovering THEN [seeding EXCEPT !.chunks = chunks] ELSE seeding
  /\ UNCHANGED <<log, closed, answers>>

Seed(intervalOver) ==
  /\ seeding.chunks = <<>>
  /\ ~mgr.recovering /\ ~mgr.disabled
  /\ intervalOver \in IntervalOver(mgr)
  /\ \E t \in Tickers : Blind(t)
  /\ LET begun == BeginRecovery(mgr, intervalOver, FALSE)
     IN  \E chunks \in Chunkings(mgr.tickers \ Unrecoverable(mgr)) :
           IF begun.did = "nothing" THEN mgr' = begun.m /\ UNCHANGED seeding
           ELSE IF "slow" \in Faults
           THEN mgr' = begun.m /\ seeding' = [seeding EXCEPT !.chunks = chunks]
           ELSE mgr' \in {o.m : o \in SendChunks(begun.m, chunks)} /\ UNCHANGED seeding
  /\ UNCHANGED <<log, closed, answers>>

(* Between two sends of the seed task, and between a send and the line that  *)
(* registers the request, the dispatcher may run.  A send that raises ends   *)
(* the task's round.                                                         *)
SeedSend ==
  /\ seeding.chunks # <<>> /\ seeding.id = NoId
  /\ FreeIds(mgr) # {}
  /\ LET id == CHOOSE i \in FreeIds(mgr) : \A j \in FreeIds(mgr) : i <= j
     IN  /\ mgr' = Ask(mgr, id, Head(seeding.chunks))
         /\ seeding' = [seeding EXCEPT !.id = id]
  /\ UNCHANGED <<log, closed, answers>>

SeedRaises ==
  /\ seeding.chunks # <<>> /\ seeding.id = NoId
  /\ May("send", mgr)
  /\ mgr' = Fault(mgr)
  /\ seeding' = [seeding EXCEPT !.chunks = <<>>]
  /\ UNCHANGED <<log, closed, answers>>

SeedRegister ==
  /\ seeding.id # NoId
  /\ mgr' = Register(mgr, seeding.id, Head(seeding.chunks))
  /\ seeding' = [chunks |-> Tail(seeding.chunks), id |-> NoId]
  /\ UNCHANGED <<log, closed, answers>>

Settle(t) ==
  /\ t \notin closed /\ Cardinality(closed) < MaxClosed
  /\ closed' = closed \cup {t}
  /\ UNCHANGED <<log, mgr, answers, seeding>>

Next ==
  \/ \E t \in Tickers, kind \in {"snapshot", "delta"}, lost \in BOOLEAN, lag \in 0 .. MaxLag :
       Emit(t, kind, lost, lag)
  \/ \E a \in mgr.asked : Answer(a) \/ Ignore(a)
  \/ \E id \in Ids, named \in SUBSET Tickers : Reject(id, named)
  \/ \E a \in answers, withId \in BOOLEAN : Receive(a, withId)
  \/ \E intervalOver \in BOOLEAN : Seed(intervalOver)
  \/ SeedSend \/ SeedRaises \/ SeedRegister
  \/ \E t \in Tickers : Settle(t)

Spec == Init /\ [][Next]_vars

(* The exchange answers what it does not lose, the dispatcher reads what     *)
(* arrives, and the watchdog of data_capture calls seed_blind_sids every 30  *)
(* seconds, with the minimum interval over.  Nothing makes the feed send.    *)
FairSpec ==
  /\ Spec
  /\ WF_vars(\E a \in mgr.asked : Answer(a) \/ Ignore(a))
  /\ WF_vars(\E a \in answers : Receive(a, TRUE))
  /\ WF_vars(Seed(TRUE))
  /\ WF_vars(SeedSend \/ SeedRaises) /\ WF_vars(SeedRegister)

-----------------------------------------------------------------------------
Numbers == 0 .. MaxSeq
Kinds == {"snapshot", "delta"}
Messages == [seq : Numbers, ticker : Tickers, kind : Kinds]

Managers ==
  [books : [Tickers -> {"none", "live", "stale"}], seq : [Tickers -> Numbers],
   missing : [Tickers -> SUBSET Numbers], bootstrap : [Tickers -> Seq(Messages)],
   tickers : SUBSET Tickers, lastSeq : Numbers \cup {NoSeq}, recovering : BOOLEAN,
   pendingDeltas : Seq(Messages), requests : [Ids -> SUBSET Tickers],
   asked : SUBSET Requests, failures : Nat, dead : SUBSET Tickers, disabled : BOOLEAN,
   started : BOOLEAN, deferred : BOOLEAN, unseen : SUBSET Numbers, faults : 0 .. MaxFaults]

TypeOK ==
  /\ log \in Seq([ticker : Tickers, kind : Kinds, lost : BOOLEAN, shown : Nat])
  /\ Len(log) <= MaxSeq
  /\ closed \subseteq Tickers
  /\ answers \subseteq [id : Ids, ticker : Tickers, seq : Numbers]
  /\ seeding \in [chunks : Seq(SUBSET Tickers), id : Ids \cup {NoId}]
  /\ mgr \in Managers /\ \A t \in Tickers : Len(mgr.bootstrap[t]) <= BootCap

(* The deltas of t after its book's number, up to the sid's baseline, which  *)
(* no buffer holds: the book will never be given them.                       *)
Buffered == {mgr.pendingDeltas[i].seq : i \in DOMAIN mgr.pendingDeltas}
Passed(t) == Skipped(t, mgr.seq[t], Highest({mgr.lastSeq + 1, mgr.seq[t]})) \ Buffered

(* Those of its deltas that snapshots show late. *)
Late(t) == UNION {Unshown(t, n) : n \in Numbers}

(* A book that get_top_of_book serves contains every delta of its market up  *)
(* to the baseline of the sid, but for those the manager threw away knowing  *)
(* it, and those the exchange showed late in its snapshots, which no check   *)
(* of the manager can tell from the number: a loss on the way is noticed     *)
(* before anything after it is served.  (Sequence check, quarantine,         *)
(* recovery, buffer and drain of the module.)                                *)
ServedIsTrue ==
  \A t \in Tickers :
    Served(mgr, t) => /\ mgr.missing[t] \subseteq mgr.unseen \cup Late(t)
                      /\ Passed(t) \subseteq mgr.unseen

(* A message that shows a gap leaves no book served, whether a recovery      *)
(* starts, is suppressed by the rate limit, is waiting for its time, or      *)
(* cannot be asked for; the backoff of a disabled sid is the only exception. *)
GapBlindsAll ==
  [][LET k == Len(log')
         gap == /\ k > Len(log) /\ ~log'[k].lost
                /\ mgr.lastSeq # NoSeq /\ k > mgr.lastSeq + 1
     IN  gap /\ ~mgr.recovering /\ ~mgr.disabled => \A t \in Tickers : ~Served(mgr', t)]_vars

Waiting == mgr.recovering /\ mgr.asked = {} /\ answers = {}

(* A market that is blind and can be asked for is seeded in the end, unless  *)
(* the sid is disabled or its recovery waits for an answer that will not     *)
(* come, which only a later message finds out (seed_blind_sids).             *)
BlindIsSeeded ==
  \A t \in Tickers : Blind(t) ~> (~Blind(t) \/ mgr.disabled \/ Waiting)
=============================================================================
