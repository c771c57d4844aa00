------------------------------ MODULE ChatProofs ------------------------------
(***************************************************************************)
(* Theorems about ChatClient, for any number of requests, sessions, order  *)
(* lookups, crashes, lost connections, ratings and visits to the history.  *)
(***************************************************************************)
EXTENDS ChatClient, FiniteSetTheorems, SequenceTheorems, TLAPS

Full == {"whole", "marked"}
Item == [type : {"part", "whole", "marked", "done", "error", "end"}, message : Ids \cup {0}]
Wire == [state : {"unsent", "sent", "open", "cut", "read"}, named : SessionId,
         events : Seq(Item), got : Ids \cup {0}]

EndedTurn == [pc |-> "ended"]
LiveTurn == [pc : {"ordering", "refusing"} \cup Awaiting, session : Sessions, user : Ids,
             mode : {"none", "shown", "canned", "generated", "empty"}, traced : BOOLEAN]
Working(turn) == turn.pc \notin {"none", "ended"}

\* A handler: it traces what it retrieves, and has made its reply where it only
\* waits for the packet.
HandlerOK(turn) ==
    /\ turn \in {NoTurn, EndedTurn} \cup LiveTurn
    /\ turn.pc \in {"ordering", "refusing"} => ~turn.traced
    /\ turn.pc \in {"classifying", "generating"} => turn.traced
    /\ turn.pc = "preparing" => turn.mode \in {"canned", "generated", "empty"}

-----------------------------------------------------------------------------
(* The tables.                                                             *)

Stored(ms, m) == m \in DOMAIN ms /\ ms[m].role = "assistant"

\* A request writes its question, and a reply before it ends.
Started(hs) == {t \in Turns : hs[t].pc # "none"}
Finished(hs) == {t \in Turns : hs[t].pc = "ended"}

\* Each reply answers a question of its own or is a lookup's result, and only
\* replies are rated.
MessagesOK(ms) ==
    /\ ms \in Seq(Message)
    /\ \A m \in DOMAIN ms :
          /\ ms[m].role = "assistant" => ms[m].to \in 1..Len(ms) \/ (ms[m].to = 0 /\ ms[m].mode = "result")
          /\ ms[m].role = "user" => ms[m].to = 0 /\ ms[m].rating = "none"
    /\ \A m, n \in DOMAIN ms : ms[m].to = ms[n].to /\ ms[m].to # 0 => m = n

\* TraceTellsOutcome, of any tables.
TracesOK(ts, ms) == \A trace \in ts :
    /\ trace \in [user : DOMAIN ms, assistant : DOMAIN ms \cup {0}]
    /\ \A other \in ts : other.user = trace.user => other = trace
    /\ IF trace.assistant # 0 THEN ms[trace.assistant].to = trace.user
       ELSE \A m \in DOMAIN ms : ms[m].to # trace.user

\* RatingReachesReview, of any tables.
Settled(rs, ms, q) ==
    \/ \E n \in Rated(ms, q) : rs[q] = ms[n].rating
    \/ /\ \A n \in Rated(ms, q) : ms[n].rating = "high"
       /\ \/ rs[q] = NoReview
          \/ rs[q] = "unrated" /\ Rated(ms, q) \subseteq Results(ms)
ReviewsOK(rs, ms) ==
    /\ rs \in [Ids -> {NoReview, "unrated", "low", "high"}]
    /\ \A m \in DOMAIN ms : ms[m].rating # "none" => \E q \in DOMAIN ms : Answers(ms, m, q)
    /\ \A q \in DOMAIN ms : Rated(ms, q) # {} => Settled(rs, ms, q)

\* The question of a handler that is at work has neither a reply nor a trace.
Asked(turn, ms, ts) == Working(turn) =>
    /\ turn.user \in DOMAIN ms
    /\ \A m \in DOMAIN ms : ms[m].to # turn.user
    /\ \A trace \in ts : trace.user # turn.user

TablesOK(hs, ms, ts, rs) ==
    /\ hs \in [Turns -> {NoTurn, EndedTurn} \cup LiveTurn]
    /\ \A t \in Turns : HandlerOK(hs[t]) /\ Asked(hs[t], ms, ts)
    /\ \A t, u \in Turns : Working(hs[t]) /\ Working(hs[u]) /\ hs[t].user = hs[u].user => t = u
    /\ Len(ms) <= Cardinality(Started(hs)) + Cardinality(Finished(hs)) + Cardinality(Results(ms))
    /\ Cardinality(Results(ms)) \in 0..MaxLookups
    /\ MessagesOK(ms) /\ TracesOK(ts, ms) /\ ReviewsOK(rs, ms)

-----------------------------------------------------------------------------
(* The stream of a request, from the handler to the bubble that waits.     *)

Whole(t, bs) == \A b \in bs : Waiting(b, t) => b.text \in Full
Blank(t, bs) == \A b \in bs : Waiting(b, t) => b.text \notin Full

\* Before its whole text is written, and after: Late waits for the packet only.
Early(turn) == \/ turn.pc \in {"ordering", "refusing", "classifying", "generating"}
               \/ turn.pc = "preparing" /\ ~turn.traced
Late(turn) == turn.pc = "preparing" /\ turn.traced /\ turn.mode # "empty"

\* What is on an open connection: no part of a text follows the whole of it,
\* and a done event names a reply whose whole text has come before it.
Flows(t, turn, w, bs, ms) ==
    /\ \A j, k \in DOMAIN w.events :
          j < k /\ w.events[j].type \in Full => w.events[k].type # "part"
    /\ \A k \in DOMAIN w.events : w.events[k].type = "done" =>
          /\ Stored(ms, w.events[k].message)
          /\ Whole(t, bs) \/ \E j \in DOMAIN w.events : j < k /\ w.events[j].type \in Full
    /\ ~Blank(t, bs) => \A k \in DOMAIN w.events : w.events[k].type # "part"
    /\ w.got # 0 => Stored(ms, w.got) /\ Whole(t, bs)
    /\ Early(turn) => Blank(t, bs) /\ \A k \in DOMAIN w.events : w.events[k].type \notin Full
    /\ Late(turn) => Whole(t, bs) \/ \E k \in DOMAIN w.events : w.events[k].type \in Full

StreamOK(t, turn, w, bs, ms) ==
    /\ w \in Wire
    /\ w.state \in {"unsent", "sent"} =>
          turn = NoTurn /\ w.events = <<>> /\ w.got = 0 /\ Blank(t, bs)
    /\ w.state = "cut" => w.events = <<Event("end", 0)>>
    /\ w.state = "read" => w.events = <<>>
    /\ w.state = "open" => Flows(t, turn, w, bs, ms)

StreamsOK == wire \in [Turns -> Wire] /\
    \A t \in Turns : StreamOK(t, turns[t], wire[t], bubbles, messages)

\* ShownAnswersAreStored, of any screen.
BubblesOK(bs, ms) ==
    /\ bs \subseteq Bubble
    /\ \A b \in bs : /\ b.live => b.turn # 0
                     /\ Complete(b) => Stored(ms, b.message) /\ b.text \in Full

ViewOK ==
    /\ view \in [session : SessionId, busy : BOOLEAN] /\ closing \in SessionId
    /\ opening \in [session : SessionId, upto : Nat] /\ opening.upto <= Len(messages)

SessionsOK ==
    /\ up \in BOOLEAN /\ sessions \in [Sessions -> Life!Session]
    /\ handoffs \subseteq Sessions /\ rare \in 0..MaxRare

\* A lookup has a session, and one that is answered a result in the table.
LookupsOK(ls, ms) ==
    /\ ls \in [Turns -> Lookup]
    /\ \A t \in Turns : /\ ls[t].pc # "none" => ls[t].session \in Sessions
                        /\ ls[t].pc = "saved" => Stored(ms, ls[t].message)

\* The inductive invariant: what is shown is stored because the stream brings
\* the whole text before the id, and the trace tells the outcome because the
\* question of a handler at work has neither a reply nor a trace.
IInv ==
    /\ TablesOK(turns, messages, traces, reviews)
    /\ StreamsOK /\ BubblesOK(bubbles, messages) /\ ViewOK /\ SessionsOK
    /\ LookupsOK(lookups, messages)

-----------------------------------------------------------------------------
(* Room in the messages table.                                             *)

LEMMA Counts ==
  ASSUME NEW T \in SUBSET Turns, NEW S \in SUBSET T
  PROVE  /\ Cardinality(S) \in Nat /\ Cardinality(T) \in Nat /\ Cardinality(Turns) \in Nat
         /\ Cardinality(S) <= Cardinality(T) /\ Cardinality(T) <= Cardinality(Turns)
         /\ S # T => Cardinality(S) < Cardinality(T)
<1>1. IsFiniteSet(T) /\ Cardinality(T) <= Cardinality(Turns)
  BY ChatAssumption, FS_Subset
<1>2. /\ IsFiniteSet(S) /\ Cardinality(S) <= Cardinality(T)
      /\ Cardinality(T) = Cardinality(S) => T = S
  BY <1>1, FS_Subset
<1>3. Cardinality(S) \in Nat /\ Cardinality(T) \in Nat /\ Cardinality(Turns) \in Nat
  BY <1>1, <1>2, ChatAssumption, FS_CardinalityType
<1> QED
  BY <1>1, <1>2, <1>3

\* A step that starts or ends a handler leaves room for one more row, and no
\* table ever needs an id that is not there.
LEMMA Room ==
  ASSUME NEW hs, NEW ks, NEW n \in Nat, NEW r \in 0..MaxLookups,
         Started(hs) \subseteq Started(ks), Finished(hs) \subseteq Finished(ks),
         n <= Cardinality(Started(hs)) + Cardinality(Finished(hs)) + r
  PROVE  /\ n <= Cardinality(Started(ks)) + Cardinality(Finished(ks)) + r
         /\ 1..n \subseteq Ids
         /\ Started(hs) # Started(ks) \/ Finished(hs) # Finished(ks) =>
              /\ n + 1 <= Cardinality(Started(ks)) + Cardinality(Finished(ks)) + r
              /\ 1..(n + 1) \subseteq Ids
         /\ r < MaxLookups =>
              /\ n + 1 <= Cardinality(Started(ks)) + Cardinality(Finished(ks)) + (r + 1)
              /\ 1..(n + 1) \subseteq Ids
<1>0. /\ Started(ks) \in SUBSET Turns /\ Finished(ks) \in SUBSET Turns
      /\ Started(hs) \in SUBSET Started(ks) /\ Finished(hs) \in SUBSET Finished(ks)
  BY DEF Started, Finished
<1> DEFINE a == Cardinality(Started(hs))
           b == Cardinality(Started(ks))
           c == Cardinality(Finished(hs))
           d == Cardinality(Finished(ks))
           e == Cardinality(Turns)
<1>1. /\ a \in Nat /\ b \in Nat /\ e \in Nat /\ a <= b /\ b <= e
      /\ Started(hs) # Started(ks) => a < b
  BY <1>0, Counts
<1>2. /\ c \in Nat /\ d \in Nat /\ c <= d /\ d <= e
      /\ Finished(hs) # Finished(ks) => c < d
  BY <1>0, Counts
<1>3. Ids = 1..(2 * e + MaxLookups) /\ MaxLookups \in Nat /\ r \in Nat /\ r <= MaxLookups
  BY ChatAssumption DEF Ids
<1> HIDE DEF a, b, c, d, e
<1>4. n <= a + c + r
  BY DEF a, c
<1>5. n <= b + d + r /\ 1..n \subseteq Ids
  BY <1>1, <1>2, <1>3, <1>4
<1>6. Started(hs) # Started(ks) \/ Finished(hs) # Finished(ks) => n + 1 <= b + d + r /\ 1..(n + 1) \subseteq Ids
  BY <1>1, <1>2, <1>3, <1>4
<1>7. r < MaxLookups => n + 1 <= b + d + (r + 1) /\ 1..(n + 1) \subseteq Ids
  BY <1>1, <1>2, <1>3, <1>4
<1> QED
  BY <1>5, <1>6, <1>7 DEF b, d

\* How the handlers' steps change who has started and who has finished.
LEMMA Moves ==
  ASSUME NEW hs, NEW t \in Turns, NEW ks, DOMAIN hs = Turns
  PROVE  /\ (\A u \in Turns : ks[u] = hs[u] \/ ks[u] = EndedTurn) =>
              Started(hs) \subseteq Started(ks) /\ Finished(hs) \subseteq Finished(ks)
         /\ \A new : ks = [hs EXCEPT ![t] = new] =>
              /\ hs[t].pc = "none" /\ new.pc \notin {"none", "ended"} =>
                   /\ Started(hs) \subseteq Started(ks) /\ Finished(hs) \subseteq Finished(ks)
                   /\ Started(hs) # Started(ks)
              /\ Working(hs[t]) /\ new.pc = "ended" =>
                   /\ Started(hs) \subseteq Started(ks) /\ Finished(hs) \subseteq Finished(ks)
                   /\ Finished(hs) # Finished(ks)
              /\ Working(hs[t]) /\ Working(new) =>
                   /\ Started(hs) \subseteq Started(ks) /\ Finished(hs) \subseteq Finished(ks)
  BY DEF Started, Finished, Working, EndedTurn

-----------------------------------------------------------------------------
(* Rows.                                                                   *)

\* The rows that are there keep who wrote them.
Kept(ms, ns) == DOMAIN ms \subseteq DOMAIN ns /\ \A m \in DOMAIN ms : ns[m].role = ms[m].role

\* ns is the table ms with the row n added to it.
Added(ms, n, row, ns) ==
    /\ ns \in Seq(Message) /\ n \in Nat \ {0} /\ Len(ms) = n - 1 /\ Len(ns) = n
    /\ DOMAIN ms = 1..(n - 1) /\ DOMAIN ns = 1..n
    /\ \A m \in 1..(n - 1) : ns[m] = ms[m]
    /\ ns[n] = row

LEMMA NewRow ==
  ASSUME NEW ms \in Seq(Message), NEW row \in Message
  PROVE  /\ Added(ms, Len(ms) + 1, row, Append(ms, row))
         /\ Kept(ms, Append(ms, row))
<1> DEFINE ns == Append(ms, row)
<1>1. /\ ns \in Seq(Message) /\ Len(ns) = Len(ms) + 1
      /\ \A m \in 1..Len(ms) : ns[m] = ms[m]
      /\ ns[Len(ms) + 1] = row
  BY AppendProperties
<1>2. Len(ms) \in Nat /\ DOMAIN ms = 1..Len(ms) /\ DOMAIN ns = 1..Len(ns)
  BY <1>1, LenProperties
<1> HIDE DEF ns
<1>3. Added(ms, Len(ms) + 1, row, ns) /\ Kept(ms, ns)
  BY <1>1, <1>2 DEF Added, Kept
<1> QED
  BY <1>3 DEF ns

\* A row that is no result leaves their number as it is.
LEMMA ResultsAdded ==
  ASSUME NEW ms, NEW n, NEW row, NEW ns, Added(ms, n, row, ns)
  PROVE  /\ Cardinality(Results(ms)) \in Nat
         /\ row.mode # "result" => Results(ns) = Results(ms)
         /\ row.mode = "result" => Cardinality(Results(ns)) = Cardinality(Results(ms)) + 1
<1>1. /\ n \in Nat \ {0} /\ DOMAIN ms = 1..(n - 1) /\ DOMAIN ns = 1..n
      /\ \A m \in 1..(n - 1) : ns[m] = ms[m]
      /\ ns[n] = row
  BY DEF Added
<1>2. IsFiniteSet(Results(ms)) /\ n \notin Results(ms)
  <2>1. IsFiniteSet(1..(n - 1)) /\ Results(ms) \in SUBSET (1..(n - 1))
    BY <1>1, FS_Interval DEF Results
  <2> QED
    BY <1>1, <2>1, FS_Subset
<1>3. row.mode # "result" => Results(ns) = Results(ms)
  BY <1>1 DEF Results
<1>4. row.mode = "result" => Results(ns) = Results(ms) \cup {n}
  BY <1>1 DEF Results
<1> QED
  BY <1>2, <1>3, <1>4, FS_AddElement, FS_CardinalityType

-----------------------------------------------------------------------------
(* Questions and their reviews.                                            *)

LEMMA Rows ==
  ASSUME NEW ms, MessagesOK(ms)
  PROVE  /\ Len(ms) \in Nat /\ DOMAIN ms = 1..Len(ms)
         /\ \A m \in DOMAIN ms : ms[m] \in Message /\ ms[m].to \in 0..Len(ms)
<1>1. ms \in Seq(Message) /\ Len(ms) \in Nat /\ DOMAIN ms = 1..Len(ms)
  BY LenProperties DEF MessagesOK
<1>2. ASSUME NEW m \in DOMAIN ms PROVE ms[m] \in Message /\ ms[m].to \in 0..Len(ms)
  <2>1. ms[m] \in Message
    BY <1>1, <1>2, ElementOfSeq
  <2>2. ms[m].role \in {"user", "assistant"}
    BY <2>1 DEF Message
  <2> QED
    BY <1>1, <1>2, <2>1, <2>2 DEF MessagesOK
<1> QED
  BY <1>1, <1>2

\* A reply has one question.
LEMMA AnswersOnce ==
  ASSUME NEW ms, MessagesOK(ms), NEW m \in DOMAIN ms, NEW p \in DOMAIN ms, NEW q \in DOMAIN ms,
         Answers(ms, m, p), Answers(ms, m, q)
  PROVE  p = q
<1>1. DOMAIN ms \subseteq Nat
  BY Rows
<1>2. CASE ms[m].to # 0
  BY <1>2 DEF Answers
<1>3. CASE ms[m].to = 0
  <2>1. p <= q /\ q <= p
    BY <1>3 DEF Answers
  <2>2. p \in Nat /\ q \in Nat
    BY <1>1
  <2> QED
    BY <2>1, <2>2
<1> QED
  BY <1>2, <1>3

\* A rating changes no reply's question.
LEMMA AnswersSame ==
  ASSUME NEW ms, NEW ns, DOMAIN ns = DOMAIN ms,
         \A i \in DOMAIN ms : /\ ns[i].to = ms[i].to /\ ns[i].role = ms[i].role
                              /\ ns[i].session = ms[i].session
  PROVE  \A m, q \in DOMAIN ms : Answers(ns, m, q) <=> Answers(ms, m, q)
<1> SUFFICES ASSUME NEW m \in DOMAIN ms, NEW q \in DOMAIN ms
             PROVE  Answers(ns, m, q) <=> Answers(ms, m, q)
  OBVIOUS
<1>1. Earlier(ns, m) = Earlier(ms, m)
  BY DEF Earlier
<1> QED
  BY <1>1 DEF Answers

\* Nor does a new row, and it is nobody's question yet.
LEMMA AnswersAdded ==
  ASSUME NEW ms, MessagesOK(ms), NEW n, NEW row, NEW ns, Added(ms, n, row, ns)
  PROVE  \A m \in 1..(n - 1) : /\ \A q \in 1..(n - 1) : Answers(ns, m, q) <=> Answers(ms, m, q)
                               /\ ~Answers(ns, m, n)
<1> SUFFICES ASSUME NEW m \in 1..(n - 1)
             PROVE  /\ \A q \in 1..(n - 1) : Answers(ns, m, q) <=> Answers(ms, m, q)
                    /\ ~Answers(ns, m, n)
  OBVIOUS
<1>1. /\ n \in Nat \ {0} /\ DOMAIN ms = 1..(n - 1) /\ DOMAIN ns = 1..n /\ Len(ms) = n - 1
      /\ \A i \in 1..(n - 1) : ns[i] = ms[i]
  BY DEF Added
<1>2. ns[m] = ms[m] /\ ms[m].to \in 0..(n - 1)
  BY <1>1, Rows
<1>3. Earlier(ns, m) = Earlier(ms, m) /\ n \notin Earlier(ns, m)
  <2>1. \A u \in 1..n : u < m => u \in 1..(n - 1)
    BY <1>1
  <2>2. ~(n < m)
    BY <1>1
  <2> QED
    BY <1>1, <1>2, <2>1, <2>2 DEF Earlier
<1>4. ms[m].to # n
  BY <1>1, <1>2
<1> QED
  BY <1>2, <1>3, <1>4 DEF Answers

LEMMA ReviewsAdded ==
  ASSUME NEW ms, MessagesOK(ms), NEW rs, ReviewsOK(rs, ms),
         NEW n, NEW row, row.rating = "none", NEW ns, Added(ms, n, row, ns)
  PROVE  ReviewsOK(rs, ns)
<1>1. /\ n \in Nat \ {0} /\ DOMAIN ms = 1..(n - 1) /\ DOMAIN ns = 1..n
      /\ \A i \in 1..(n - 1) : ns[i] = ms[i]
      /\ ns[n].rating = "none"
  BY DEF Added
<1>2. \A m \in 1..(n - 1) : /\ \A q \in 1..(n - 1) : Answers(ns, m, q) <=> Answers(ms, m, q)
                            /\ ~Answers(ns, m, n)
  BY AnswersAdded
<1>3. \A m \in 1..n : m = n \/ m \in 1..(n - 1)
  BY <1>1
<1>4. \A q \in 1..(n - 1) : Rated(ns, q) = Rated(ms, q)
  BY <1>1, <1>2, <1>3 DEF Rated
<1>5. Rated(ns, n) = {}
  BY <1>1, <1>2, <1>3 DEF Rated
<1>6. ASSUME NEW m \in 1..n, ns[m].rating # "none" PROVE \E q \in 1..n : Answers(ns, m, q)
  <2>1. m \in 1..(n - 1) /\ ms[m].rating # "none"
    BY <1>1, <1>3, <1>6
  <2>2. PICK q \in 1..(n - 1) : Answers(ms, m, q)
    BY <1>1, <2>1 DEF ReviewsOK
  <2>3. q \in 1..n
    BY <1>1
  <2> QED
    BY <1>2, <2>1, <2>2, <2>3
<1>7. ASSUME NEW q \in 1..n, Rated(ns, q) # {} PROVE Settled(rs, ns, q)
  <2>1. q \in 1..(n - 1)
    BY <1>3, <1>5, <1>7
  <2>2. Rated(ns, q) = Rated(ms, q) /\ Settled(rs, ms, q) /\ Rated(ms, q) \subseteq 1..(n - 1)
    BY <1>1, <1>4, <1>7, <2>1 DEF ReviewsOK, Rated
  <2>3. \A m \in 1..(n - 1) : m \in Results(ms) => m \in Results(ns)
    BY <1>1, <1>3 DEF Results
  <2> QED
    BY <1>1, <2>2, <2>3 DEF Settled
<1> QED
  BY <1>1, <1>6, <1>7 DEF ReviewsOK

\* A gap is captured before the question has a reply of its own: whoever rated
\* a reply to it rated a result.
LEMMA ReviewsCaptured ==
  ASSUME NEW ms, MessagesOK(ms), NEW rs, ReviewsOK(rs, ms), DOMAIN ms \subseteq Ids,
         NEW u \in DOMAIN ms, \A m \in DOMAIN ms : ms[m].to # u, rs[u] = NoReview,
         NEW qs, qs = [rs EXCEPT ![u] = "unrated"]
  PROVE  ReviewsOK(qs, ms)
<1>1. /\ qs \in [Ids -> {NoReview, "unrated", "low", "high"}] /\ qs[u] = "unrated"
      /\ \A q \in DOMAIN ms : q # u => qs[q] = rs[q]
  BY DEF ReviewsOK
<1>2. ASSUME NEW q \in DOMAIN ms, Rated(ms, q) # {} PROVE Settled(qs, ms, q)
  <2>1. Settled(rs, ms, q)
    BY <1>2 DEF ReviewsOK
  <2>2. CASE q # u
    BY <1>1, <2>1, <2>2 DEF Settled
  <2>3. CASE q = u
    <3>1. \A n \in Rated(ms, u) : rs[u] # ms[n].rating
      BY DEF Rated, NoReview
    <3>2. \A n \in Rated(ms, u) : ms[n].rating = "high"
      BY <2>1, <2>3, <3>1 DEF Settled
    <3>3. ASSUME NEW n \in Rated(ms, u) PROVE n \in Results(ms)
      <4>1. n \in DOMAIN ms /\ ms[n].rating # "none" /\ ms[n].to = 0
        BY DEF Rated, Answers
      <4>2. ms[n].role = "assistant"
        <5>1. ms[n] \in Message
          BY <4>1, Rows
        <5>2. ms[n].role \in {"user", "assistant"}
          BY <5>1 DEF Message
        <5> QED
          BY <4>1, <5>2 DEF MessagesOK
      <4>3. ms[n].mode = "result"
        <5>1. ms[n].to \notin 1..Len(ms)
          BY <4>1
        <5> QED
          BY <4>1, <4>2, <5>1 DEF MessagesOK
      <4> QED
        BY <4>1, <4>3 DEF Results
    <3> QED
      BY <1>1, <2>3, <3>2, <3>3 DEF Settled
  <2> QED
    BY <2>2, <2>3
<1> QED
  BY <1>1, <1>2 DEF ReviewsOK

-----------------------------------------------------------------------------
(* What a step of a handler does to the tables.                            *)

\* The rows that the table can hold.
LEMMA TableIds ==
  ASSUME NEW hs, NEW ms, NEW ts, NEW rs, TablesOK(hs, ms, ts, rs)
  PROVE  /\ ms \in Seq(Message) /\ Len(ms) \in Nat /\ DOMAIN ms = 1..Len(ms) /\ DOMAIN ms \subseteq Ids
         /\ DOMAIN hs = Turns
<1>1. ms \in Seq(Message) /\ DOMAIN hs = Turns
  BY DEF TablesOK, MessagesOK
<1>2. Len(ms) \in Nat /\ DOMAIN ms = 1..Len(ms)
  BY <1>1, LenProperties
<1>3. /\ Len(ms) <= Cardinality(Started(hs)) + Cardinality(Finished(hs)) + Cardinality(Results(ms))
      /\ Cardinality(Results(ms)) \in 0..MaxLookups
  BY DEF TablesOK
<1> QED
  BY <1>1, <1>2, <1>3, Room

\* A question is stored, and its handler goes to work.
LEMMA TablesBegin ==
  ASSUME NEW hs, NEW ms, NEW ts, NEW rs, TablesOK(hs, ms, ts, rs),
         NEW n, NEW row, row.to = 0, row.role = "user", row.rating = "none", row.mode = "question",
         NEW ns, Added(ms, n, row, ns),
         NEW t \in Turns, hs[t] = NoTurn,
         NEW new, Working(new), new.user = n, n \in Ids => HandlerOK(new),
         NEW ks, ks = [hs EXCEPT ![t] = new]
  PROVE  TablesOK(ks, ns, ts, rs)
<1>1. MessagesOK(ms) /\ TracesOK(ts, ms) /\ ReviewsOK(rs, ms) /\ DOMAIN hs = Turns
  BY DEF TablesOK
<1>2. /\ ns \in Seq(Message) /\ n \in Nat \ {0} /\ Len(ms) = n - 1 /\ Len(ns) = n
      /\ DOMAIN ms = 1..(n - 1) /\ DOMAIN ns = 1..n
      /\ \A m \in 1..(n - 1) : ns[m] = ms[m]
      /\ ns[n] = row
  BY DEF Added
<1>3. ~Working(hs[t])
  BY DEF NoTurn, Working
<1>4. /\ Started(hs) \subseteq Started(ks) /\ Finished(hs) \subseteq Finished(ks)
      /\ Started(hs) # Started(ks)
  BY <1>1 DEF Started, Finished, NoTurn, Working
<1>5. /\ Len(ms) <= Cardinality(Started(hs)) + Cardinality(Finished(hs)) + Cardinality(Results(ms))
      /\ Cardinality(Results(ms)) \in 0..MaxLookups /\ Results(ns) = Results(ms)
  BY ResultsAdded DEF TablesOK
<1>6. /\ n <= Cardinality(Started(ks)) + Cardinality(Finished(ks)) + Cardinality(Results(ns))
      /\ n \in Ids
  <2> DEFINE k == Len(ms)
  <2>1. k \in Nat /\ k + 1 = n
    BY <1>2
  <2>2. /\ k + 1 <= Cardinality(Started(ks)) + Cardinality(Finished(ks)) + Cardinality(Results(ms))
        /\ 1..(k + 1) \subseteq Ids
    BY <1>4, <1>5, <2>1, Room
  <2> QED
    BY <1>2, <1>5, <2>1, <2>2
<1>7. HandlerOK(new)
  BY <1>6
<1>8. /\ ks \in [Turns -> {NoTurn, EndedTurn} \cup LiveTurn]
      /\ \A u \in Turns : HandlerOK(ks[u])
  BY <1>7 DEF TablesOK, HandlerOK
<1>10. \A m \in 1..(n - 1) : ms[m].to \in 0..(n - 1)
  BY <1>1, <1>2, Rows
<1>11. MessagesOK(ns)
  <2>1. ASSUME NEW m \in 1..n
        PROVE  /\ ns[m].role = "assistant" => ns[m].to \in 1..n \/ (ns[m].to = 0 /\ ns[m].mode = "result")
               /\ ns[m].role = "user" => ns[m].to = 0 /\ ns[m].rating = "none"
    BY <1>1, <1>2 DEF MessagesOK
  <2>2. ASSUME NEW m \in 1..n, NEW l \in 1..n, ns[m].to = ns[l].to, ns[m].to # 0
        PROVE  m = l
    BY <1>1, <1>2, <2>2 DEF MessagesOK
  <2> QED
    BY <1>2, <2>1, <2>2 DEF MessagesOK
<1>12. \A trace \in ts : trace.user \in 1..(n - 1) /\ trace.assistant \in 0..(n - 1)
  BY <1>1, <1>2 DEF TracesOK
<1>13. TracesOK(ts, ns)
  <2>1. ASSUME NEW trace \in ts
        PROVE  /\ trace \in [user : 1..n, assistant : 1..n \cup {0}]
               /\ IF trace.assistant # 0 THEN ns[trace.assistant].to = trace.user
                  ELSE \A m \in 1..n : ns[m].to # trace.user
    <3>1. /\ trace \in [user : 1..(n - 1), assistant : 1..(n - 1) \cup {0}]
          /\ IF trace.assistant # 0 THEN ms[trace.assistant].to = trace.user
             ELSE \A m \in 1..(n - 1) : ms[m].to # trace.user
      BY <1>1, <1>2 DEF TracesOK
    <3> QED
      BY <1>2, <3>1
  <2> QED
    BY <1>1, <1>2, <2>1 DEF TracesOK
<1>14. ReviewsOK(rs, ns)
  BY <1>1, ReviewsAdded
<1>15. \A u \in Turns : Asked(ks[u], ns, ts)
  <2>1. Asked(new, ns, ts)
    BY <1>2, <1>10, <1>12 DEF Asked
  <2>2. ASSUME NEW u \in Turns, u # t PROVE Asked(ks[u], ns, ts)
    <3>1. ks[u] = hs[u] /\ Asked(hs[u], ms, ts)
      BY <1>1, <2>2 DEF TablesOK
    <3> QED
      BY <1>2, <3>1 DEF Asked
  <2> QED
    BY <1>1, <2>1, <2>2
<1>16. \A u, v \in Turns : Working(ks[u]) /\ Working(ks[v]) /\ ks[u].user = ks[v].user => u = v
  <2>1. \A u \in Turns : Working(hs[u]) => hs[u].user \in 1..(n - 1)
    BY <1>2 DEF TablesOK, Asked
  <2> QED
    BY <1>1, <1>2, <2>1 DEF TablesOK
<1> QED
  BY <1>2, <1>5, <1>6, <1>8, <1>11, <1>13, <1>14, <1>15, <1>16 DEF TablesOK

\* A handler goes on with the same question.
LEMMA TablesContinue ==
  ASSUME NEW hs, NEW ms, NEW ts, NEW rs, TablesOK(hs, ms, ts, rs),
         NEW t \in Turns, Working(hs[t]), NEW new, Working(new), HandlerOK(new),
         new.user = hs[t].user,
         NEW ks, ks = [hs EXCEPT ![t] = new]
  PROVE  TablesOK(ks, ms, ts, rs)
<1>1. Len(ms) \in Nat /\ DOMAIN hs = Turns
  BY TableIds
<1>2. Started(hs) \subseteq Started(ks) /\ Finished(hs) \subseteq Finished(ks)
  BY <1>1, Moves
<1>3. /\ Len(ms) <= Cardinality(Started(hs)) + Cardinality(Finished(hs)) + Cardinality(Results(ms))
      /\ Cardinality(Results(ms)) \in 0..MaxLookups
  BY DEF TablesOK
<1>4. Len(ms) <= Cardinality(Started(ks)) + Cardinality(Finished(ks)) + Cardinality(Results(ms))
  BY <1>1, <1>2, <1>3, Room
<1>5. ks \in [Turns -> {NoTurn, EndedTurn} \cup LiveTurn]
  BY DEF TablesOK, HandlerOK
<1>6. \A u \in Turns : HandlerOK(ks[u]) /\ Asked(ks[u], ms, ts)
  BY <1>1 DEF TablesOK, Asked
<1>7. \A u, v \in Turns : Working(ks[u]) /\ Working(ks[v]) /\ ks[u].user = ks[v].user => u = v
  BY <1>1 DEF TablesOK
<1> QED
  BY <1>4, <1>5, <1>6, <1>7 DEF TablesOK

\* Handlers end without a word.
LEMMA TablesEnd ==
  ASSUME NEW hs, NEW ms, NEW ts, NEW rs, TablesOK(hs, ms, ts, rs),
         NEW ks, DOMAIN ks = Turns, ks = [u \in Turns |-> ks[u]],
         \A u \in Turns : ks[u] = hs[u] \/ ks[u] = EndedTurn
  PROVE  TablesOK(ks, ms, ts, rs)
<1>1. Len(ms) \in Nat /\ DOMAIN hs = Turns
  BY TableIds
<1>2. Started(hs) \subseteq Started(ks) /\ Finished(hs) \subseteq Finished(ks)
  BY DEF Started, Finished, EndedTurn
<1>3. /\ Len(ms) <= Cardinality(Started(hs)) + Cardinality(Finished(hs)) + Cardinality(Results(ms))
      /\ Cardinality(Results(ms)) \in 0..MaxLookups
  BY DEF TablesOK
<1>4. Len(ms) <= Cardinality(Started(ks)) + Cardinality(Finished(ks)) + Cardinality(Results(ms))
  BY <1>1, <1>2, <1>3, Room
<1>5. ks \in [Turns -> {NoTurn, EndedTurn} \cup LiveTurn]
  BY DEF TablesOK
<1>6. HandlerOK(EndedTurn) /\ ~Working(EndedTurn)
  BY DEF HandlerOK, EndedTurn, Working
<1>7. \A u \in Turns : HandlerOK(ks[u]) /\ Asked(ks[u], ms, ts)
  BY <1>6 DEF TablesOK, Asked
<1>8. \A u, v \in Turns : Working(ks[u]) /\ Working(ks[v]) /\ ks[u].user = ks[v].user => u = v
  BY <1>6 DEF TablesOK
<1> QED
  BY <1>4, <1>5, <1>7, <1>8 DEF TablesOK

\* A handler ends with a trace that names no reply.
LEMMA TablesFail ==
  ASSUME NEW hs, NEW ms, NEW ts, NEW rs, TablesOK(hs, ms, ts, rs),
         NEW t \in Turns, Working(hs[t]),
         NEW ks, ks = [hs EXCEPT ![t] = EndedTurn],
         NEW us, us = ts \cup {[user |-> hs[t].user, assistant |-> 0]}
  PROVE  TablesOK(ks, ms, us, rs)
<1>1. DOMAIN hs = Turns /\ ~Working(EndedTurn) /\ TracesOK(ts, ms)
  BY DEF TablesOK, Working, EndedTurn
<1>2. TablesOK(ks, ms, ts, rs)
  <2>1. \A u \in Turns : ks[u] = hs[u] \/ ks[u] = EndedTurn
    BY <1>1
  <2>2. DOMAIN ks = Turns /\ ks = [u \in Turns |-> ks[u]]
    BY <1>1
  <2> QED
    BY <2>1, <2>2, TablesEnd
<1>3. /\ hs[t].user \in DOMAIN ms
      /\ \A m \in DOMAIN ms : ms[m].to # hs[t].user
      /\ \A trace \in ts : trace.user # hs[t].user
  BY DEF TablesOK, Asked
<1>4. TracesOK(us, ms)
  <2> DEFINE new == [user |-> hs[t].user, assistant |-> 0]
  <2>1. new \in [user : DOMAIN ms, assistant : DOMAIN ms \cup {0}] /\ new.user = hs[t].user /\ new.assistant = 0
    BY <1>3
  <2>2. us = ts \cup {new}
    OBVIOUS
  <2> HIDE DEF new
  <2> QED
    BY <1>1, <1>3, <2>1, <2>2 DEF TracesOK
<1>5. ASSUME NEW u \in Turns PROVE Asked(ks[u], ms, us)
  <2>1. CASE u = t
    BY <1>1, <2>1 DEF Asked
  <2>2. CASE u # t
    <3>1. ks[u] = hs[u] /\ Asked(hs[u], ms, ts)
      BY <1>1, <2>2 DEF TablesOK
    <3>2. Working(hs[u]) => hs[u].user # hs[t].user
      BY <2>2 DEF TablesOK
    <3> QED
      BY <3>1, <3>2 DEF Asked
  <2> QED
    BY <2>1, <2>2
<1> QED
  BY <1>2, <1>4, <1>5 DEF TablesOK

\* What finalizeTrace and captureKnowledgeGapSafely leave of their tables.
Traces(ts, us, user, m) == us = ts \/ us = ts \cup {[user |-> user, assistant |-> m]}
Captures(rs, qs, user) == \/ qs = rs
                          \/ rs[user] = NoReview /\ qs = [rs EXCEPT ![user] = "unrated"]

\* A handler ends with a reply, perhaps a trace that names it, and perhaps a
\* review of its question.
LEMMA TablesReply ==
  ASSUME NEW hs, NEW ms, NEW ts, NEW rs, TablesOK(hs, ms, ts, rs),
         NEW t \in Turns, Working(hs[t]),
         NEW n, NEW row, row.to = hs[t].user, row.role = "assistant", row.rating = "none", row.mode # "result",
         NEW ns, Added(ms, n, row, ns),
         NEW ks, ks = [hs EXCEPT ![t] = EndedTurn],
         NEW us, Traces(ts, us, hs[t].user, n),
         NEW qs, Captures(rs, qs, hs[t].user)
  PROVE  TablesOK(ks, ns, us, qs) /\ n \in Ids
<1>1. /\ MessagesOK(ms) /\ TracesOK(ts, ms) /\ ReviewsOK(rs, ms) /\ DOMAIN hs = Turns
      /\ ~Working(EndedTurn) /\ HandlerOK(EndedTurn)
  BY DEF TablesOK, Working, EndedTurn, HandlerOK
<1>2. /\ ns \in Seq(Message) /\ n \in Nat \ {0} /\ Len(ms) = n - 1 /\ Len(ns) = n
      /\ DOMAIN ms = 1..(n - 1) /\ DOMAIN ns = 1..n
      /\ \A m \in 1..(n - 1) : ns[m] = ms[m]
      /\ ns[n] = row
  BY DEF Added
<1>3. /\ hs[t].user \in 1..(n - 1)
      /\ \A m \in 1..(n - 1) : ms[m].to # hs[t].user
      /\ \A trace \in ts : trace.user # hs[t].user
  BY <1>2 DEF TablesOK, Asked
<1>4. /\ Started(hs) \subseteq Started(ks) /\ Finished(hs) \subseteq Finished(ks)
      /\ Finished(hs) # Finished(ks)
  BY <1>1 DEF Started, Finished, EndedTurn, Working
<1>5. /\ Len(ms) <= Cardinality(Started(hs)) + Cardinality(Finished(hs)) + Cardinality(Results(ms))
      /\ Cardinality(Results(ms)) \in 0..MaxLookups /\ Results(ns) = Results(ms)
  BY ResultsAdded DEF TablesOK
<1>6. /\ n <= Cardinality(Started(ks)) + Cardinality(Finished(ks)) + Cardinality(Results(ns))
      /\ 1..n \subseteq Ids
  <2> DEFINE k == Len(ms)
  <2>1. k \in Nat /\ k + 1 = n
    BY <1>2
  <2>2. /\ k + 1 <= Cardinality(Started(ks)) + Cardinality(Finished(ks)) + Cardinality(Results(ms))
        /\ 1..(k + 1) \subseteq Ids
    BY <1>4, <1>5, <2>1, Room
  <2> QED
    BY <1>2, <1>5, <2>1, <2>2
<1>7. /\ ks \in [Turns -> {NoTurn, EndedTurn} \cup LiveTurn]
      /\ \A u \in Turns : HandlerOK(ks[u])
  BY <1>1 DEF TablesOK
<1>8. MessagesOK(ns)
  <2>1. ASSUME NEW m \in 1..n
        PROVE  /\ ns[m].role = "assistant" => ns[m].to \in 1..n \/ (ns[m].to = 0 /\ ns[m].mode = "result")
               /\ ns[m].role = "user" => ns[m].to = 0 /\ ns[m].rating = "none"
    BY <1>1, <1>2, <1>3 DEF MessagesOK
  <2>2. ASSUME NEW m \in 1..n, NEW l \in 1..n, ns[m].to = ns[l].to, ns[m].to # 0
        PROVE  m = l
    BY <1>1, <1>2, <1>3, <2>2 DEF MessagesOK
  <2> QED
    BY <1>2, <2>1, <2>2 DEF MessagesOK
<1>9. \A trace \in ts : trace.user \in 1..(n - 1) /\ trace.assistant \in 0..(n - 1)
  BY <1>1, <1>2 DEF TracesOK
<1>10. TracesOK(ts, ns)
  <2>1. ASSUME NEW trace \in ts
        PROVE  /\ trace \in [user : 1..n, assistant : 1..n \cup {0}]
               /\ IF trace.assistant # 0 THEN ns[trace.assistant].to = trace.user
                  ELSE \A m \in 1..n : ns[m].to # trace.user
    <3>1. /\ trace \in [user : 1..(n - 1), assistant : 1..(n - 1) \cup {0}]
          /\ IF trace.assistant # 0 THEN ms[trace.assistant].to = trace.user
             ELSE \A m \in 1..(n - 1) : ms[m].to # trace.user
      BY <1>1, <1>2 DEF TracesOK
    <3> QED
      BY <1>2, <1>3, <3>1
  <2> QED
    BY <1>1, <1>2, <2>1 DEF TracesOK
<1>11. TracesOK(us, ns)
  <2> DEFINE new == [user |-> hs[t].user, assistant |-> n]
  <2>1. /\ new \in [user : DOMAIN ns, assistant : DOMAIN ns \cup {0}]
        /\ new.user = hs[t].user /\ new.assistant = n /\ n # 0 /\ ns[n].to = hs[t].user
    BY <1>2, <1>3
  <2>2. us = ts \/ us = ts \cup {new}
    BY DEF Traces
  <2> HIDE DEF new
  <2> QED
    BY <1>3, <1>10, <2>1, <2>2 DEF TracesOK
<1>12. ReviewsOK(qs, ns)
  <2>1. ReviewsOK(qs, ms)
    <3>1. hs[t].user \in DOMAIN ms /\ DOMAIN ms \subseteq Ids
      BY <1>2, <1>3, TableIds
    <3> QED
      BY <1>1, <1>2, <1>3, <3>1, ReviewsCaptured DEF Captures
  <2> QED
    BY <1>1, <2>1, ReviewsAdded
<1>13. ASSUME NEW u \in Turns PROVE Asked(ks[u], ns, us)
  <2>1. CASE u = t
    BY <1>1, <2>1 DEF Asked
  <2>2. CASE u # t
    <3>1. ks[u] = hs[u] /\ Asked(hs[u], ms, ts)
      BY <1>1, <2>2 DEF TablesOK
    <3>2. Working(hs[u]) => hs[u].user # hs[t].user
      BY <2>2 DEF TablesOK
    <3> QED
      BY <1>2, <3>1, <3>2 DEF Asked, Traces
  <2> QED
    BY <2>1, <2>2
<1>14. \A u, v \in Turns : Working(ks[u]) /\ Working(ks[v]) /\ ks[u].user = ks[v].user => u = v
  BY <1>1 DEF TablesOK
<1> QED
  BY <1>2, <1>5, <1>6, <1>7, <1>8, <1>11, <1>12, <1>13, <1>14 DEF TablesOK

\* What recordRating leaves of its tables.
Rescored(ms, ns, m, r) == ns = [ms EXCEPT ![m].rating = r]
Rerated(rs, qs, user, r) ==
    qs = [rs EXCEPT ![user] = IF rs[user] # NoReview \/ r = "low" THEN r ELSE rs[user]]

\* A rating: the reply and the review of its question change together, and no
\* other question's.
LEMMA TablesRate ==
  ASSUME NEW hs, NEW ms, NEW ts, NEW rs, TablesOK(hs, ms, ts, rs),
         NEW m, Stored(ms, m), NEW r \in {"low", "high"},
         NEW ns, Rescored(ms, ns, m, r),
         NEW q \in DOMAIN ms, Answers(ms, m, q),
         NEW qs, Rerated(rs, qs, q, r)
  PROVE  TablesOK(hs, ns, ts, qs) /\ Kept(ms, ns) /\ Len(ns) = Len(ms)
<1>1. /\ MessagesOK(ms) /\ TracesOK(ts, ms) /\ ReviewsOK(rs, ms)
      /\ DOMAIN ms \subseteq Ids /\ DOMAIN ms = 1..Len(ms) /\ Len(ms) \in Nat /\ ms \in Seq(Message)
  BY TableIds DEF TablesOK
<1>2. m \in DOMAIN ms /\ ms[m].role = "assistant" /\ ms[m] \in Message
  BY <1>1, ElementOfSeq DEF Stored
<1>4. /\ ns \in Seq(Message) /\ Len(ns) = Len(ms) /\ DOMAIN ns = DOMAIN ms
      /\ \A i \in DOMAIN ms : /\ ns[i].to = ms[i].to /\ ns[i].role = ms[i].role
                              /\ ns[i].session = ms[i].session /\ ns[i].mode = ms[i].mode
                              /\ i # m => ns[i] = ms[i]
      /\ ns[m].rating = r
  <2> DEFINE e == [ms[m] EXCEPT !.rating = r]
  <2>1. /\ e \in Message /\ e.to = ms[m].to /\ e.role = ms[m].role /\ e.rating = r
        /\ e.session = ms[m].session /\ e.mode = ms[m].mode
    BY <1>2 DEF Message
  <2>2. ns = [ms EXCEPT ![m] = e]
    BY DEF Rescored
  <2> HIDE DEF e
  <2>3. ns \in Seq(Message) /\ Len(ns) = Len(ms)
    BY <1>1, <1>2, <2>1, <2>2, ExceptSeq
  <2> QED
    BY <1>1, <1>2, <2>1, <2>2, <2>3
<1>5. MessagesOK(ns) /\ Results(ns) = Results(ms)
  BY <1>1, <1>2, <1>4 DEF MessagesOK, Results
<1>6. TracesOK(ts, ns)
  BY <1>1, <1>4 DEF TracesOK
<1>7. \A i, p \in DOMAIN ms : Answers(ns, i, p) <=> Answers(ms, i, p)
  BY <1>4, AnswersSame
<1>8. ReviewsOK(qs, ns)
  <2>1. /\ qs \in [Ids -> {NoReview, "unrated", "low", "high"}]
        /\ qs[q] = IF rs[q] # NoReview \/ r = "low" THEN r ELSE rs[q]
        /\ \A i \in Ids : i # q => qs[i] = rs[i]
    <3>1. rs \in [Ids -> {NoReview, "unrated", "low", "high"}] /\ q \in Ids
      BY <1>1 DEF ReviewsOK
    <3> QED
      BY <3>1 DEF Rerated
  <2>2. ASSUME NEW i \in DOMAIN ns, ns[i].rating # "none" PROVE \E p \in DOMAIN ns : Answers(ns, i, p)
    <3>1. CASE i = m
      BY <1>2, <1>4, <1>7, <3>1
    <3>2. CASE i # m
      BY <1>1, <1>4, <1>7, <2>2, <3>2 DEF ReviewsOK
    <3> QED
      BY <3>1, <3>2
  <2>3. Settled(qs, ns, q)
    <3>1. m \in Rated(ns, q)
      BY <1>2, <1>4, <1>7 DEF Rated
    <3>2. CASE rs[q] # NoReview \/ r = "low"
      BY <1>4, <2>1, <3>1, <3>2 DEF Settled
    <3>3. CASE rs[q] = NoReview /\ r = "high"
      <4>1. ASSUME NEW n \in Rated(ns, q), n # m PROVE ns[n].rating = "high"
        <5>1. n \in Rated(ms, q) /\ ns[n] = ms[n]
          BY <1>4, <1>7, <4>1 DEF Rated
        <5>2. Settled(rs, ms, q)
          BY <1>1, <5>1 DEF ReviewsOK
        <5>3. \A i \in Rated(ms, q) : rs[q] # ms[i].rating
          BY <3>3 DEF Rated, NoReview
        <5> QED
          BY <5>1, <5>2, <5>3 DEF Settled
      <4>2. \A n \in Rated(ns, q) : ns[n].rating = "high"
        BY <1>4, <3>3, <4>1
      <4> QED
        BY <2>1, <3>3, <4>2 DEF Settled
    <3> QED
      BY <3>2, <3>3
  <2>4. ASSUME NEW p \in DOMAIN ns, p # q, Rated(ns, p) # {} PROVE Settled(qs, ns, p)
    <3>1. ~Answers(ms, m, p)
      BY <1>1, <1>2, <1>4, <2>4, AnswersOnce
    <3>2. Rated(ns, p) = Rated(ms, p) /\ m \notin Rated(ms, p)
      BY <1>4, <1>7, <2>4, <3>1 DEF Rated
    <3>3. Settled(rs, ms, p) /\ Rated(ms, p) \subseteq DOMAIN ms
      BY <1>1, <1>4, <2>4, <3>2 DEF ReviewsOK, Rated
    <3>4. qs[p] = rs[p]
      BY <1>1, <1>4, <2>1, <2>4
    <3> QED
      BY <1>4, <1>5, <3>2, <3>3, <3>4 DEF Settled
  <2>5. \A p \in DOMAIN ns : Rated(ns, p) # {} => Settled(qs, ns, p)
    BY <2>3, <2>4
  <2> QED
    BY <2>1, <2>2, <2>5 DEF ReviewsOK
<1>9. \A t \in Turns : Asked(hs[t], ns, ts)
  BY <1>4 DEF TablesOK, Asked
<1> QED
  BY <1>4, <1>5, <1>6, <1>8, <1>9 DEF TablesOK, Kept

\* The result of a lookup is stored: it replies to no message.
LEMMA TablesResult ==
  ASSUME NEW hs, NEW ms, NEW ts, NEW rs, TablesOK(hs, ms, ts, rs),
         Cardinality(Results(ms)) < MaxLookups,
         NEW n, NEW row, row.to = 0, row.role = "assistant", row.rating = "none", row.mode = "result",
         NEW ns, Added(ms, n, row, ns)
  PROVE  TablesOK(hs, ns, ts, rs) /\ n \in Ids
<1>1. MessagesOK(ms) /\ TracesOK(ts, ms) /\ ReviewsOK(rs, ms)
  BY DEF TablesOK
<1>2. /\ ns \in Seq(Message) /\ n \in Nat \ {0} /\ Len(ms) = n - 1 /\ Len(ns) = n
      /\ DOMAIN ms = 1..(n - 1) /\ DOMAIN ns = 1..n
      /\ \A m \in 1..(n - 1) : ns[m] = ms[m]
      /\ ns[n] = row
  BY DEF Added
<1>3. /\ Len(ms) <= Cardinality(Started(hs)) + Cardinality(Finished(hs)) + Cardinality(Results(ms))
      /\ Cardinality(Results(ms)) \in 0..MaxLookups
      /\ Cardinality(Results(ns)) = Cardinality(Results(ms)) + 1
  BY ResultsAdded DEF TablesOK
<1>4. /\ n <= Cardinality(Started(hs)) + Cardinality(Finished(hs)) + Cardinality(Results(ns))
      /\ n \in Ids /\ Cardinality(Results(ns)) \in 0..MaxLookups
  <2> DEFINE k == Len(ms)
  <2>1. k \in Nat /\ k + 1 = n
    BY <1>2
  <2>2. /\ k + 1 <= Cardinality(Started(hs)) + Cardinality(Finished(hs)) + (Cardinality(Results(ms)) + 1)
        /\ 1..(k + 1) \subseteq Ids
    BY <1>3, <2>1, Room
  <2>3. Cardinality(Results(ns)) \in 0..MaxLookups
    BY <1>3, ChatAssumption
  <2> QED
    BY <1>2, <1>3, <2>1, <2>2, <2>3
<1>5. MessagesOK(ns)
  <2>1. ASSUME NEW m \in 1..n
        PROVE  /\ ns[m].role = "assistant" => ns[m].to \in 1..n \/ (ns[m].to = 0 /\ ns[m].mode = "result")
               /\ ns[m].role = "user" => ns[m].to = 0 /\ ns[m].rating = "none"
    BY <1>1, <1>2 DEF MessagesOK
  <2>2. ASSUME NEW m \in 1..n, NEW l \in 1..n, ns[m].to = ns[l].to, ns[m].to # 0
        PROVE  m = l
    BY <1>1, <1>2, <2>2 DEF MessagesOK
  <2> QED
    BY <1>2, <2>1, <2>2 DEF MessagesOK
<1>6. \A trace \in ts : /\ trace \in [user : 1..(n - 1), assistant : 1..(n - 1) \cup {0}]
                        /\ IF trace.assistant # 0 THEN ms[trace.assistant].to = trace.user
                           ELSE \A m \in 1..(n - 1) : ms[m].to # trace.user
  BY <1>1, <1>2 DEF TracesOK
<1>7. TracesOK(ts, ns)
  <2>1. ASSUME NEW trace \in ts
        PROVE  /\ trace \in [user : 1..n, assistant : 1..n \cup {0}]
               /\ IF trace.assistant # 0 THEN ns[trace.assistant].to = trace.user
                  ELSE \A m \in 1..n : ns[m].to # trace.user
    BY <1>2, <1>6
  <2> QED
    BY <1>1, <1>2, <2>1 DEF TracesOK
<1>8. ReviewsOK(rs, ns)
  BY <1>1, ReviewsAdded
<1>9. ASSUME NEW u \in Turns PROVE Asked(hs[u], ns, ts)
  <2>1. Asked(hs[u], ms, ts)
    BY DEF TablesOK
  <2> QED
    BY <1>2, <2>1 DEF Asked
<1> QED
  BY <1>2, <1>4, <1>5, <1>7, <1>8, <1>9 DEF TablesOK

-----------------------------------------------------------------------------
(* What a step does to a stream.                                           *)

\* Other rows, and bubbles that do not wait for it, are nothing to a stream.
LEMMA StreamKept ==
  ASSUME NEW t, NEW turn, NEW w, NEW bs, NEW ms, StreamOK(t, turn, w, bs, ms),
         NEW cs, \A b \in cs : Waiting(b, t) => b \in bs,
         NEW ns, Kept(ms, ns)
  PROVE  StreamOK(t, turn, w, cs, ns)
<1>1. (Blank(t, bs) => Blank(t, cs)) /\ (Whole(t, bs) => Whole(t, cs))
  BY DEF Blank, Whole
<1>2. \A m : Stored(ms, m) => Stored(ns, m)
  BY DEF Kept, Stored
<1>3. Flows(t, turn, w, bs, ms) => Flows(t, turn, w, cs, ns)
  <2> SUFFICES ASSUME Flows(t, turn, w, bs, ms) PROVE Flows(t, turn, w, cs, ns)
    OBVIOUS
  <2> QED
    BY <1>1, <1>2 DEF Flows
<1> QED
  BY <1>1, <1>3 DEF StreamOK

\* What Write leaves of a connection.
Written(w, new) == IF w.state = "open" THEN [w EXCEPT !.events = @ \o new] ELSE w

\* What a handler may write in a step: parts before the whole text, the whole
\* text once, and a done event for a stored reply after it.
Says(turn, next, new, ms) ==
    /\ new \in Seq(Item)
    /\ \A k \in 1..Len(new) : new[k].type = "part" =>
          Early(turn) /\ \A j \in 1..Len(new) : new[j].type \notin Full
    /\ \A k \in 1..Len(new) : new[k].type = "done" =>
          /\ Stored(ms, new[k].message)
          /\ Late(turn) \/ \E j \in 1..Len(new) : j < k /\ new[j].type \in Full
    /\ Early(next) => Early(turn) /\ \A k \in 1..Len(new) : new[k].type \notin Full
    /\ Late(next) => Late(turn) \/ \E k \in 1..Len(new) : new[k].type \in Full

LEMMA StreamWrite ==
  ASSUME NEW t, NEW turn, NEW w, NEW bs, NEW ms, StreamOK(t, turn, w, bs, ms),
         turn # NoTurn, NEW new, NEW next, Says(turn, next, new, ms)
  PROVE  StreamOK(t, next, Written(w, new), bs, ms)
<1>1. CASE w.state # "open"
  BY <1>1 DEF StreamOK, Written
<1>2. CASE w.state = "open"
  <2> DEFINE es == w.events
             fs == w.events \o new
  <2>0. new \in Seq(Item)
    BY DEF Says
  <2>1. Written(w, new) = [w EXCEPT !.events = fs]
    BY <1>2 DEF Written
  <2>2. w \in Wire /\ es \in Seq(Item) /\ Flows(t, turn, w, bs, ms)
    BY <1>2 DEF StreamOK, Wire
  <2>3. /\ fs \in Seq(Item) /\ Len(fs) = Len(es) + Len(new)
        /\ \A i \in 1..(Len(es) + Len(new)) : fs[i] = IF i <= Len(es) THEN es[i] ELSE new[i - Len(es)]
    BY <2>2, <2>0, ConcatProperties
  <2>4. /\ Len(es) \in Nat /\ Len(new) \in Nat
        /\ DOMAIN es = 1..Len(es) /\ DOMAIN fs = 1..(Len(es) + Len(new))
    BY <2>0, <2>2, <2>3, LenProperties
  <2> DEFINE a == Len(es)
             c == Len(new)
  <2>5. /\ \A i \in 1..a : fs[i] = es[i]
        /\ \A i \in 1..c : fs[a + i] = new[i]
        /\ \A i \in 1..(a + c) : i \in 1..a \/ \E j \in 1..c : i = a + j
    <3>1. ASSUME NEW i \in 1..(a + c), i \notin 1..a PROVE \E j \in 1..c : i = a + j
      <4>1. i - a \in 1..c /\ i = a + (i - a)
        BY <2>4, <3>1
      <4> QED
        BY <4>1
    <3> QED
      BY <2>3, <2>4, <3>1
  <2>6. /\ \A j, k \in 1..a : j < k /\ es[j].type \in Full => es[k].type # "part"
        /\ \A k \in 1..a : es[k].type = "done" =>
             /\ Stored(ms, es[k].message)
             /\ Whole(t, bs) \/ \E j \in 1..a : j < k /\ es[j].type \in Full
        /\ ~Blank(t, bs) => \A k \in 1..a : es[k].type # "part"
        /\ w.got # 0 => Stored(ms, w.got) /\ Whole(t, bs)
        /\ Early(turn) => Blank(t, bs) /\ \A k \in 1..a : es[k].type \notin Full
        /\ Late(turn) => Whole(t, bs) \/ \E k \in 1..a : es[k].type \in Full
    BY <2>2, <2>4 DEF Flows
  <2>a. a \in Nat /\ c \in Nat /\ DOMAIN fs = 1..(a + c)
    BY <2>4
  <2>b. /\ \A k \in 1..c : new[k].type = "part" =>
             Early(turn) /\ \A j \in 1..c : new[j].type \notin Full
        /\ \A k \in 1..c : new[k].type = "done" =>
             /\ Stored(ms, new[k].message)
             /\ Late(turn) \/ \E j \in 1..c : j < k /\ new[j].type \in Full
        /\ Early(next) => Early(turn) /\ \A k \in 1..c : new[k].type \notin Full
        /\ Late(next) => Late(turn) \/ \E k \in 1..c : new[k].type \in Full
    BY DEF Says
  <2> HIDE DEF es, fs, a, c
  <2>7. ASSUME NEW j \in 1..(a + c), NEW k \in 1..(a + c), j < k, fs[j].type \in Full
        PROVE  fs[k].type # "part"
    <3>1. CASE k \in 1..a
      BY <2>5, <2>6, <2>7, <2>a, <3>1
    <3>2. CASE k \notin 1..a
      <4>1. PICK l \in 1..c : k = a + l
        BY <2>5, <3>2
      <4>2. CASE j \in 1..a
        BY <2>5, <2>6, <2>7, <2>b, <4>1, <4>2
      <4>3. CASE j \notin 1..a
        <5>1. PICK i \in 1..c : j = a + i
          BY <2>5, <4>3
        <5> QED
          BY <2>5, <2>7, <2>b, <4>1, <5>1
      <4> QED
        BY <4>2, <4>3
    <3> QED
      BY <3>1, <3>2
  <2>8. ASSUME NEW k \in 1..(a + c), fs[k].type = "done"
        PROVE  /\ Stored(ms, fs[k].message)
               /\ Whole(t, bs) \/ \E j \in 1..(a + c) : j < k /\ fs[j].type \in Full
    <3>1. CASE k \in 1..a
      <4>1. \A j \in 1..a : j \in 1..(a + c)
        BY <2>a
      <4> QED
        BY <2>5, <2>6, <2>8, <3>1, <4>1
    <3>2. CASE k \notin 1..a
      <4>1. PICK l \in 1..c : k = a + l
        BY <2>5, <3>2
      <4>2. fs[k] = new[l] /\ new[l].type = "done"
        BY <2>5, <2>8, <4>1
      <4>3. CASE Late(turn)
        <5>1. \A j \in 1..a : j \in 1..(a + c) /\ j < k
          BY <2>a, <4>1
        <5> QED
          BY <2>5, <2>6, <2>b, <4>2, <4>3, <5>1
      <4>4. CASE \E j \in 1..c : j < l /\ new[j].type \in Full
        <5>1. PICK j \in 1..c : j < l /\ new[j].type \in Full
          BY <4>4
        <5>2. a + j \in 1..(a + c) /\ a + j < k
          BY <2>a, <4>1, <5>1
        <5> QED
          BY <2>5, <2>b, <4>2, <5>1, <5>2
      <4> QED
        BY <2>b, <4>2, <4>3, <4>4
    <3> QED
      BY <3>1, <3>2
  <2>9. ~Blank(t, bs) => \A k \in 1..(a + c) : fs[k].type # "part"
    BY <2>5, <2>6, <2>b
  <2>10. Early(next) => Blank(t, bs) /\ \A k \in 1..(a + c) : fs[k].type \notin Full
    BY <2>5, <2>6, <2>b
  <2>11. Late(next) => Whole(t, bs) \/ \E k \in 1..(a + c) : fs[k].type \in Full
    <3>1. \A k \in 1..a : k \in 1..(a + c)
      BY <2>a
    <3>2. \A k \in 1..c : a + k \in 1..(a + c)
      BY <2>a
    <3> QED
      BY <2>5, <2>6, <2>b, <3>1, <3>2
  <2> DEFINE v == [w EXCEPT !.events = fs]
  <2>12. v \in Wire /\ v.events = fs /\ v.got = w.got /\ v.state = "open"
    BY <1>2, <2>2, <2>3 DEF Wire, es, fs
  <2> HIDE DEF v
  <2>13. Flows(t, next, v, bs, ms)
    BY <2>6, <2>7, <2>8, <2>9, <2>10, <2>11, <2>12, <2>a DEF Flows
  <2> QED
    BY <2>1, <2>12, <2>13 DEF StreamOK, v
<1> QED
  BY <1>1, <1>2

\* Only an open connection has an event other than the end.
LEMMA StreamHead ==
  ASSUME NEW t, NEW turn, NEW w, NEW bs, NEW ms, StreamOK(t, turn, w, bs, ms), w.events # <<>>
  PROVE  /\ w \in Wire /\ w.events \in Seq(Item) /\ Len(w.events) \in Nat /\ Len(w.events) >= 1
         /\ DOMAIN w.events = 1..Len(w.events)
         /\ Head(w.events) = w.events[1] /\ Head(w.events) \in Item
         /\ Tail(w.events) \in Seq(Item) /\ DOMAIN Tail(w.events) = 1..(Len(w.events) - 1)
         /\ \A k \in 1..(Len(w.events) - 1) : Tail(w.events)[k] = w.events[k + 1]
         /\ Head(w.events).type # "end" => w.state = "open"
<1>1. w \in Wire /\ w.events \in Seq(Item)
  BY DEF StreamOK, Wire
<1> DEFINE es == w.events
<1>2. es \in Seq(Item) /\ es # <<>>
  BY <1>1
<1>3. w.state \in {"open", "cut"} /\ (w.state = "cut" => es = <<Event("end", 0)>>)
  BY <1>1 DEF StreamOK, Wire
<1> HIDE DEF es
<1>4. /\ Head(es) \in Item /\ Tail(es) \in Seq(Item) /\ Len(Tail(es)) = Len(es) - 1
      /\ \A k \in 1..Len(Tail(es)) : Tail(es)[k] = es[k + 1]
  BY <1>2, HeadTailProperties
<1>5. Len(es) \in Nat /\ Len(es) >= 1 /\ DOMAIN es = 1..Len(es) /\ DOMAIN Tail(es) = 1..Len(Tail(es))
  BY <1>2, <1>4, LenProperties, EmptySeq
<1>6. Head(es) = es[1]
  BY <1>2
<1>7. es = <<Event("end", 0)>> => Head(es).type = "end"
  BY DEF Event
<1> QED
  BY <1>1, <1>3, <1>4, <1>5, <1>6, <1>7 DEF es

\* A piece of text is read into the bubble that waits.
LEMMA StreamShow ==
  ASSUME NEW t, NEW turn, NEW w, NEW bs, NEW ms, StreamOK(t, turn, w, bs, ms), w.events # <<>>,
         NEW type, type = Head(w.events).type, type \in {"part", "whole", "marked"},
         NEW cs, \A b \in cs : Waiting(b, t) => b.text = type /\ \E old \in bs : Waiting(old, t),
         NEW v, v = [w EXCEPT !.events = Tail(@)]
  PROVE  StreamOK(t, turn, v, cs, ms)
<1> DEFINE es == w.events
           n == Len(es)
           fs == Tail(es)
<1>1. /\ w \in Wire /\ n \in Nat /\ n >= 1 /\ DOMAIN es = 1..n
      /\ type = es[1].type /\ fs \in Seq(Item) /\ DOMAIN fs = 1..(n - 1)
      /\ \A k \in 1..(n - 1) : fs[k] = es[k + 1]
      /\ w.state = "open"
  BY StreamHead
<1>2. Flows(t, turn, w, bs, ms)
  BY <1>1 DEF StreamOK
<1>3. /\ \A j, k \in 1..n : j < k /\ es[j].type \in Full => es[k].type # "part"
      /\ \A k \in 1..n : es[k].type = "done" =>
           /\ Stored(ms, es[k].message)
           /\ Whole(t, bs) \/ \E j \in 1..n : j < k /\ es[j].type \in Full
      /\ ~Blank(t, bs) => \A k \in 1..n : es[k].type # "part"
      /\ w.got # 0 => Stored(ms, w.got) /\ Whole(t, bs)
      /\ Early(turn) => Blank(t, bs) /\ \A k \in 1..n : es[k].type \notin Full
      /\ Late(turn) => Whole(t, bs) \/ \E k \in 1..n : es[k].type \in Full
  BY <1>1, <1>2 DEF Flows
<1>4. v \in Wire /\ v.events = fs /\ v.got = w.got /\ v.state = "open"
  BY <1>1 DEF Wire
<1> HIDE DEF es, n, fs
<1>5. type \in Full => Whole(t, cs) /\ ~Early(turn) /\ \A k \in 1..(n - 1) : fs[k].type # "part"
  <2> SUFFICES ASSUME type \in Full
               PROVE  Whole(t, cs) /\ ~Early(turn) /\ \A k \in 1..(n - 1) : fs[k].type # "part"
    OBVIOUS
  <2>1. Whole(t, cs)
    BY DEF Whole
  <2>2. ~Early(turn)
    BY <1>1, <1>3
  <2>3. ASSUME NEW k \in 1..(n - 1) PROVE fs[k].type # "part"
    <3>1. k + 1 \in 1..n /\ 1 \in 1..n /\ 1 < k + 1
      BY <1>1
    <3> QED
      BY <1>1, <1>3, <3>1
  <2> QED
    BY <2>1, <2>2, <2>3
<1>6. type = "part" => Blank(t, bs) /\ Blank(t, cs) /\ (Whole(t, bs) => Whole(t, cs))
  <2> SUFFICES ASSUME type = "part" PROVE Blank(t, bs) /\ Blank(t, cs) /\ (Whole(t, bs) => Whole(t, cs))
    OBVIOUS
  <2>1. Blank(t, bs)
    BY <1>1, <1>3
  <2> QED
    BY <2>1 DEF Blank, Whole, Full
<1>7. type \in Full \/ type = "part"
  BY DEF Full
<1>8. ASSUME NEW j \in 1..(n - 1), NEW k \in 1..(n - 1), j < k, fs[j].type \in Full
      PROVE  fs[k].type # "part"
  <2>1. j + 1 \in 1..n /\ k + 1 \in 1..n /\ j + 1 < k + 1
    BY <1>1, <1>8
  <2> QED
    BY <1>1, <1>3, <1>8, <2>1
<1>9. ASSUME NEW k \in 1..(n - 1), fs[k].type = "done"
      PROVE  /\ Stored(ms, fs[k].message)
             /\ Whole(t, cs) \/ \E j \in 1..(n - 1) : j < k /\ fs[j].type \in Full
  <2>1. k + 1 \in 1..n /\ fs[k] = es[k + 1]
    BY <1>1
  <2>2. Stored(ms, fs[k].message)
    BY <1>3, <1>9, <2>1
  <2>3. ASSUME type = "part", NEW j \in 1..n, j < k + 1, es[j].type \in Full
        PROVE  \E i \in 1..(n - 1) : i < k /\ fs[i].type \in Full
    <3>1. j # 1
      BY <1>1, <2>3 DEF Full
    <3>2. j - 1 \in 1..(n - 1) /\ j - 1 < k /\ (j - 1) + 1 = j
      BY <1>1, <2>3, <3>1
    <3>3. fs[j - 1] = es[j]
      BY <1>1, <3>2
    <3> QED
      BY <2>3, <3>2, <3>3
  <2> QED
    BY <1>3, <1>5, <1>6, <1>7, <1>9, <2>1, <2>2, <2>3
<1>10. ~Blank(t, cs) => \A k \in 1..(n - 1) : fs[k].type # "part"
  BY <1>5, <1>6, <1>7
<1>11. v.got # 0 => Stored(ms, v.got) /\ Whole(t, cs)
  BY <1>3, <1>4, <1>5, <1>6, <1>7
<1>12. Early(turn) => Blank(t, cs) /\ \A k \in 1..(n - 1) : fs[k].type \notin Full
  <2>1. \A k \in 1..(n - 1) : k + 1 \in 1..n
    BY <1>1
  <2> QED
    BY <1>1, <1>3, <1>5, <1>6, <1>7, <2>1
<1>13. Late(turn) => Whole(t, cs) \/ \E k \in 1..(n - 1) : fs[k].type \in Full
  <2>1. ASSUME type = "part", NEW j \in 1..n, es[j].type \in Full
        PROVE  \E i \in 1..(n - 1) : fs[i].type \in Full
    <3>1. j # 1
      BY <1>1, <2>1 DEF Full
    <3>2. j - 1 \in 1..(n - 1) /\ (j - 1) + 1 = j
      BY <1>1, <2>1, <3>1
    <3>3. fs[j - 1] = es[j]
      BY <1>1, <3>2
    <3> QED
      BY <2>1, <3>2, <3>3
  <2> QED
    BY <1>3, <1>5, <1>6, <1>7, <2>1
<1>14. Flows(t, turn, v, cs, ms)
  BY <1>1, <1>4, <1>8, <1>9, <1>10, <1>11, <1>12, <1>13 DEF Flows
<1> HIDE DEF Flows
<1> QED
  BY <1>4, <1>14 DEF StreamOK

\* The done event is read: its reply is stored, and the bubble has its text.
LEMMA StreamDone ==
  ASSUME NEW t, NEW turn, NEW w, NEW bs, NEW ms, StreamOK(t, turn, w, bs, ms), w.events # <<>>,
         Head(w.events).type = "done",
         NEW v, v = [w EXCEPT !.events = Tail(@), !.got = Head(w.events).message]
  PROVE  StreamOK(t, turn, v, bs, ms) /\ Stored(ms, Head(w.events).message)
<1> DEFINE es == w.events
           n == Len(es)
           fs == Tail(es)
           m == Head(es).message
<1>1. /\ w \in Wire /\ n \in Nat /\ n >= 1 /\ DOMAIN es = 1..n
      /\ m = es[1].message /\ es[1].type = "done" /\ Head(es) \in Item
      /\ fs \in Seq(Item) /\ DOMAIN fs = 1..(n - 1)
      /\ \A k \in 1..(n - 1) : fs[k] = es[k + 1]
      /\ w.state = "open"
  BY StreamHead
<1>2. Flows(t, turn, w, bs, ms)
  BY <1>1 DEF StreamOK
<1>3. /\ \A j, k \in 1..n : j < k /\ es[j].type \in Full => es[k].type # "part"
      /\ \A k \in 1..n : es[k].type = "done" =>
           /\ Stored(ms, es[k].message)
           /\ Whole(t, bs) \/ \E j \in 1..n : j < k /\ es[j].type \in Full
      /\ ~Blank(t, bs) => \A k \in 1..n : es[k].type # "part"
      /\ Early(turn) => Blank(t, bs) /\ \A k \in 1..n : es[k].type \notin Full
  BY <1>1, <1>2 DEF Flows
<1>4. v \in Wire /\ v.events = fs /\ v.got = m /\ v.state = "open"
  BY <1>1 DEF Wire, Item
<1> HIDE DEF es, n, fs, m
<1>5. Stored(ms, m) /\ Whole(t, bs)
  <2>1. 1 \in 1..n /\ \A j \in 1..n : ~(j < 1)
    BY <1>1
  <2> QED
    BY <1>1, <1>3, <2>1
<1>6. \A k \in 1..(n - 1) : k + 1 \in 1..n /\ fs[k] = es[k + 1]
  BY <1>1
<1>7. ASSUME NEW j \in 1..(n - 1), NEW k \in 1..(n - 1), j < k, fs[j].type \in Full
      PROVE  fs[k].type # "part"
  <2>1. j + 1 < k + 1
    BY <1>1, <1>7
  <2> QED
    BY <1>3, <1>6, <1>7, <2>1
<1>8. Flows(t, turn, v, bs, ms)
  BY <1>1, <1>3, <1>4, <1>5, <1>6, <1>7 DEF Flows
<1> HIDE DEF Flows
<1>9. StreamOK(t, turn, v, bs, ms)
  BY <1>4, <1>8 DEF StreamOK
<1> QED
  BY <1>5, <1>9 DEF m, es

\* What the handlers write.
LEMMA Lines ==
  ASSUME NEW turn, NEW next, NEW ms
  PROVE  /\ (Early(next) => Early(turn)) /\ (Late(next) => Late(turn)) => Says(turn, next, <<>>, ms)
         /\ ~Early(next) /\ ~Late(next) =>
              Says(turn, next, Failing, ms) /\ Says(turn, next, <<Event("end", 0)>>, ms)
         /\ Early(turn) /\ ~Early(next) => \A text \in Full : Says(turn, next, <<Token(text)>>, ms)
         /\ Early(turn) /\ ~Late(next) => Says(turn, next, <<Token("part")>>, ms)
         /\ \A n \in Ids : Stored(ms, n) /\ ~Early(next) /\ ~Late(next) =>
              /\ Late(turn) => Says(turn, next, Answered(n), ms)
              /\ Early(turn) => Says(turn, next, <<Token("whole")>> \o Answered(n), ms)
<1>1. \A type \in {"part", "whole", "marked", "done", "error", "end"}, m \in Ids \cup {0} :
         Event(type, m) \in Item /\ Event(type, m).type = type /\ Event(type, m).message = m
  BY DEF Event, Item
<1>2. \A text : Token(text) = Event(text, 0)
  BY DEF Token
<1>3. (Early(next) => Early(turn)) /\ (Late(next) => Late(turn)) => Says(turn, next, <<>>, ms)
  BY DEF Says
<1>4. ~Early(next) /\ ~Late(next) =>
        Says(turn, next, Failing, ms) /\ Says(turn, next, <<Event("end", 0)>>, ms)
  <2>1. Failing \in Seq(Item) /\ <<Event("end", 0)>> \in Seq(Item)
    BY <1>1 DEF Failing
  <2> QED
    BY <1>1, <2>1 DEF Says, Failing
<1>5. Early(turn) /\ ~Early(next) => \A text \in Full : Says(turn, next, <<Token(text)>>, ms)
  BY <1>1, <1>2 DEF Says, Full
<1>6. Early(turn) /\ ~Late(next) => Says(turn, next, <<Token("part")>>, ms)
  BY <1>1, <1>2 DEF Says, Full
<1>7. ASSUME NEW n \in Ids, Stored(ms, n), ~Early(next), ~Late(next)
      PROVE  /\ Late(turn) => Says(turn, next, Answered(n), ms)
             /\ Early(turn) => Says(turn, next, <<Token("whole")>> \o Answered(n), ms)
  <2> DEFINE a == Event("whole", 0)
             b == Event("done", n)
             c == Event("end", 0)
  <2>1. /\ a \in Item /\ b \in Item /\ c \in Item
        /\ a.type = "whole" /\ b.type = "done" /\ b.message = n /\ c.type = "end"
    BY <1>1
  <2>2. Token("whole") = a /\ Answered(n) = <<b, c>>
    BY <1>2 DEF Answered
  <2> HIDE DEF a, b, c
  <2> DEFINE abc == <<a>> \o <<b, c>>
  <2>3. abc \in Seq(Item) /\ Len(abc) = 3 /\ abc[1] = a /\ abc[2] = b /\ abc[3] = c
    <3>1. <<a>> \in Seq(Item) /\ <<b, c>> \in Seq(Item) /\ Len(<<a>>) = 1 /\ Len(<<b, c>>) = 2
      BY <2>1
    <3>2. /\ abc \in Seq(Item) /\ Len(abc) = 1 + 2
          /\ \A i \in 1..(1 + 2) : abc[i] = IF i <= 1 THEN <<a>>[i] ELSE <<b, c>>[i - 1]
      BY <3>1, ConcatProperties
    <3> QED
      BY <3>2
  <2> HIDE DEF abc
  <2>4. Late(turn) => Says(turn, next, <<b, c>>, ms)
    BY <1>7, <2>1 DEF Says
  <2>5. Early(turn) => Says(turn, next, abc, ms)
    BY <1>7, <2>1, <2>3 DEF Says, Full
  <2> QED
    BY <2>2, <2>4, <2>5 DEF abc
<1> QED
  BY <1>3, <1>4, <1>5, <1>6, <1>7

-----------------------------------------------------------------------------
(* What a step of a handler does to everything.                            *)

\* Other rows are nothing to a lookup.
LEMMA LookupsKept ==
  ASSUME NEW ls, NEW ms, LookupsOK(ls, ms), NEW ns, Kept(ms, ns)
  PROVE  LookupsOK(ls, ns)
  BY DEF LookupsOK, Stored, Kept

\* One handler and its connection change; the rows grow.
LEMMA TurnStep ==
  ASSUME IInv, NEW t \in Turns, NEW next, turns' = [turns EXCEPT ![t] = next],
         NEW w, wire' = [wire EXCEPT ![t] = w], StreamOK(t, next, w, bubbles, messages'),
         TablesOK(turns', messages', traces', reviews'),
         Kept(messages, messages'), Len(messages') >= Len(messages),
         SessionsOK', UNCHANGED clientVars
  PROVE  IInv'
<1>0. /\ TablesOK(turns, messages, traces, reviews) /\ StreamsOK
      /\ BubblesOK(bubbles, messages) /\ ViewOK /\ LookupsOK(lookups, messages)
  BY DEF IInv
<1>1. /\ Len(messages) \in Nat /\ DOMAIN turns = Turns /\ Len(messages') \in Nat
  BY <1>0, TableIds
<1>2. /\ UNCHANGED <<view, bubbles, closing, opening, lookups>>
  BY DEF clientVars
<1>3. ASSUME NEW u \in Turns PROVE StreamOK(u, turns[u], wire[u], bubbles, messages')
  BY <1>0, StreamKept DEF StreamsOK
<1>4. DOMAIN wire = Turns
  BY <1>0 DEF StreamsOK
<1>6. ASSUME NEW u \in Turns PROVE StreamOK(u, turns'[u], wire'[u], bubbles', messages')
  <2>1. CASE u = t
    BY <1>1, <1>2, <1>4, <2>1
  <2>2. CASE u # t
    BY <1>1, <1>2, <1>3, <1>4, <2>2
  <2> QED
    BY <2>1, <2>2
<1>7. wire' \in [Turns -> Wire]
  <2>1. \A u \in Turns : wire'[u] \in Wire
    BY <1>6 DEF StreamOK
  <2>2. wire' = [u \in Turns |-> wire'[u]]
    BY <1>4
  <2> QED
    BY <2>1, <2>2
<1>8. StreamsOK'
  BY <1>6, <1>7 DEF StreamsOK
<1>9. BubblesOK(bubbles', messages')
  BY <1>0, <1>2 DEF BubblesOK, Stored, Kept
<1>10. ViewOK'
  BY <1>0, <1>1, <1>2 DEF ViewOK
<1>11. LookupsOK(lookups', messages')
  BY <1>0, <1>2, LookupsKept
<1> QED
  BY <1>8, <1>9, <1>10, <1>11 DEF IInv

\* A handler at work writes.
LEMMA ServerStep ==
  ASSUME IInv, NEW t \in Turns, turns[t] # NoTurn,
         NEW next, turns' = [turns EXCEPT ![t] = next],
         NEW new, Says(turns[t], next, new, messages'),
         wire' = [wire EXCEPT ![t] = Written(wire[t], new)],
         TablesOK(turns', messages', traces', reviews'),
         Kept(messages, messages'), Len(messages') >= Len(messages),
         SessionsOK', UNCHANGED clientVars
  PROVE  IInv'
<1>1. StreamOK(t, turns[t], wire[t], bubbles, messages')
  BY StreamKept DEF IInv, StreamsOK
<1>2. StreamOK(t, next, Written(wire[t], new), bubbles, messages')
  BY <1>1, StreamWrite
<1> QED
  BY <1>2, TurnStep

\* A request is received: nothing of its answer is on the screen.
LEMMA OpenStep ==
  ASSUME IInv, NEW t \in Turns, wire[t].state = "sent",
         NEW next, turns' = [turns EXCEPT ![t] = next], ~Late(next),
         NEW events \in {<<>>, <<Event("end", 0)>>},
         wire' = [wire EXCEPT ![t] = [wire[t] EXCEPT !.state = "open", !.events = events]],
         TablesOK(turns', messages', traces', reviews'),
         Kept(messages, messages'), Len(messages') >= Len(messages),
         SessionsOK', UNCHANGED clientVars
  PROVE  IInv'
<1> DEFINE w == [wire[t] EXCEPT !.state = "open", !.events = events]
<1>1. /\ wire[t] \in Wire /\ wire[t].got = 0 /\ Blank(t, bubbles)
  BY DEF IInv, StreamsOK, StreamOK
<1>2. events \in Seq(Item) /\ \A k \in DOMAIN events : events[k].type = "end"
  <2>1. Event("end", 0) \in Item /\ Event("end", 0).type = "end"
    BY DEF Event, Item
  <2>2. CASE events = <<>>
    BY <2>2, EmptySeq
  <2>3. CASE events = <<Event("end", 0)>>
    BY <2>1, <2>3
  <2> QED
    BY <2>2, <2>3
<1>3. w \in Wire /\ w.state = "open" /\ w.events = events /\ w.got = 0
  BY <1>1, <1>2 DEF Wire
<1> HIDE DEF w
<1>4. Flows(t, next, w, bubbles, messages')
  BY <1>1, <1>2, <1>3 DEF Flows, Full
<1>5. StreamOK(t, next, w, bubbles, messages')
  BY <1>3, <1>4 DEF StreamOK
<1>6. wire' = [wire EXCEPT ![t] = w]
  BY DEF w
<1> QED
  BY <1>5, <1>6, TurnStep

-----------------------------------------------------------------------------
(* The steps of a handler.                                                 *)

LEMMA SessionOps ==
  ASSUME NEW ss \in [Sessions -> Life!Session], NEW s \in Sessions
  PROVE  /\ Life!ExpireInactive(ss) \in [Sessions -> Life!Session]
         /\ Life!Touch(ss, s) \in [Sessions -> Life!Session]
         /\ Life!Resumed(ss, s) \in [Sessions -> Life!Session]
         /\ Life!CloseUserSession(ss, s) \in [Sessions -> Life!Session]
         /\ \A status \in {"active", "closed", "escalated"} :
              Life!UpdateStatus(ss, s, status, "none") \in [Sessions -> Life!Session]
  BY DEF Life!Session, Life!ExpireInactive, Life!Touch, Life!Resumed, Life!CloseUserSession,
         Life!UpdateStatus

\* A handler at work, and what it becomes.
LEMMA WorkingTurn ==
  ASSUME IInv, NEW t \in Turns, Working(turns[t])
  PROVE  /\ turns[t] \in LiveTurn /\ turns[t] # NoTurn /\ HandlerOK(turns[t])
         /\ turns[t].session \in Sessions /\ turns[t].user \in Ids /\ turns[t].traced \in BOOLEAN
         /\ DOMAIN turns = Turns
<1>1. HandlerOK(turns[t]) /\ DOMAIN turns = Turns
  BY DEF IInv, TablesOK
<1>2. turns[t] \in LiveTurn
  BY <1>1 DEF HandlerOK, Working, NoTurn, EndedTurn
<1> QED
  BY <1>1, <1>2 DEF LiveTurn, Working, NoTurn

LEMMA BecomeNext ==
  ASSUME IInv, NEW t \in Turns, Working(turns[t]),
         NEW pc \in {"generating", "preparing"},
         NEW mode \in {"none", "shown", "canned", "generated", "empty"},
         pc = "preparing" => mode \in {"canned", "generated", "empty"},
         pc = "generating" => turns[t].traced,
         Become(t, pc, mode)
  PROVE  \E next \in LiveTurn :
           /\ turns' = [turns EXCEPT ![t] = next]
           /\ Working(next) /\ HandlerOK(next)
           /\ next.user = turns[t].user /\ next.session = turns[t].session
           /\ next.traced = turns[t].traced /\ next.pc = pc /\ next.mode = mode
<1>1. turns[t] \in LiveTurn /\ DOMAIN turns = Turns
  BY WorkingTurn
<1> DEFINE next == [turns[t] EXCEPT !.pc = pc, !.mode = mode]
<1>2. /\ next \in LiveTurn /\ next.pc = pc /\ next.mode = mode
      /\ next.user = turns[t].user /\ next.session = turns[t].session /\ next.traced = turns[t].traced
  BY <1>1 DEF LiveTurn, Awaiting
<1>3. turns' = [turns EXCEPT ![t] = next]
  BY <1>1 DEF Become
<1> HIDE DEF next
<1>4. Working(next) /\ HandlerOK(next)
  BY <1>2 DEF Working, HandlerOK
<1> QED
  BY <1>2, <1>3, <1>4

LEMMA TraceStep ==
  ASSUME IInv, NEW t, NEW m, FinalizeTrace(t, m)
  PROVE  /\ traces' = traces \/ traces' = traces \cup {[user |-> turns[t].user, assistant |-> m]}
         /\ rare' \in 0..MaxRare
<1>1. rare \in 0..MaxRare
  BY DEF IInv, SessionsOK
<1> QED
  BY <1>1, ChatAssumption DEF FinalizeTrace, Rarely

LEMMA ReplyStep ==
  ASSUME IInv, NEW t \in Turns, Working(turns[t]),
         NEW mode \in {"order", "canned", "generated"}, NEW escalated \in BOOLEAN,
         SaveReply(t, mode, escalated), End(t),
         traces' = traces \/ traces' = traces \cup {[user |-> turns[t].user, assistant |-> NextId]},
         \/ reviews' = reviews
         \/ reviews[turns[t].user] = NoReview /\ reviews' = [reviews EXCEPT ![turns[t].user] = "unrated"]
  PROVE  /\ TablesOK(turns', messages', traces', reviews')
         /\ Kept(messages, messages') /\ Len(messages') >= Len(messages)
         /\ NextId \in Ids /\ Stored(messages', NextId)
<1> DEFINE row == Row(turns[t].session, "assistant", turns[t].user, mode, escalated)
           n == NextId
<1>1. TablesOK(turns, messages, traces, reviews)
  BY DEF IInv
<1>2. turns[t].session \in Sessions /\ turns[t].user \in Ids
  BY WorkingTurn
<1>3. /\ row \in Message /\ row.to = turns[t].user /\ row.role = "assistant" /\ row.rating = "none"
      /\ row.mode # "result"
  BY <1>2 DEF Row, Message
<1>4. messages \in Seq(Message) /\ Len(messages) \in Nat
  BY <1>1, TableIds
<1>5. messages' = Append(messages, row)
  BY DEF SaveReply
<1>6. Added(messages, n, row, messages') /\ Kept(messages, messages')
  BY <1>3, <1>4, <1>5, NewRow DEF NextId
<1>7. turns' = [turns EXCEPT ![t] = EndedTurn]
  BY DEF End, EndedTurn
<1>8. Traces(traces, traces', turns[t].user, n)
  BY DEF Traces
<1> HIDE DEF row, n
<1>9. TablesOK(turns', messages', traces', reviews') /\ n \in Ids
  <2>1. Captures(reviews, reviews', turns[t].user)
    BY DEF Captures
  <2> QED
    BY <1>1, <1>3, <1>6, <1>7, <1>8, <2>1, TablesReply
<1>10. n \in DOMAIN messages' /\ messages'[n].role = "assistant" /\ Len(messages') >= Len(messages)
  BY <1>3, <1>4, <1>6 DEF Added
<1> QED
  BY <1>6, <1>9, <1>10 DEF Stored, n

\* A handler that ends without a reply, with or without a trace.
LEMMA FailStep ==
  ASSUME IInv, NEW t \in Turns, Working(turns[t]), End(t), UNCHANGED <<messages, reviews>>,
         traces' = traces \/ traces' = traces \cup {[user |-> turns[t].user, assistant |-> 0]}
  PROVE  TablesOK(turns', messages', traces', reviews')
<1>1. TablesOK(turns, messages, traces, reviews)
  BY DEF IInv
<1>2. turns' = [turns EXCEPT ![t] = EndedTurn] /\ DOMAIN turns = Turns
  BY WorkingTurn DEF End, EndedTurn
<1>3. CASE traces' = traces
  <2>1. /\ \A u \in Turns : turns'[u] = turns[u] \/ turns'[u] = EndedTurn
        /\ DOMAIN turns' = Turns /\ turns' = [u \in Turns |-> turns'[u]]
    BY <1>2
  <2>2. TablesOK(turns', messages, traces, reviews)
    BY <1>1, <2>1, TablesEnd
  <2> QED
    BY <1>3, <2>2
<1>4. CASE traces' = traces \cup {[user |-> turns[t].user, assistant |-> 0]}
  <2>1. TablesOK(turns', messages, traces', reviews)
    BY <1>1, <1>2, <1>4, TablesFail
  <2> QED
    BY <2>1
<1> QED
  BY <1>3, <1>4

LEMMA RefuseOK ==
  ASSUME IInv, NEW t \in Turns, Refuse(t), UNCHANGED clientVars PROVE IInv'
<1>1. TablesOK(turns, messages, traces, reviews) /\ DOMAIN turns = Turns /\ wire \in [Turns -> Wire]
  BY DEF IInv, TablesOK, StreamsOK
<1>2. turns' = [turns EXCEPT ![t] = EndedTurn] /\ ~Late(EndedTurn)
  BY DEF Refuse, End, EndedTurn, Late
<1>3. TablesOK(turns', messages, traces, reviews)
  <2>1. /\ \A u \in Turns : turns'[u] = turns[u] \/ turns'[u] = EndedTurn
        /\ DOMAIN turns' = Turns /\ turns' = [u \in Turns |-> turns'[u]]
    BY <1>1, <1>2
  <2> QED
    BY <1>1, <2>1, TablesEnd
<1>4. wire' = [wire EXCEPT ![t] = [wire[t] EXCEPT !.state = "open", !.events = <<Event("end", 0)>>]]
  BY <1>1 DEF Refuse
<1>5. /\ wire[t].state = "sent" /\ UNCHANGED <<messages, traces, reviews>>
      /\ Kept(messages, messages')
  BY DEF Refuse, Kept
<1>6. Len(messages') >= Len(messages)
  BY <1>1, <1>5, TableIds
<1>7. SessionsOK'
  BY DEF IInv, SessionsOK, Refuse
<1> QED
  BY <1>2, <1>3, <1>4, <1>5, <1>6, <1>7, OpenStep

LEMMA ReceiveOK ==
  ASSUME IInv, NEW t \in Turns, Receive(t), UNCHANGED clientVars PROVE IInv'
<1>1. /\ TablesOK(turns, messages, traces, reviews) /\ wire \in [Turns -> Wire]
      /\ StreamOK(t, turns[t], wire[t], bubbles, messages) /\ SessionsOK
  BY DEF IInv, StreamsOK
<1>2. PICK s \in Sessions, pc \in {"ordering", "refusing", "classifying"} :
        /\ Resolve(wire[t].named, s)
        /\ messages' = Append(messages, Row(s, "user", 0, "question", FALSE))
        /\ turns' = [turns EXCEPT ![t] = [pc |-> pc, session |-> s, user |-> NextId,
                                          mode |-> "none", traced |-> pc = "classifying"]]
  BY DEF Receive
<1>3. wire[t].state = "sent" /\ turns[t] = NoTurn
  BY <1>1 DEF Receive, StreamOK
<1>4. messages \in Seq(Message) /\ Len(messages) \in Nat /\ DOMAIN turns = Turns
  BY <1>1, TableIds
<1> DEFINE row == Row(s, "user", 0, "question", FALSE)
           next == [pc |-> pc, session |-> s, user |-> NextId, mode |-> "none",
                    traced |-> pc = "classifying"]
           n == NextId
<1>5. /\ row \in Message /\ row.to = 0 /\ row.role = "user" /\ row.rating = "none"
      /\ row.mode = "question"
  BY DEF Row, Message
<1>6. messages' = Append(messages, row) /\ turns' = [turns EXCEPT ![t] = next]
  BY <1>2
<1>7. (pc = "classifying") \in BOOLEAN
  OBVIOUS
<1>8. /\ next.pc = pc /\ next.user = n /\ (n \in Ids => next \in LiveTurn)
      /\ next.traced <=> pc = "classifying"
  BY <1>7 DEF LiveTurn, Awaiting
<1> HIDE DEF row, next
<1>9. Added(messages, n, row, messages') /\ Kept(messages, messages')
  BY <1>4, <1>5, <1>6, NewRow DEF NextId
<1> HIDE DEF n
<1>10. Working(next) /\ (n \in Ids => HandlerOK(next)) /\ ~Late(next)
  BY <1>8 DEF Working, HandlerOK, Late
<1>11. TablesOK(turns', messages', traces, reviews)
  BY <1>1, <1>3, <1>5, <1>6, <1>8, <1>9, <1>10, TablesBegin
<1>12. UNCHANGED <<up, handoffs, traces, reviews, rare>>
  BY DEF Receive
<1>13. Len(messages') >= Len(messages)
  BY <1>4, <1>9 DEF Added
<1>14. SessionsOK'
  <2>1. sessions \in [Sessions -> Life!Session]
    BY <1>1 DEF SessionsOK
  <2>2. sessions' \in [Sessions -> Life!Session]
    <3> DEFINE found == Life!ExpireInactive(sessions)
    <3>1. found \in [Sessions -> Life!Session]
      BY <2>1, SessionOps
    <3>2. \/ sessions' = Life!Touch(Life!Resumed(found, s), s)
          \/ sessions' = Life!UpdateStatus(found, s, "active", "none")
      BY <1>2 DEF Resolve
    <3> HIDE DEF found
    <3>3. Life!Resumed(found, s) \in [Sessions -> Life!Session]
      BY <3>1, SessionOps
    <3>4. Life!Touch(Life!Resumed(found, s), s) \in [Sessions -> Life!Session]
      BY <3>3, SessionOps
    <3>5. Life!UpdateStatus(found, s, "active", "none") \in [Sessions -> Life!Session]
      BY <3>1, SessionOps
    <3> QED
      BY <3>2, <3>4, <3>5
  <2> QED
    BY <1>1, <1>12, <2>2 DEF SessionsOK
<1>15. wire' = [wire EXCEPT ![t] = [wire[t] EXCEPT !.state = "open", !.events = <<>>]]
  <2>1. wire[t].events = <<>> /\ wire[t] \in Wire
    BY <1>1, <1>3 DEF StreamOK
  <2>2. [wire[t] EXCEPT !.state = "open", !.events = <<>>] = [wire[t] EXCEPT !.state = "open"]
    BY <2>1 DEF Wire
  <2> QED
    BY <1>1, <2>2 DEF Receive
<1> QED
  BY <1>3, <1>6, <1>9, <1>10, <1>11, <1>12, <1>13, <1>14, <1>15, OpenStep

LEMMA Writes ==
  ASSUME IInv, NEW t \in Turns, NEW events, Write(t, events)
  PROVE  wire' = [wire EXCEPT ![t] = Written(wire[t], events)]
<1>1. wire \in [Turns -> Wire]
  BY DEF IInv, StreamsOK
<1> QED
  BY <1>1 DEF Write, Written, Wire

\* Nothing is written.
LEMMA WritesNothing ==
  ASSUME IInv, NEW t \in Turns, UNCHANGED wire
  PROVE  wire' = [wire EXCEPT ![t] = Written(wire[t], <<>>)]
<1>1. wire \in [Turns -> Wire] /\ wire[t].events \in Seq(Item)
  BY DEF IInv, StreamsOK, Wire
<1>2. wire[t].events \o <<>> = wire[t].events
  BY <1>1, ConcatEmptySeq
<1> QED
  BY <1>1, <1>2 DEF Written, Wire

\* A reply is saved, and said after the whole text.
LEMMA RepliesOK ==
  ASSUME IInv, NEW t \in Turns, Working(turns[t]),
         NEW mode \in {"order", "canned", "generated"}, NEW escalated \in BOOLEAN,
         SaveReply(t, mode, escalated), End(t),
         traces' = traces \/ traces' = traces \cup {[user |-> turns[t].user, assistant |-> NextId]},
         \/ reviews' = reviews
         \/ reviews[turns[t].user] = NoReview /\ reviews' = [reviews EXCEPT ![turns[t].user] = "unrated"],
         \/ Early(turns[t]) /\ Write(t, <<Token("whole")>> \o Answered(NextId))
         \/ Late(turns[t]) /\ Write(t, Answered(NextId)),
         SessionsOK', UNCHANGED clientVars
  PROVE  IInv'
<1>1. /\ TablesOK(turns', messages', traces', reviews')
      /\ Kept(messages, messages') /\ Len(messages') >= Len(messages)
      /\ NextId \in Ids /\ Stored(messages', NextId)
  BY ReplyStep
<1>2. turns[t] # NoTurn /\ turns' = [turns EXCEPT ![t] = EndedTurn]
  BY WorkingTurn DEF End, EndedTurn
<1>3. ~Early(EndedTurn) /\ ~Late(EndedTurn)
  BY DEF Early, Late, EndedTurn
<1>4. PICK new : Says(turns[t], EndedTurn, new, messages') /\ Write(t, new)
  BY <1>1, <1>3, Lines
<1>5. wire' = [wire EXCEPT ![t] = Written(wire[t], new)]
  BY <1>4, Writes
<1> QED
  BY <1>1, <1>2, <1>4, <1>5, ServerStep

\* A handler ends without a reply.
LEMMA FailsOK ==
  ASSUME IInv, NEW t \in Turns, Working(turns[t]), End(t), UNCHANGED <<messages, reviews>>,
         traces' = traces \/ traces' = traces \cup {[user |-> turns[t].user, assistant |-> 0]},
         Write(t, Failing) \/ Write(t, <<Event("end", 0)>>),
         SessionsOK', UNCHANGED clientVars
  PROVE  IInv'
<1>1. TablesOK(turns', messages', traces', reviews')
  BY FailStep
<1>2. turns[t] # NoTurn /\ turns' = [turns EXCEPT ![t] = EndedTurn]
  BY WorkingTurn DEF End, EndedTurn
<1>3. ~Early(EndedTurn) /\ ~Late(EndedTurn)
  BY DEF Early, Late, EndedTurn
<1>4. PICK new : Says(turns[t], EndedTurn, new, messages') /\ Write(t, new)
  BY <1>3, Lines
<1>5. wire' = [wire EXCEPT ![t] = Written(wire[t], new)]
  BY <1>4, Writes
<1>6. Kept(messages, messages') /\ Len(messages') >= Len(messages)
  <2>1. Len(messages) \in Nat
    BY TableIds DEF IInv
  <2> QED
    BY <2>1 DEF Kept
<1> QED
  BY <1>1, <1>2, <1>4, <1>5, <1>6, ServerStep

\* What is written is what a handler with that pc and mode may have written.
Speaks(t, pc, mode) ==
    \A next \in LiveTurn : next.pc = pc /\ next.mode = mode /\ next.traced = turns[t].traced =>
       \E new : /\ Says(turns[t], next, new, messages)
                /\ wire' = [wire EXCEPT ![t] = Written(wire[t], new)]

\* A handler goes on.
LEMMA ContinuesOK ==
  ASSUME IInv, NEW t \in Turns, Working(turns[t]),
         NEW pc \in {"generating", "preparing"},
         NEW mode \in {"none", "shown", "canned", "generated", "empty"},
         pc = "preparing" => mode \in {"canned", "generated", "empty"},
         pc = "generating" => turns[t].traced,
         Become(t, pc, mode),
         Speaks(t, pc, mode),
         UNCHANGED <<up, sessions, handoffs, messages, traces, reviews, rare>>, UNCHANGED clientVars
  PROVE  IInv'
<1>1. PICK next \in LiveTurn :
           /\ turns' = [turns EXCEPT ![t] = next]
           /\ Working(next) /\ HandlerOK(next) /\ next.user = turns[t].user
           /\ next.traced = turns[t].traced /\ next.pc = pc /\ next.mode = mode
  BY BecomeNext
<1>2. PICK new : /\ Says(turns[t], next, new, messages)
                 /\ wire' = [wire EXCEPT ![t] = Written(wire[t], new)]
  BY <1>1 DEF Speaks
<1>3. TablesOK(turns, messages, traces, reviews) /\ SessionsOK /\ turns[t] # NoTurn
  BY WorkingTurn DEF IInv
<1>4. TablesOK(turns', messages, traces, reviews)
  BY <1>1, <1>3, TablesContinue
<1>5. Kept(messages, messages') /\ Len(messages') >= Len(messages)
  <2>1. Len(messages) \in Nat
    BY <1>3, TableIds
  <2> QED
    BY <2>1 DEF Kept
<1>6. SessionsOK'
  BY <1>3 DEF SessionsOK
<1>7. Says(turns[t], next, new, messages')
  BY <1>2
<1>8. TablesOK(turns', messages', traces', reviews')
  BY <1>4
<1> QED
  BY <1>1, <1>2, <1>3, <1>5, <1>6, <1>7, <1>8, ServerStep

LEMMA GapStep ==
  ASSUME NEW t, NEW captured, CaptureGap(t, captured)
  PROVE  \/ reviews' = reviews
         \/ reviews[turns[t].user] = NoReview /\ reviews' = [reviews EXCEPT ![turns[t].user] = "unrated"]
  BY DEF CaptureGap

\* A direct or a generated answer, saved without a handoff.
LEMMA SaveAnswerOK ==
  ASSUME IInv, NEW t \in Turns, Working(turns[t]), Early(turns[t]),
         NEW mode \in {"canned", "generated"}, NEW captured, SaveAnswer(t, mode, captured),
         Write(t, <<Token("whole")>> \o Answered(NextId)), UNCHANGED <<up, handoffs>>,
         UNCHANGED clientVars
  PROVE  IInv'
<1>1. SaveReply(t, mode, FALSE) /\ End(t) /\ FinalizeTrace(t, NextId) /\ CaptureGap(t, captured)
      /\ sessions' = Life!Touch(sessions, turns[t].session)
  BY DEF SaveAnswer
<1>2. /\ traces' = traces \/ traces' = traces \cup {[user |-> turns[t].user, assistant |-> NextId]}
      /\ rare' \in 0..MaxRare
  BY <1>1, TraceStep
<1>3. \/ reviews' = reviews
      \/ reviews[turns[t].user] = NoReview /\ reviews' = [reviews EXCEPT ![turns[t].user] = "unrated"]
  BY <1>1, GapStep
<1>4. SessionsOK'
  <2>1. SessionsOK /\ turns[t].session \in Sessions
    BY WorkingTurn DEF IInv
  <2> QED
    BY <1>1, <1>2, <2>1, SessionOps DEF SessionsOK
<1> QED
  BY <1>1, <1>2, <1>3, <1>4, RepliesOK

LEMMA ReplyToOrderOK ==
  ASSUME IInv, NEW t \in Turns, ReplyToOrder(t), UNCHANGED clientVars PROVE IInv'
<1>1. Working(turns[t]) /\ Early(turns[t])
  BY DEF ReplyToOrder, Working, Early
<1>2. /\ SaveReply(t, "order", FALSE) /\ End(t) /\ UNCHANGED <<traces, reviews>>
      /\ Write(t, <<Token("whole")>> \o Answered(NextId))
  BY DEF ReplyToOrder
<1>3. SessionsOK'
  <2>1. SessionsOK /\ turns[t].session \in Sessions
    BY <1>1, WorkingTurn DEF IInv
  <2> QED
    BY <2>1, SessionOps DEF SessionsOK, ReplyToOrder
<1> QED
  BY <1>1, <1>2, <1>3, RepliesOK

LEMMA RefuseActionOK ==
  ASSUME IInv, NEW t \in Turns, RefuseAction(t), UNCHANGED clientVars PROVE IInv'
<1>1. Working(turns[t]) /\ Early(turns[t]) /\ Become(t, "preparing", "canned")
      /\ UNCHANGED <<up, sessions, handoffs, messages, traces, reviews, rare>> /\ UNCHANGED wire
  BY DEF RefuseAction, Working, Early
<1>2. ~turns[t].traced
  BY <1>1, WorkingTurn DEF HandlerOK, RefuseAction
<1>3. ASSUME NEW next \in LiveTurn, next.pc = "preparing", next.traced = turns[t].traced
      PROVE  Says(turns[t], next, <<>>, messages)
  BY <1>1, <1>2, <1>3, Lines DEF Late
<1>4. wire' = [wire EXCEPT ![t] = Written(wire[t], <<>>)]
  BY <1>1, WritesNothing
<1> QED
  <2>1. Speaks(t, "preparing", "canned")
    BY <1>3, <1>4 DEF Speaks
  <2> QED
    BY <1>1, <2>1, ContinuesOK

\* The whole text is written before the packet is prepared.
LEMMA TokenOK ==
  ASSUME IInv, NEW t \in Turns, turns[t].pc \in {"classifying", "generating"}, turns[t].traced,
         NEW mode \in {"canned", "generated"}, NEW text \in {"whole", "marked"},
         Become(t, "preparing", mode), Write(t, <<Token(text)>>),
         UNCHANGED <<up, sessions, handoffs, messages, traces, reviews, rare>>, UNCHANGED clientVars
  PROVE  IInv'
<1>1. Working(turns[t]) /\ Early(turns[t])
  BY DEF Working, Early
<1>2. ASSUME NEW next \in LiveTurn, next.pc = "preparing", next.traced = turns[t].traced
      PROVE  Says(turns[t], next, <<Token(text)>>, messages)
  <2>1. ~Early(next)
    BY <1>2 DEF Early
  <2> QED
    BY <1>1, <2>1, Lines DEF Full
<1>3. wire' = [wire EXCEPT ![t] = Written(wire[t], <<Token(text)>>)]
  BY Writes
<1> QED
  <2>1. Speaks(t, "preparing", mode)
    BY <1>2, <1>3 DEF Speaks
  <2> QED
    BY <1>1, <2>1, ContinuesOK

LEMMA ClassifiedOK ==
  ASSUME IInv, NEW t \in Turns, Classified(t), UNCHANGED clientVars PROVE IInv'
<1>1. Working(turns[t]) /\ Early(turns[t]) /\ turns[t].pc = "classifying"
  BY DEF Classified, Working, Early
<1>2. turns[t].traced
  BY <1>1, WorkingTurn DEF HandlerOK
<1>3. CASE /\ \E captured \in BOOLEAN : SaveAnswer(t, "canned", captured)
           /\ Write(t, <<Token("whole")>> \o Answered(NextId)) /\ UNCHANGED <<up, handoffs>>
  <2>1. PICK captured \in BOOLEAN : SaveAnswer(t, "canned", captured)
    BY <1>3
  <2> QED
    BY <1>1, <1>3, <2>1, SaveAnswerOK
<1>4. CASE /\ Become(t, "preparing", "canned") /\ Write(t, <<Token("whole")>>)
           /\ UNCHANGED <<up, sessions, handoffs, messages, traces, reviews, rare>>
  BY <1>1, <1>2, <1>4, TokenOK
<1>5. CASE /\ Become(t, "generating", "none")
           /\ UNCHANGED <<up, sessions, handoffs, messages, traces, reviews, wire, rare>>
  <2>1. ASSUME NEW next \in LiveTurn, next.pc = "generating"
        PROVE  Says(turns[t], next, <<>>, messages)
    <3>1. ~Late(next)
      BY <2>1 DEF Late
    <3> QED
      BY <1>1, <3>1, Lines
  <2>2. wire' = [wire EXCEPT ![t] = Written(wire[t], <<>>)]
    BY <1>5, WritesNothing
  <2>3. Speaks(t, "generating", "none")
    BY <2>1, <2>2 DEF Speaks
  <2> QED
    BY <1>1, <1>2, <1>5, <2>3, ContinuesOK
<1> QED
  BY <1>3, <1>4, <1>5 DEF Classified

LEMMA StreamsOn ==
  ASSUME IInv, NEW t \in Turns, Stream(t), UNCHANGED clientVars PROVE IInv'
<1>1. /\ Working(turns[t]) /\ Early(turns[t]) /\ turns[t].pc = "generating"
      /\ Become(t, "generating", "shown") /\ Write(t, <<Token("part")>>)
      /\ UNCHANGED <<up, sessions, handoffs, messages, traces, reviews, rare>>
  BY DEF Stream, Working, Early
<1>2. turns[t].traced
  BY <1>1, WorkingTurn DEF HandlerOK
<1>3. ASSUME NEW next \in LiveTurn, next.pc = "generating"
      PROVE  Says(turns[t], next, <<Token("part")>>, messages)
  <2>1. ~Late(next)
    BY <1>3 DEF Late
  <2> QED
    BY <1>1, <2>1, Lines
<1>4. wire' = [wire EXCEPT ![t] = Written(wire[t], <<Token("part")>>)]
  BY <1>1, Writes
<1>5. Speaks(t, "generating", "shown")
  BY <1>3, <1>4 DEF Speaks
<1> QED
  BY <1>1, <1>2, <1>5, ContinuesOK

LEMMA FailedOK ==
  ASSUME IInv, NEW t \in Turns, Working(turns[t]), End(t), FinalizeTrace(t, 0),
         Write(t, Failing) \/ Write(t, <<Event("end", 0)>>),
         UNCHANGED <<up, sessions, handoffs, messages, reviews>>, UNCHANGED clientVars
  PROVE  IInv'
<1>1. /\ traces' = traces \/ traces' = traces \cup {[user |-> turns[t].user, assistant |-> 0]}
      /\ rare' \in 0..MaxRare
  BY TraceStep
<1>2. SessionsOK'
  BY <1>1 DEF IInv, SessionsOK
<1> QED
  BY <1>1, <1>2, FailsOK

LEMMA StreamFailsOK ==
  ASSUME IInv, NEW t \in Turns, StreamFails(t), UNCHANGED clientVars PROVE IInv'
<1>1. Working(turns[t])
  BY DEF StreamFails, Working
<1> QED
  BY <1>1, FailedOK DEF StreamFails

LEMMA ThrowOK ==
  ASSUME IInv, NEW t \in Turns, Throw(t), UNCHANGED clientVars PROVE IInv'
<1>1. Working(turns[t])
  BY DEF Throw, Working, Awaiting
<1> QED
  BY <1>1, FailedOK DEF Throw

LEMMA StreamEndsOK ==
  ASSUME IInv, NEW t \in Turns, StreamEnds(t), UNCHANGED clientVars PROVE IInv'
<1>1. Working(turns[t]) /\ Early(turns[t]) /\ turns[t].pc = "generating"
  BY DEF StreamEnds, Working, Early
<1>2. turns[t].traced
  BY <1>1, WorkingTurn DEF HandlerOK
<1>3. CASE /\ \E captured \in BOOLEAN : SaveAnswer(t, "generated", captured)
           /\ Write(t, <<Token("whole")>> \o Answered(NextId)) /\ UNCHANGED <<up, handoffs>>
  <2>1. PICK captured \in BOOLEAN : SaveAnswer(t, "generated", captured)
    BY <1>3
  <2> QED
    BY <1>1, <1>3, <2>1, SaveAnswerOK
<1>4. CASE /\ Become(t, "preparing", "generated")
           /\ \E text \in {"whole", "marked"} : Write(t, <<Token(text)>>)
           /\ UNCHANGED <<up, sessions, handoffs, messages, traces, reviews, rare>>
  <2>1. PICK text \in {"whole", "marked"} : Write(t, <<Token(text)>>)
    BY <1>4
  <2> QED
    BY <1>1, <1>2, <1>4, <2>1, TokenOK
<1>5. CASE /\ Become(t, "preparing", "empty")
           /\ UNCHANGED <<up, sessions, handoffs, messages, traces, reviews, wire, rare>>
  <2>1. ASSUME NEW next \in LiveTurn, next.pc = "preparing", next.mode = "empty"
        PROVE  Says(turns[t], next, <<>>, messages)
    <3>1. ~Late(next)
      BY <2>1 DEF Late
    <3> QED
      BY <1>1, <3>1, Lines
  <2>2. wire' = [wire EXCEPT ![t] = Written(wire[t], <<>>)]
    BY <1>5, WritesNothing
  <2>3. Speaks(t, "preparing", "empty")
    BY <2>1, <2>2 DEF Speaks
  <2> QED
    BY <1>1, <1>5, <2>3, ContinuesOK
<1>6. CASE /\ Write(t, Failing) /\ FinalizeTrace(t, 0) /\ End(t)
           /\ UNCHANGED <<up, sessions, handoffs, messages, reviews>>
  BY <1>1, <1>6, FailedOK
<1> QED
  BY <1>3, <1>4, <1>5, <1>6 DEF StreamEnds

LEMMA HandOffOK ==
  ASSUME IInv, NEW t \in Turns, HandOff(t), UNCHANGED clientVars PROVE IInv'
<1>1. /\ Working(turns[t]) /\ turns[t].pc = "preparing" /\ Life!PersistEscalation(turns[t].session)
      /\ End(t) /\ UNCHANGED up
  BY DEF HandOff, Working
<1>2. turns[t].session \in Sessions /\ turns[t].mode \in {"canned", "generated", "empty"}
  BY <1>1, WorkingTurn DEF HandlerOK
<1>3. ASSUME rare' \in 0..MaxRare PROVE SessionsOK'
  <2>1. SessionsOK
    BY DEF IInv
  <2>2. /\ sessions' = Life!UpdateStatus(sessions, turns[t].session, "escalated", "none")
        /\ handoffs' = handoffs \cup {turns[t].session}
    BY <1>1 DEF Life!PersistEscalation
  <2>3. sessions' \in [Sessions -> Life!Session]
    BY <1>2, <2>1, <2>2, SessionOps DEF SessionsOK
  <2> QED
    BY <1>1, <1>2, <1>3, <2>1, <2>2, <2>3 DEF SessionsOK
<1>4. CASE turns[t].mode = "empty"
  <2>1. Write(t, Failing) /\ FinalizeTrace(t, 0) /\ UNCHANGED <<messages, reviews>>
    BY <1>4 DEF HandOff
  <2>2. /\ traces' = traces \/ traces' = traces \cup {[user |-> turns[t].user, assistant |-> 0]}
        /\ rare' \in 0..MaxRare
    BY <2>1, TraceStep
  <2> QED
    BY <1>1, <1>3, <2>1, <2>2, FailsOK
<1>5. CASE turns[t].mode # "empty"
  <2> DEFINE mode == turns[t].mode
  <2>1. /\ SaveReply(t, mode, TRUE) /\ FinalizeTrace(t, NextId)
        /\ \E captured \in BOOLEAN : CaptureGap(t, captured /\ turns[t].traced)
        /\ Write(t, (IF turns[t].traced THEN <<>> ELSE <<Token("whole")>>) \o Answered(NextId))
    BY <1>5 DEF HandOff
  <2>2. mode \in {"order", "canned", "generated"}
    BY <1>2, <1>5
  <2>3. /\ traces' = traces \/ traces' = traces \cup {[user |-> turns[t].user, assistant |-> NextId]}
        /\ rare' \in 0..MaxRare
    BY <2>1, TraceStep
  <2>4. \/ reviews' = reviews
        \/ reviews[turns[t].user] = NoReview /\ reviews' = [reviews EXCEPT ![turns[t].user] = "unrated"]
    <3>1. PICK captured \in BOOLEAN : CaptureGap(t, captured /\ turns[t].traced)
      BY <2>1
    <3> QED
      BY <3>1, GapStep
  <2>5. \/ Early(turns[t]) /\ Write(t, <<Token("whole")>> \o Answered(NextId))
        \/ Late(turns[t]) /\ Write(t, Answered(NextId))
    <3>1. CASE turns[t].traced
      <4>1. Late(turns[t])
        BY <1>1, <1>5, <3>1 DEF Late
      <4>2. <<>> \o Answered(NextId) = Answered(NextId)
        <5>1. NextId \in Ids
          BY <1>1, <2>1, <2>2, <2>3, <2>4, ReplyStep
        <5>2. Answered(NextId) \in Seq(Item)
          BY <5>1 DEF Answered, Event, Item
        <5> QED
          BY <5>2, ConcatEmptySeq
      <4> QED
        BY <2>1, <3>1, <4>1, <4>2
    <3>2. CASE ~turns[t].traced
      <4>1. Early(turns[t])
        BY <1>1, <3>2 DEF Early
      <4> QED
        BY <2>1, <3>2, <4>1
    <3> QED
      BY <3>1, <3>2
  <2>6. SessionsOK'
    BY <1>3, <2>3
  <2> HIDE DEF mode
  <2> QED
    BY <1>1, <2>1, <2>2, <2>3, <2>4, <2>5, <2>6, RepliesOK
<1> QED
  BY <1>4, <1>5

LEMMA HandleOK ==
  ASSUME IInv, NEW t \in Turns, Serve(t) PROVE IInv'
<1>1. Handle(t) /\ UNCHANGED clientVars
  BY DEF Serve
<1> QED
  BY <1>1, RefuseOK, ReceiveOK, ReplyToOrderOK, RefuseActionOK, ClassifiedOK, StreamsOn,
     StreamFailsOK, StreamEndsOK, HandOffOK, ThrowOK DEF Handle

-----------------------------------------------------------------------------
(* The steps of the browser.                                               *)

\* A connection and the bubble that waits for it change.
LEMMA ConnectionStep ==
  ASSUME IInv, NEW t \in Turns, NEW w, wire' = [wire EXCEPT ![t] = w],
         StreamOK(t, turns[t], w, bubbles', messages),
         \A u \in Turns, b \in bubbles' : u # t /\ Waiting(b, u) => b \in bubbles,
         BubblesOK(bubbles', messages),
         view' \in [session : SessionId, busy : BOOLEAN], rare' \in 0..MaxRare,
         UNCHANGED <<up, sessions, handoffs, messages, traces, reviews, turns, closing, opening, lookups>>
  PROVE  IInv'
<1>1. /\ TablesOK(turns, messages, traces, reviews) /\ StreamsOK /\ ViewOK /\ SessionsOK
      /\ LookupsOK(lookups, messages)
  BY DEF IInv
<1>2. wire \in [Turns -> Wire] /\ wire' \in [Turns -> Wire]
  BY <1>1 DEF StreamsOK, StreamOK
<1>3. ASSUME NEW u \in Turns PROVE StreamOK(u, turns'[u], wire'[u], bubbles', messages')
  <2>1. CASE u = t
    BY <1>2, <2>1
  <2>2. CASE u # t
    <3>1. StreamOK(u, turns[u], wire[u], bubbles, messages) /\ Kept(messages, messages)
      BY <1>1 DEF StreamsOK, Kept
    <3>2. \A b \in bubbles' : Waiting(b, u) => b \in bubbles
      BY <2>2
    <3>3. StreamOK(u, turns[u], wire[u], bubbles', messages)
      BY <3>1, <3>2, StreamKept
    <3> QED
      BY <1>2, <2>2, <3>3
  <2> QED
    BY <2>1, <2>2
<1>4. StreamsOK'
  BY <1>2, <1>3 DEF StreamsOK
<1>5. TablesOK(turns', messages', traces', reviews')
  BY <1>1
<1>6. BubblesOK(bubbles', messages')
  OBVIOUS
<1>7. ViewOK' /\ SessionsOK'
  BY <1>1 DEF ViewOK, SessionsOK
<1>8. LookupsOK(lookups', messages')
  BY <1>1
<1> QED
  BY <1>4, <1>5, <1>6, <1>7, <1>8 DEF IInv

LEMMA SendOK ==
  ASSUME IInv, NEW t \in Turns, Send(t) PROVE IInv'
<1> DEFINE new == [turn |-> t, message |-> 0, text |-> "none", live |-> TRUE, failed |-> FALSE]
           w == [wire[t] EXCEPT !.state = "sent", !.named = view.session]
<1>1. /\ StreamOK(t, turns[t], wire[t], bubbles, messages) /\ BubblesOK(bubbles, messages)
      /\ wire \in [Turns -> Wire] /\ view \in [session : SessionId, busy : BOOLEAN]
      /\ rare \in 0..MaxRare
  BY DEF IInv, StreamsOK, ViewOK, SessionsOK
<1>2. /\ wire[t].state = "unsent" /\ bubbles' = bubbles \cup {new}
      /\ wire' = [wire EXCEPT ![t] = w] /\ view' = [view EXCEPT !.busy = TRUE]
      /\ UNCHANGED <<up, sessions, handoffs, messages, traces, reviews, turns, rare, closing, opening,
                     lookups>>
  BY <1>1 DEF Send, Wire
<1>3. /\ new \in Bubble /\ new.live /\ new.turn = t /\ new.turn # 0 /\ new.text = "none"
  BY ChatAssumption DEF Bubble
<1>4. w \in Wire /\ w.state = "sent" /\ w.events = wire[t].events /\ w.got = wire[t].got
  BY <1>1 DEF Wire
<1> HIDE DEF new, w
<1>5. StreamOK(t, turns[t], w, bubbles', messages)
  BY <1>1, <1>2, <1>3, <1>4 DEF StreamOK, Blank, Full
<1>6. BubblesOK(bubbles', messages)
  BY <1>1, <1>2, <1>3 DEF BubblesOK, Complete
<1>7. \A u \in Turns, b \in bubbles' : u # t /\ Waiting(b, u) => b \in bubbles
  BY <1>2, <1>3 DEF Waiting
<1>8. view' \in [session : SessionId, busy : BOOLEAN]
  BY <1>1, <1>2
<1> QED
  BY <1>1, <1>2, <1>5, <1>6, <1>7, <1>8, ConnectionStep

LEMMA DropOK ==
  ASSUME IInv, NEW t \in Turns, Drop(t) PROVE IInv'
<1> DEFINE w == [wire[t] EXCEPT !.state = "cut", !.events = <<Event("end", 0)>>]
<1>1. /\ StreamOK(t, turns[t], wire[t], bubbles, messages) /\ BubblesOK(bubbles, messages)
      /\ wire \in [Turns -> Wire] /\ view \in [session : SessionId, busy : BOOLEAN]
      /\ rare \in 0..MaxRare
  BY DEF IInv, StreamsOK, ViewOK, SessionsOK
<1>2. /\ wire' = [wire EXCEPT ![t] = w] /\ rare' \in 0..MaxRare
      /\ UNCHANGED <<up, sessions, handoffs, messages, traces, reviews, turns>>
      /\ UNCHANGED <<view, bubbles, closing, opening, lookups>>
  <2>1. wire' = [wire EXCEPT ![t] = w]
    BY <1>1 DEF Drop, Wire
  <2>2. rare' \in 0..MaxRare
    BY <1>1, ChatAssumption DEF Drop, Rarely
  <2> QED
    BY <2>1, <2>2 DEF Drop, clientVars
<1>3. w \in Wire /\ w.state = "cut" /\ w.events = <<Event("end", 0)>>
  <2>1. <<Event("end", 0)>> \in Seq(Item)
    <3>1. Event("end", 0) \in Item
      BY DEF Event, Item
    <3> QED
      BY <3>1
  <2> QED
    BY <1>1, <2>1 DEF Wire
<1> HIDE DEF w
<1>4. StreamOK(t, turns[t], w, bubbles', messages)
  BY <1>3 DEF StreamOK
<1> QED
  BY <1>1, <1>2, <1>4, ConnectionStep

\* The bubbles after a piece of text, an answer and a failure.
LEMMA Bubbles ==
  ASSUME NEW t \in Turns, BubblesOK(bubbles, messages)
  PROVE  /\ \A type \in {"part", "whole", "marked"} :
              /\ BubblesOK(Shown(t, type), messages)
              /\ \A b \in Shown(t, type) : Waiting(b, t) =>
                    b.text = type /\ \E old \in bubbles : Waiting(old, t)
              /\ \A u \in Turns, b \in Shown(t, type) : u # t /\ Waiting(b, u) => b \in bubbles
         /\ \A m \in Ids : Stored(messages, m) /\ Whole(t, bubbles) =>
              /\ BubblesOK(Completed(t, m), messages)
              /\ \A u \in Turns, b \in Completed(t, m) : Waiting(b, u) => b \in bubbles
         /\ BubblesOK(Failed(t), messages)
         /\ \A u \in Turns, b \in Failed(t) : Waiting(b, u) => b \in bubbles
<1>1. ASSUME NEW type \in {"part", "whole", "marked"}, NEW b \in Shown(t, type)
      PROVE  /\ b \in Bubble /\ (b.live => b.turn # 0)
             /\ Complete(b) => Stored(messages, b.message) /\ b.text \in Full
             /\ Waiting(b, t) => b.text = type /\ \E old \in bubbles : Waiting(old, t)
             /\ \A u \in Turns : u # t /\ Waiting(b, u) => b \in bubbles
  <2>1. PICK old \in bubbles : b = IF Waiting(old, t) THEN [old EXCEPT !.text = type] ELSE old
    BY <1>1 DEF Shown
  <2>2. old \in Bubble /\ (old.live => old.turn # 0)
        /\ (Complete(old) => Stored(messages, old.message) /\ old.text \in Full)
    BY DEF BubblesOK
  <2> QED
    BY <2>1, <2>2 DEF Waiting, Complete, Bubble
<1>2. ASSUME NEW m \in Ids, Stored(messages, m), Whole(t, bubbles), NEW b \in Completed(t, m)
      PROVE  /\ b \in Bubble /\ (b.live => b.turn # 0)
             /\ Complete(b) => Stored(messages, b.message) /\ b.text \in Full
             /\ \A u \in Turns : Waiting(b, u) => b \in bubbles
  <2>1. PICK old \in bubbles : b = IF Waiting(old, t) THEN [old EXCEPT !.message = m, !.live = FALSE] ELSE old
    BY <1>2 DEF Completed
  <2>2. old \in Bubble /\ (old.live => old.turn # 0)
        /\ (Complete(old) => Stored(messages, old.message) /\ old.text \in Full)
        /\ (Waiting(old, t) => old.text \in Full)
    BY <1>2 DEF BubblesOK, Whole
  <2> QED
    BY <1>2, <2>1, <2>2 DEF Waiting, Complete, Bubble
<1>3. ASSUME NEW b \in Failed(t)
      PROVE  /\ b \in Bubble /\ (b.live => b.turn # 0)
             /\ Complete(b) => Stored(messages, b.message) /\ b.text \in Full
             /\ \A u \in Turns : Waiting(b, u) => b \in bubbles
  <2>1. PICK old \in bubbles :
          b = IF Waiting(old, t) THEN [old EXCEPT !.text = "error", !.failed = TRUE, !.live = FALSE] ELSE old
    BY <1>3 DEF Failed
  <2>2. old \in Bubble /\ (old.live => old.turn # 0)
        /\ (Complete(old) => Stored(messages, old.message) /\ old.text \in Full)
    BY DEF BubblesOK
  <2> QED
    BY <2>1, <2>2 DEF Waiting, Complete, Bubble
<1> QED
  BY <1>1, <1>2, <1>3 DEF BubblesOK

LEMMA DeliverOK ==
  ASSUME IInv, NEW t \in Turns, Deliver(t) PROVE IInv'
<1>1. /\ StreamOK(t, turns[t], wire[t], bubbles, messages) /\ BubblesOK(bubbles, messages)
      /\ wire \in [Turns -> Wire] /\ view \in [session : SessionId, busy : BOOLEAN]
      /\ rare \in 0..MaxRare /\ \A m \in DOMAIN messages : m \in Ids /\ messages[m].session \in Sessions
  <2>1. TablesOK(turns, messages, traces, reviews)
    BY DEF IInv
  <2>2. \A m \in DOMAIN messages : m \in Ids /\ messages[m] \in Message
    BY <2>1, TableIds, ElementOfSeq
  <2>3. \A m \in DOMAIN messages : messages[m].session \in Sessions
    BY <2>2 DEF Message
  <2> QED
    BY <2>2, <2>3 DEF IInv, StreamsOK, ViewOK, SessionsOK
<1>2. /\ wire[t].events # <<>>
      /\ UNCHANGED <<up, sessions, handoffs, messages, traces, reviews, turns, rare, closing, opening,
                     lookups>>
      /\ rare' \in 0..MaxRare
  BY <1>1 DEF Deliver
<1> DEFINE event == Head(wire[t].events)
           rest == Tail(wire[t].events)
<1>3. Head(wire[t].events) \in Item /\ (event.type # "end" => wire[t].state = "open")
  BY <1>1, <1>2, StreamHead
\* A bubble that waits no more, and a connection that nobody reads.
<1>4. ASSUME wire' = [wire EXCEPT ![t] = Read], view' \in [session : SessionId, busy : BOOLEAN],
             \/ bubbles' = Failed(t)
             \/ /\ bubbles' = Completed(t, wire[t].got) /\ wire[t].got \in Ids
                /\ Stored(messages, wire[t].got) /\ Whole(t, bubbles)
      PROVE  IInv'
  <2>1. Read \in Wire /\ Read.state = "read" /\ Read.events = <<>>
    <3>1. <<>> \in Seq(Item)
      BY EmptySeq
    <3> QED
      BY <3>1 DEF Read, Unsent, Wire, SessionId
  <2>2. StreamOK(t, turns[t], Read, bubbles', messages)
    BY <2>1 DEF StreamOK
  <2>3. BubblesOK(bubbles', messages) /\ \A u \in Turns, b \in bubbles' : Waiting(b, u) => b \in bubbles
    BY <1>1, <1>4, Bubbles
  <2> QED
    BY <1>2, <1>4, <2>2, <2>3, ConnectionStep
<1>5. CASE /\ event.type \in {"part", "whole", "marked"}
           /\ bubbles' = Shown(t, event.type)
           /\ wire' = [wire EXCEPT ![t].events = Tail(@)]
           /\ UNCHANGED view
  <2> DEFINE w == [wire[t] EXCEPT !.events = Tail(@)]
             type == event.type
  <2>1. wire' = [wire EXCEPT ![t] = w]
    BY <1>1, <1>5
  <2>2. /\ type \in {"part", "whole", "marked"} /\ bubbles' = Shown(t, type)
        /\ type = Head(wire[t].events).type
    BY <1>5
  <2> HIDE DEF type
  <2>3. /\ BubblesOK(bubbles', messages)
        /\ \A b \in bubbles' : Waiting(b, t) => b.text = type /\ \E old \in bubbles : Waiting(old, t)
        /\ \A u \in Turns, b \in bubbles' : u # t /\ Waiting(b, u) => b \in bubbles
    BY <1>1, <2>2, Bubbles
  <2>4. StreamOK(t, turns[t], w, bubbles', messages)
    BY <1>1, <1>2, <2>2, <2>3, StreamShow
  <2>5. view' \in [session : SessionId, busy : BOOLEAN]
    BY <1>1, <1>5
  <2> HIDE DEF w
  <2> QED
    BY <1>2, <2>1, <2>3, <2>4, <2>5, ConnectionStep
<1>6. CASE /\ event.type = "done"
           /\ view' = [view EXCEPT !.session = messages[event.message].session]
           /\ wire' = [wire EXCEPT ![t].events = Tail(@), ![t].got = event.message]
           /\ UNCHANGED bubbles
  <2> DEFINE w == [wire[t] EXCEPT !.events = Tail(@), !.got = Head(wire[t].events).message]
  <2>1. wire' = [wire EXCEPT ![t] = w]
    BY <1>1, <1>6 DEF Wire
  <2>2. StreamOK(t, turns[t], w, bubbles, messages) /\ Stored(messages, event.message)
    BY <1>1, <1>2, <1>6, StreamDone
  <2>3. view' \in [session : SessionId, busy : BOOLEAN]
    BY <1>1, <1>6, <2>2 DEF Stored, SessionId
  <2> HIDE DEF w
  <2>4. StreamOK(t, turns[t], w, bubbles', messages) /\ BubblesOK(bubbles', messages)
    BY <1>1, <1>6, <2>2
  <2>5. \A u \in Turns, b \in bubbles' : u # t /\ Waiting(b, u) => b \in bubbles
    BY <1>6
  <2> QED
    BY <1>2, <2>1, <2>3, <2>4, <2>5, ConnectionStep
<1>7. CASE /\ event.type = "error"
           /\ view' = [view EXCEPT !.busy = FALSE] /\ FailBubble(t)
           /\ wire' = [wire EXCEPT ![t] = Read]
  <2>1. view' \in [session : SessionId, busy : BOOLEAN]
    BY <1>1, <1>7
  <2> QED
    BY <1>4, <1>7, <2>1 DEF FailBubble
<1>8. CASE event.type = "end" /\ Ended(t) /\ wire' = [wire EXCEPT ![t] = Read]
  <2>1. CASE wire[t].state = "open" /\ wire[t].got # 0
    <3>1. Stored(messages, wire[t].got) /\ Whole(t, bubbles)
      BY <1>1, <2>1 DEF StreamOK, Flows
    <3>2. /\ view' = [session |-> messages[wire[t].got].session, busy |-> FALSE]
          /\ bubbles' = Completed(t, wire[t].got)
      BY <1>8, <2>1 DEF Ended
    <3>3. view' \in [session : SessionId, busy : BOOLEAN] /\ wire[t].got \in Ids
      BY <1>1, <3>1, <3>2 DEF Stored, SessionId
    <3> QED
      BY <1>4, <1>8, <3>1, <3>2, <3>3
  <2>2. CASE ~(wire[t].state = "open" /\ wire[t].got # 0)
    <3>1. view' = [view EXCEPT !.busy = FALSE] /\ bubbles' = Failed(t)
      BY <1>8, <2>2 DEF Ended, FailBubble
    <3>2. view' \in [session : SessionId, busy : BOOLEAN]
      BY <1>1, <3>1
    <3> QED
      BY <1>4, <1>8, <3>1, <3>2
  <2> QED
    BY <2>1, <2>2
<1> QED
  BY <1>5, <1>6, <1>7, <1>8 DEF Deliver

\* A step of the view: the streams and the rows stay as they are.
LEMMA ViewStep ==
  ASSUME IInv, \A b \in bubbles' : b.live => b \in bubbles,
         BubblesOK(bubbles', messages), ViewOK', SessionsOK', LookupsOK(lookups', messages),
         UNCHANGED <<messages, traces, reviews, turns, wire>>
  PROVE  IInv'
<1>1. TablesOK(turns, messages, traces, reviews) /\ StreamsOK
  BY DEF IInv
<1>2. ASSUME NEW t \in Turns PROVE StreamOK(t, turns[t], wire[t], bubbles', messages)
  <2>1. StreamOK(t, turns[t], wire[t], bubbles, messages) /\ Kept(messages, messages)
    BY <1>1 DEF StreamsOK, Kept
  <2>2. \A b \in bubbles' : Waiting(b, t) => b \in bubbles
    BY DEF Waiting
  <2> QED
    BY <2>1, <2>2, StreamKept
<1>3. StreamsOK'
  BY <1>1, <1>2 DEF StreamsOK
<1>4. /\ TablesOK(turns', messages', traces', reviews') /\ BubblesOK(bubbles', messages')
      /\ LookupsOK(lookups', messages')
  BY <1>1
<1> QED
  BY <1>3, <1>4 DEF IInv

LEMMA NewChatOK == ASSUME IInv, NewChat PROVE IInv'
<1>1. /\ SessionsOK /\ ViewOK /\ BubblesOK(bubbles, messages) /\ LookupsOK(lookups, messages)
      /\ view.session \in Sessions
  BY DEF IInv, ViewOK, NewChat, SessionId
<1>2. Life!CloseUserSession(sessions, view.session) \in [Sessions -> Life!Session]
  BY <1>1, SessionOps DEF SessionsOK
<1>3. SessionsOK' /\ ViewOK'
  BY <1>1, <1>2, ChatAssumption DEF NewChat, SessionsOK, ViewOK, Rarely, SessionId
<1> QED
  BY <1>1, <1>3, ViewStep DEF NewChat

LEMMA ClosedOK == ASSUME IInv, Closed PROVE IInv'
<1>1. SessionsOK /\ ViewOK /\ BubblesOK(bubbles, messages) /\ LookupsOK(lookups, messages)
  BY DEF IInv
<1>2. UNCHANGED <<messages, traces, reviews, turns, wire, lookups>> /\ SessionsOK'
  BY <1>1 DEF Closed, serverVars, SessionsOK
<1>3. ViewOK'
  <2>1. Empty \in [session : SessionId, busy : BOOLEAN] /\ "none" \in SessionId
    BY DEF Empty, SessionId
  <2>2. view' \in [session : SessionId, busy : BOOLEAN] /\ closing' \in SessionId
    BY <1>1, <2>1 DEF Closed, ViewOK
  <2>3. UNCHANGED <<opening, messages>>
    BY <1>2 DEF Closed
  <2> QED
    BY <1>1, <2>2, <2>3 DEF ViewOK
<1>4. BubblesOK(bubbles', messages) /\ \A b \in bubbles' : b.live => b \in bubbles
  BY <1>1 DEF Closed, BubblesOK
<1> QED
  BY <1>1, <1>2, <1>3, <1>4, ViewStep

LEMMA OpenOK == ASSUME IInv, NEW s \in Sessions, Open(s) PROVE IInv'
<1>1. /\ SessionsOK /\ ViewOK /\ BubblesOK(bubbles, messages) /\ LookupsOK(lookups, messages)
      /\ Len(messages) \in Nat
  BY TableIds DEF IInv
<1>2. Life!ExpireInactive(sessions) \in [Sessions -> Life!Session]
  BY <1>1, SessionOps DEF SessionsOK
<1>3. SessionsOK' /\ ViewOK'
  BY <1>1, <1>2, ChatAssumption DEF Open, SessionsOK, ViewOK, Rarely, SessionId
<1> QED
  BY <1>1, <1>3, ViewStep DEF Open

LEMMA OpenedOK == ASSUME IInv, Opened PROVE IInv'
<1>1. /\ SessionsOK /\ ViewOK /\ BubblesOK(bubbles, messages) /\ LookupsOK(lookups, messages)
      /\ Len(messages) \in Nat /\ DOMAIN messages = 1..Len(messages)
      /\ DOMAIN messages \subseteq Ids
  BY TableIds DEF IInv
<1>2. UNCHANGED <<messages, traces, reviews, turns, wire, lookups>> /\ SessionsOK'
  BY <1>1 DEF Opened, serverVars, SessionsOK
<1>3. ViewOK'
  <2>1. opening' \in [session : SessionId, upto : Nat] /\ opening'.upto = 0
    BY DEF Opened, NoRequest, SessionId
  <2>2. opening.session \in SessionId
    BY <1>1 DEF ViewOK
  <2>3. UNCHANGED <<closing, messages>>
    BY <1>2 DEF Opened
  <2>4. view' = [session |-> opening.session, busy |-> FALSE] \/ view' = view
    BY DEF Opened
  <2>5. view' \in [session : SessionId, busy : BOOLEAN]
    <3>1. view \in [session : SessionId, busy : BOOLEAN]
      BY <1>1 DEF ViewOK
    <3>2. CASE view' = view
      BY <3>1, <3>2
    <3>3. CASE view' = [session |-> opening.session, busy |-> FALSE]
      BY <2>2, <3>3
    <3> QED
      BY <2>4, <3>2, <3>3
  <2> QED
    BY <1>1, <2>1, <2>3, <2>5 DEF ViewOK
<1>4. ASSUME NEW m \in Replies(opening.session, opening.upto) PROVE Stored(messages, m) /\ m \in Ids
  BY <1>1 DEF Replies, ViewOK, Stored
<1>5. BubblesOK(bubbles', messages) /\ \A b \in bubbles' : b.live => b \in bubbles
  <2>1. CASE UNCHANGED <<view, bubbles>>
    BY <1>1, <2>1
  <2>2. CASE bubbles' = {[turn |-> 0, message |-> m, text |-> "whole", live |-> FALSE,
                          failed |-> FALSE] : m \in Replies(opening.session, opening.upto)}
    <3>1. ASSUME NEW b \in bubbles'
          PROVE  b \in Bubble /\ ~b.live /\ Stored(messages, b.message) /\ b.text \in Full
      <4>1. PICK m \in Replies(opening.session, opening.upto) :
              b = [turn |-> 0, message |-> m, text |-> "whole", live |-> FALSE, failed |-> FALSE]
        BY <2>2, <3>1
      <4> QED
        BY <1>4, <4>1 DEF Bubble, Full
    <3> QED
      BY <3>1 DEF BubblesOK
  <2> QED
    BY <2>1, <2>2 DEF Opened
<1> QED
  BY <1>1, <1>2, <1>3, <1>5, ViewStep

LEMMA RateOK ==
  ASSUME IInv, NEW b \in bubbles, NEW r \in {"low", "high"}, Rate(b, r) PROVE IInv'
<1>1. /\ SessionsOK /\ ViewOK /\ BubblesOK(bubbles, messages) /\ StreamsOK
      /\ TablesOK(turns, messages, traces, reviews) /\ LookupsOK(lookups, messages)
  BY DEF IInv
<1>2. Stored(messages, b.message)
  BY <1>1 DEF Rate, BubblesOK
<1>3. /\ UNCHANGED <<up, sessions, handoffs, traces, turns, wire, view, bubbles, closing, opening, lookups>>
      /\ RecordRating(b.message, r)
  BY DEF Rate, clientVars
<1>0. PICK q \in DOMAIN messages :
        /\ Answers(messages, b.message, q)
        /\ messages' = [messages EXCEPT ![b.message].rating = r]
        /\ reviews' = [reviews EXCEPT ![q] = IF @ # NoReview \/ r = "low" THEN r ELSE @]
  BY <1>3 DEF RecordRating
<1>4. /\ TablesOK(turns, messages', traces, reviews') /\ Kept(messages, messages')
      /\ Len(messages') = Len(messages)
  <2> DEFINE m == b.message
  <2>1. /\ Stored(messages, m) /\ Answers(messages, m, q)
        /\ Rescored(messages, messages', m, r) /\ Rerated(reviews, reviews', q, r)
    BY <1>0, <1>2 DEF Rerated, Rescored
  <2> HIDE DEF m
  <2>2. ASSUME NEW ns, Rescored(messages, ns, m, r), NEW qs, Rerated(reviews, qs, q, r)
        PROVE  TablesOK(turns, ns, traces, qs) /\ Kept(messages, ns) /\ Len(ns) = Len(messages)
    BY <1>1, <2>1, <2>2, TablesRate
  <2> QED
    BY <2>1, <2>2
<1>5. StreamsOK'
  <2>1. ASSUME NEW t \in Turns PROVE StreamOK(t, turns[t], wire[t], bubbles, messages')
    BY <1>1, <1>4, StreamKept DEF StreamsOK
  <2> QED
    BY <1>1, <1>3, <2>1 DEF StreamsOK
<1>6. BubblesOK(bubbles', messages')
  BY <1>1, <1>3, <1>4 DEF BubblesOK, Stored, Kept
<1>7. ViewOK'
  BY <1>1, <1>3, <1>4 DEF ViewOK
<1>8. SessionsOK'
  <2>1. rare' \in 0..MaxRare
    BY <1>1, ChatAssumption DEF Rate, Rarely, SessionsOK
  <2> QED
    BY <1>1, <1>3, <2>1 DEF SessionsOK
<1>9. TablesOK(turns', messages', traces', reviews')
  BY <1>3, <1>4
<1>10. LookupsOK(lookups', messages')
  BY <1>1, <1>3, <1>4, LookupsKept
<1> QED
  BY <1>5, <1>6, <1>7, <1>8, <1>9, <1>10 DEF IInv

LEMMA GrowIdleOK ==
  ASSUME IInv, NEW s \in Sessions, GrowIdle(s), UNCHANGED clientVars PROVE IInv'
<1>1. SessionsOK /\ ViewOK /\ BubblesOK(bubbles, messages) /\ LookupsOK(lookups, messages)
  BY DEF IInv
<1>2. SessionsOK' /\ ViewOK'
  <2>1. rare' \in 0..MaxRare
    BY <1>1, ChatAssumption DEF GrowIdle, Rarely, SessionsOK
  <2>2. sessions' \in [Sessions -> Life!Session]
    BY <1>1 DEF GrowIdle, SessionsOK, Life!Session
  <2> QED
    BY <1>1, <2>1, <2>2 DEF GrowIdle, SessionsOK, ViewOK, clientVars
<1> QED
  BY <1>1, <1>2, ViewStep DEF GrowIdle, clientVars

LEMMA RestartOK == ASSUME IInv, Restart PROVE IInv'
<1>1. SessionsOK /\ ViewOK /\ BubblesOK(bubbles, messages) /\ LookupsOK(lookups, messages)
  BY DEF IInv
<1>2. SessionsOK' /\ ViewOK'
  BY <1>1 DEF Restart, Boot, SessionsOK, ViewOK, clientVars
<1> QED
  BY <1>1, <1>2, ViewStep DEF Restart, Boot, clientVars

\* The process dies: what was not said is lost, what was said can still arrive.
LEMMA CrashOK == ASSUME IInv, CrashAll PROVE IInv'
<1>0. Crash
  BY DEF CrashAll
<1>1. /\ SessionsOK /\ ViewOK /\ BubblesOK(bubbles, messages) /\ StreamsOK
      /\ LookupsOK(lookups, messages)
      /\ TablesOK(turns, messages, traces, reviews) /\ Len(messages) \in Nat
  BY TableIds DEF IInv
<1>2. /\ UNCHANGED <<sessions, handoffs, messages, traces, reviews>>
      /\ UNCHANGED <<view, bubbles, closing, opening>>
      /\ turns' = [t \in Turns |-> IF wire[t].state = "unsent" THEN NoTurn ELSE EndedTurn]
      /\ wire' = [t \in Turns |->
            IF wire[t].state = "sent" \/ (wire[t].state = "open" /\ turns[t].pc # "ended")
            THEN [wire[t] EXCEPT !.state = "open", !.events = @ \o <<Event("end", 0)>>] ELSE wire[t]]
  BY DEF CrashAll, Crash, EndedTurn
<1>3. TablesOK(turns', messages', traces', reviews')
  <2>1. \A t \in Turns : turns'[t] = turns[t] \/ turns'[t] = EndedTurn
    BY <1>1, <1>2 DEF StreamsOK, StreamOK
  <2>2. DOMAIN turns' = Turns /\ turns' = [t \in Turns |-> turns'[t]]
    BY <1>2
  <2>3. TablesOK(turns', messages, traces, reviews)
    BY <1>1, <2>1, <2>2, TablesEnd
  <2> QED
    BY <1>2, <2>3
<1>4. ASSUME NEW t \in Turns PROVE StreamOK(t, turns'[t], wire'[t], bubbles, messages)
  <2> DEFINE end == <<Event("end", 0)>>
  <2>1. StreamOK(t, turns[t], wire[t], bubbles, messages) /\ wire[t] \in Wire
    BY <1>1 DEF StreamsOK, StreamOK
  <2>2. ~Early(EndedTurn) /\ ~Late(EndedTurn)
    BY DEF Early, Late, EndedTurn
  <2>3. Event("end", 0) \in Item /\ Event("end", 0).type = "end"
    BY DEF Event, Item
  <2>4. CASE wire[t].state = "unsent"
    BY <1>2, <2>1, <2>4 DEF StreamOK
  <2>5. CASE wire[t].state = "sent"
    <3> DEFINE w == [wire[t] EXCEPT !.state = "open", !.events = @ \o end]
    <3>1. wire'[t] = w /\ turns'[t] = EndedTurn
      BY <1>2, <2>5
    <3>2. wire[t].events = <<>> /\ wire[t].got = 0 /\ Blank(t, bubbles)
      BY <2>1, <2>5 DEF StreamOK
    <3>3. end \in Seq(Item) /\ <<>> \o end = end
      BY <2>3, ConcatEmptySeq
    <3>4. w \in Wire /\ w.state = "open" /\ w.events = end /\ w.got = 0
      BY <2>1, <3>2, <3>3 DEF Wire
    <3> HIDE DEF w
    <3>5. Flows(t, EndedTurn, w, bubbles, messages)
      BY <2>2, <2>3, <3>2, <3>4 DEF Flows, Full
    <3> QED
      BY <3>1, <3>4, <3>5 DEF StreamOK
  <2>6. CASE wire[t].state = "open" /\ turns[t].pc # "ended"
    <3>1. wire'[t] = Written(wire[t], end) /\ turns'[t] = EndedTurn
      <4>1. [wire[t] EXCEPT !.state = "open", !.events = @ \o end] = [wire[t] EXCEPT !.events = @ \o end]
        BY <2>1, <2>6 DEF Wire
      <4> QED
        BY <1>2, <2>6, <4>1 DEF Written
    <3>2. Says(turns[t], EndedTurn, end, messages)
      BY <2>2, Lines
    <3>3. CASE turns[t] # NoTurn
      BY <2>1, <3>1, <3>2, <3>3, StreamWrite
    <3>4. CASE turns[t] = NoTurn
      <4>1. StreamOK(t, EndedTurn, wire[t], bubbles, messages)
        <5>1. Flows(t, turns[t], wire[t], bubbles, messages)
          BY <2>1, <2>6 DEF StreamOK
        <5>2. Flows(t, EndedTurn, wire[t], bubbles, messages)
          BY <2>2, <5>1 DEF Flows
        <5> QED
          BY <2>1, <2>6, <5>2 DEF StreamOK
      <4>2. Says(EndedTurn, EndedTurn, end, messages) /\ EndedTurn # NoTurn
        BY <2>2, Lines DEF EndedTurn, NoTurn
      <4> QED
        BY <3>1, <4>1, <4>2, StreamWrite
    <3> QED
      BY <3>3, <3>4
  <2>7. CASE wire[t].state \notin {"unsent", "sent"} /\ ~(wire[t].state = "open" /\ turns[t].pc # "ended")
    <3>1. wire'[t] = wire[t] /\ turns'[t] = EndedTurn
      BY <1>2, <2>7
    <3>2. CASE wire[t].state # "open"
      BY <2>1, <2>7, <3>1, <3>2 DEF StreamOK
    <3>3. CASE wire[t].state = "open"
      <4>1. Flows(t, turns[t], wire[t], bubbles, messages)
        BY <2>1, <3>3 DEF StreamOK
      <4>2. Flows(t, EndedTurn, wire[t], bubbles, messages)
        BY <2>2, <4>1 DEF Flows
      <4> QED
        BY <2>1, <3>1, <3>3, <4>2 DEF StreamOK
    <3> QED
      BY <3>2, <3>3
  <2> QED
    BY <2>4, <2>5, <2>6, <2>7
<1>5. StreamsOK'
  <2>1. \A t \in Turns : wire'[t] \in Wire
    BY <1>4 DEF StreamOK
  <2>2. wire' \in [Turns -> Wire]
    BY <1>2, <2>1
  <2> QED
    BY <1>2, <1>4, <2>2 DEF StreamsOK
<1>6. SessionsOK'
  <2>1. rare' \in 0..MaxRare /\ up' \in BOOLEAN
    <3>1. rare \in 0..MaxRare /\ rare < MaxRare /\ rare' = rare + 1 /\ up' = FALSE
      BY <1>0, <1>1 DEF Crash, Rarely, SessionsOK
    <3>2. rare' \in 0..MaxRare
      BY <3>1, ChatAssumption
    <3> QED
      BY <3>1, <3>2
  <2> QED
    BY <1>1, <1>2, <2>1 DEF SessionsOK
<1>7. ViewOK' /\ BubblesOK(bubbles', messages')
  BY <1>1, <1>2 DEF ViewOK
<1>8. LookupsOK(lookups', messages')
  <2>1. lookups' = [t \in Turns |-> IF lookups[t].pc = "looking" THEN NoLookup ELSE lookups[t]]
    BY DEF CrashAll
  <2>2. NoLookup \in Lookup /\ NoLookup.pc = "none"
    BY DEF NoLookup, Lookup, SessionId
  <2> QED
    BY <1>1, <1>2, <2>1, <2>2 DEF LookupsOK
<1> QED
  BY <1>3, <1>5, <1>6, <1>7, <1>8 DEF IInv

-----------------------------------------------------------------------------
(* The steps of an order's card.                                           *)

\* Only what a card has asked for changes.
LEMMA CardStep ==
  ASSUME IInv, LookupsOK(lookups', messages), UNCHANGED <<serverVars, view, bubbles, closing, opening>>
  PROVE  IInv'
<1>1. SessionsOK /\ ViewOK /\ BubblesOK(bubbles, messages)
  BY DEF IInv
<1>2. SessionsOK' /\ ViewOK' /\ UNCHANGED <<messages, traces, reviews, turns, wire>>
  BY <1>1 DEF SessionsOK, ViewOK, serverVars
<1> QED
  BY <1>1, <1>2, ViewStep

LEMMA LookupParts ==
  ASSUME IInv, NEW t \in Turns
  PROVE  /\ LookupsOK(lookups, messages) /\ lookups[t] \in Lookup
         /\ lookups[t].pc # "none" => lookups[t].session \in Sessions
         /\ lookups[t].pc = "saved" => Stored(messages, lookups[t].message)
<1>1. LookupsOK(lookups, messages)
  BY DEF IInv
<1> QED
  BY <1>1 DEF LookupsOK

\* One lookup becomes another.
LEMMA LookupsChanged ==
  ASSUME NEW ls, NEW ms, LookupsOK(ls, ms), NEW t \in Turns, NEW l \in Lookup,
         l.pc # "none" => l.session \in Sessions, l.pc = "saved" => Stored(ms, l.message),
         NEW ks, ks = [ls EXCEPT ![t] = l]
  PROVE  LookupsOK(ks, ms)
<1>1. ls \in [Turns -> Lookup]
  BY DEF LookupsOK
<1>2. ks \in [Turns -> Lookup] /\ \A u \in Turns : ks[u] = IF u = t THEN l ELSE ls[u]
  BY <1>1
<1> QED
  BY <1>2 DEF LookupsOK

LEMMA LookupEnds ==
  ASSUME NEW ls, NEW ms, LookupsOK(ls, ms), NEW t \in Turns
  PROVE  LookupsOK([ls EXCEPT ![t] = NoLookup], ms)
<1>1. NoLookup \in Lookup /\ NoLookup.pc = "none"
  BY DEF NoLookup, Lookup, SessionId
<1> QED
  BY <1>1, LookupsChanged

LEMMA AskLookupOK == ASSUME IInv, NEW b \in bubbles, AskLookup(b) PROVE IInv'
<1> DEFINE l == [pc |-> "asked", session |-> view.session, message |-> 0]
<1>1. b.turn \in Turns /\ view.session \in Sessions /\ LookupsOK(lookups, messages)
  BY DEF IInv, BubblesOK, ViewOK, AskLookup, Bubble, SessionId
<1>2. l \in Lookup /\ l.pc = "asked" /\ l.session \in Sessions
  BY <1>1 DEF Lookup, SessionId
<1>3. lookups' = [lookups EXCEPT ![b.turn] = l] /\ UNCHANGED <<serverVars, view, bubbles, closing, opening>>
  BY DEF AskLookup
<1> HIDE DEF l
<1>4. LookupsOK([lookups EXCEPT ![b.turn] = l], messages)
  BY <1>1, <1>2, LookupsChanged
<1> QED
  BY <1>3, <1>4, CardStep

LEMMA StartLookupOK == ASSUME IInv, NEW t \in Turns, StartLookup(t) PROVE IInv'
<1> DEFINE l == [lookups[t] EXCEPT !.pc = "looking"]
<1>1. LookupsOK(lookups, messages) /\ lookups[t] \in Lookup /\ lookups[t].session \in Sessions
  BY LookupParts DEF StartLookup
<1>2. l \in Lookup /\ l.pc = "looking" /\ l.session \in Sessions
  BY <1>1 DEF Lookup
<1>3. lookups' = [lookups EXCEPT ![t] = l] /\ UNCHANGED <<serverVars, view, bubbles, closing, opening>>
  BY <1>1 DEF StartLookup, LookupsOK
<1> HIDE DEF l
<1>4. LookupsOK([lookups EXCEPT ![t] = l], messages)
  BY <1>1, <1>2, LookupsChanged
<1> QED
  BY <1>3, <1>4, CardStep

LEMMA FailLookupOK == ASSUME IInv, NEW t \in Turns, FailLookup(t) PROVE IInv'
<1>1. LookupsOK([lookups EXCEPT ![t] = NoLookup], messages)
  BY LookupEnds DEF IInv
<1> QED
  BY <1>1, CardStep DEF FailLookup

LEMMA UnsafeLookupOK == ASSUME IInv, NEW t \in Turns, UnsafeLookup(t) PROVE IInv'
<1>1. /\ SessionsOK /\ ViewOK /\ BubblesOK(bubbles, messages) /\ LookupsOK(lookups, messages)
      /\ lookups[t].session \in Sessions
  BY LookupParts DEF IInv, UnsafeLookup
<1>2. LookupsOK([lookups EXCEPT ![t] = NoLookup], messages)
  BY <1>1, LookupEnds
<1>3. SessionsOK'
  <2>1. /\ sessions' = Life!UpdateStatus(sessions, lookups[t].session, "escalated", "none")
        /\ handoffs' = handoffs \cup {lookups[t].session} /\ UNCHANGED <<up, rare>>
    BY DEF UnsafeLookup, Life!PersistEscalation
  <2>2. sessions' \in [Sessions -> Life!Session]
    BY <1>1, <2>1, SessionOps DEF SessionsOK
  <2> QED
    BY <1>1, <2>1, <2>2 DEF SessionsOK
<1>4. ViewOK'
  BY <1>1 DEF UnsafeLookup, ViewOK
<1> QED
  BY <1>1, <1>2, <1>3, <1>4, ViewStep DEF UnsafeLookup

\* The card that becomes the result's shows a stored row.
LEMMA ShowLookupOK == ASSUME IInv, NEW t \in Turns, ShowLookup(t) PROVE IInv'
<1>1. /\ SessionsOK /\ ViewOK /\ BubblesOK(bubbles, messages) /\ LookupsOK(lookups, messages)
      /\ Stored(messages, lookups[t].message) /\ lookups[t].message \in Ids \cup {0}
  BY LookupParts DEF IInv, ShowLookup, Lookup
<1>2. LookupsOK([lookups EXCEPT ![t] = NoLookup], messages)
  BY <1>1, LookupEnds
<1>3. SessionsOK' /\ ViewOK' /\ UNCHANGED <<messages, traces, reviews, turns, wire>>
  BY <1>1 DEF ShowLookup, SessionsOK, ViewOK, serverVars
<1>4. ASSUME NEW b \in bubbles'
      PROVE  /\ b \in Bubble /\ (b.live => b \in bubbles) /\ (b.live => b.turn # 0)
             /\ Complete(b) => Stored(messages, b.message) /\ b.text \in Full
  <2>1. PICK c \in bubbles :
          b = IF c.turn = t /\ Complete(c) THEN [c EXCEPT !.message = lookups[t].message] ELSE c
    BY <1>4 DEF ShowLookup
  <2>2. c \in Bubble /\ (c.live => c.turn # 0) /\ (Complete(c) => Stored(messages, c.message) /\ c.text \in Full)
    BY <1>1 DEF BubblesOK
  <2>3. CASE c.turn = t /\ Complete(c)
    <3>1. /\ b \in Bubble /\ b.live = c.live /\ b.text = c.text /\ b.turn = c.turn
          /\ b.message = lookups[t].message
      BY <1>1, <2>1, <2>2, <2>3 DEF Bubble
    <3> QED
      BY <1>1, <2>2, <2>3, <3>1 DEF Complete
  <2>4. CASE ~(c.turn = t /\ Complete(c))
    BY <2>1, <2>2, <2>4
  <2> QED
    BY <2>3, <2>4
<1>5. BubblesOK(bubbles', messages)
  BY <1>4 DEF BubblesOK
<1>6. LookupsOK(lookups', messages)
  BY <1>2 DEF ShowLookup
<1> QED
  BY <1>3, <1>4, <1>5, <1>6, ViewStep

\* A result is one more row, nobody's question and nobody's reply.
LEMMA SaveLookupOK == ASSUME IInv, NEW t \in Turns, SaveLookup(t) PROVE IInv'
<1> DEFINE row == Row(lookups[t].session, "assistant", 0, "result", FALSE)
           l == [lookups[t] EXCEPT !.pc = "saved", !.message = NextId]
           n == NextId
<1>1. /\ TablesOK(turns, messages, traces, reviews) /\ StreamsOK /\ BubblesOK(bubbles, messages)
      /\ ViewOK /\ SessionsOK /\ LookupsOK(lookups, messages)
      /\ lookups[t] \in Lookup /\ lookups[t].session \in Sessions
  BY LookupParts DEF IInv, SaveLookup
<1>2. /\ row \in Message /\ row.to = 0 /\ row.role = "assistant" /\ row.rating = "none"
      /\ row.mode = "result"
  BY <1>1 DEF Row, Message
<1>3. messages \in Seq(Message) /\ Len(messages) \in Nat
  BY <1>1, TableIds
<1>4. /\ messages' = Append(messages, row) /\ Cardinality(Results(messages)) < MaxLookups
      /\ sessions' = Life!Touch(sessions, lookups[t].session)
      /\ lookups' = [lookups EXCEPT ![t] = l]
      /\ UNCHANGED <<up, handoffs, traces, reviews, turns, wire, rare, view, bubbles, closing, opening>>
  BY <1>1 DEF SaveLookup, LookupsOK
<1>5. Added(messages, n, row, messages') /\ Kept(messages, messages')
  BY <1>2, <1>3, <1>4, NewRow DEF NextId
<1> HIDE DEF row, n
<1>6. TablesOK(turns, messages', traces, reviews) /\ n \in Ids
  BY <1>1, <1>2, <1>4, <1>5, TablesResult
<1>7. Stored(messages', n) /\ Len(messages') >= Len(messages) /\ Len(messages') \in Nat
  BY <1>2, <1>3, <1>5 DEF Added, Stored
<1>8. LookupsOK(lookups', messages')
  <2>1. l \in Lookup /\ l.pc = "saved" /\ l.message = n /\ l.session \in Sessions
    BY <1>1, <1>6 DEF Lookup, n
  <2>2. LookupsOK(lookups, messages')
    BY <1>1, <1>5, LookupsKept
  <2> HIDE DEF l
  <2> QED
    BY <1>4, <1>7, <2>1, <2>2, LookupsChanged
<1>9. StreamsOK'
  <2>1. ASSUME NEW u \in Turns PROVE StreamOK(u, turns[u], wire[u], bubbles, messages')
    BY <1>1, <1>5, StreamKept DEF StreamsOK
  <2> QED
    BY <1>1, <1>4, <2>1 DEF StreamsOK
<1>10. BubblesOK(bubbles', messages')
  BY <1>1, <1>4, <1>5 DEF BubblesOK, Stored, Kept
<1>11. ViewOK'
  BY <1>1, <1>3, <1>4, <1>7 DEF ViewOK
<1>12. SessionsOK'
  BY <1>1, <1>4, SessionOps DEF SessionsOK
<1>13. TablesOK(turns', messages', traces', reviews')
  BY <1>4, <1>6
<1> QED
  BY <1>8, <1>9, <1>10, <1>11, <1>12, <1>13 DEF IInv

-----------------------------------------------------------------------------
(* The theorems.                                                           *)

LEMMA InitOK == Init => IInv
<1> SUFFICES ASSUME Init PROVE IInv
  OBVIOUS
<1>1. /\ turns = [t \in Turns |-> NoTurn] /\ wire = [t \in Turns |-> Unsent]
      /\ messages = <<>> /\ traces = {} /\ reviews = [u \in Ids |-> NoReview] /\ rare = 0
      /\ up = TRUE /\ handoffs = {} /\ bubbles = {} /\ view = Empty /\ closing = "none"
      /\ opening = NoRequest /\ lookups = [t \in Turns |-> NoLookup]
      /\ sessions = [s \in Sessions |-> [status |-> "absent", reason |-> "none", idle |-> FALSE]]
  BY DEF Init, ServerInit
<1>2. messages \in Seq(Message) /\ Len(messages) = 0 /\ DOMAIN messages = {}
  <2>1. <<>> \in Seq(Message) /\ Len(<<>>) = 0
    BY EmptySeq
  <2>2. DOMAIN messages = 1..0
    BY <1>1, <2>1, LenProperties
  <2> QED
    BY <1>1, <2>1, <2>2
<1>3. TablesOK(turns, messages, traces, reviews)
  <2>1. \A t \in Turns : turns[t] = NoTurn /\ ~Working(turns[t]) /\ HandlerOK(turns[t])
    BY <1>1 DEF Working, HandlerOK, NoTurn
  <2>2. MessagesOK(messages) /\ TracesOK(traces, messages)
    BY <1>1, <1>2 DEF MessagesOK, TracesOK
  <2>3. ReviewsOK(reviews, messages)
    BY <1>1, <1>2 DEF ReviewsOK, NoReview
  <2>4. /\ Len(messages) <= Cardinality(Started(turns)) + Cardinality(Finished(turns))
                               + Cardinality(Results(messages))
        /\ Cardinality(Results(messages)) \in 0..MaxLookups
    <3>1. Started(turns) \in SUBSET Turns /\ Finished(turns) \in SUBSET Turns
      BY DEF Started, Finished
    <3>2. Cardinality(Started(turns)) \in Nat /\ Cardinality(Finished(turns)) \in Nat
      BY <3>1, Counts
    <3>3. Results(messages) = {}
      BY <1>2 DEF Results
    <3>4. Cardinality(Results(messages)) = 0
      BY <3>3, FS_EmptySet
    <3> QED
      BY <1>2, <3>2, <3>4, ChatAssumption
  <2>5. turns \in [Turns -> {NoTurn, EndedTurn} \cup LiveTurn]
    BY <1>1
  <2>6. \A t \in Turns : Asked(turns[t], messages, traces)
    BY <2>1 DEF Asked
  <2> QED
    BY <2>1, <2>2, <2>3, <2>4, <2>5, <2>6 DEF TablesOK
<1>4. StreamsOK
  <2>1. Unsent \in Wire /\ Unsent.state = "unsent" /\ Unsent.events = <<>> /\ Unsent.got = 0
    <3>1. <<>> \in Seq(Item)
      BY EmptySeq
    <3> QED
      BY <3>1 DEF Unsent, Wire, SessionId
  <2>2. \A t \in Turns : StreamOK(t, turns[t], wire[t], bubbles, messages)
    BY <1>1, <2>1 DEF StreamOK, Blank
  <2> QED
    BY <1>1, <2>1, <2>2 DEF StreamsOK
<1>5. BubblesOK(bubbles, messages)
  BY <1>1 DEF BubblesOK
<1>6. ViewOK
  BY <1>1, <1>2 DEF ViewOK, Empty, NoRequest, SessionId
<1>7. SessionsOK
  <2>1. rare \in 0..MaxRare
    BY <1>1, ChatAssumption
  <2>2. sessions \in [Sessions -> Life!Session]
    BY <1>1 DEF Life!Session
  <2> QED
    BY <1>1, <2>1, <2>2 DEF SessionsOK
<1>8. LookupsOK(lookups, messages)
  BY <1>1 DEF LookupsOK, Lookup, NoLookup, SessionId
<1> QED
  BY <1>3, <1>4, <1>5, <1>6, <1>7, <1>8 DEF IInv

LEMMA NextOK == IInv /\ [Next]_vars => IInv'
<1> SUFFICES ASSUME IInv, [Next]_vars PROVE IInv'
  OBVIOUS
<1>1. CASE UNCHANGED vars
  <2>1. UNCHANGED <<up, sessions, handoffs, messages, traces, reviews, turns, wire, rare>>
        /\ UNCHANGED <<view, bubbles, closing, opening, lookups>>
    BY <1>1 DEF vars, serverVars, clientVars
  <2>2. SessionsOK /\ ViewOK /\ BubblesOK(bubbles, messages) /\ LookupsOK(lookups, messages)
    BY DEF IInv
  <2>3. SessionsOK' /\ ViewOK' /\ BubblesOK(bubbles', messages) /\ LookupsOK(lookups', messages)
    BY <2>1, <2>2 DEF SessionsOK, ViewOK
  <2>4. \A b \in bubbles' : b.live => b \in bubbles
    BY <2>1
  <2> QED
    BY <2>1, <2>3, <2>4, ViewStep
<1>2. ASSUME NEW t \in Turns, Send(t) \/ Serve(t) \/ Drop(t) \/ Deliver(t) PROVE IInv'
  BY <1>2, SendOK, HandleOK, DropOK, DeliverOK
<1>3. CASE NewChat \/ Closed \/ Opened
  BY <1>3, NewChatOK, ClosedOK, OpenedOK
<1>4. ASSUME NEW s \in Sessions, Open(s) PROVE IInv'
  BY <1>4, OpenOK
<1>5. ASSUME NEW b \in bubbles, NEW r \in {"low", "high"}, Rate(b, r) PROVE IInv'
  BY <1>5, RateOK
<1>6. ASSUME NEW s \in Sessions, GrowIdle(s) /\ UNCHANGED clientVars PROVE IInv'
  BY <1>6, GrowIdleOK
<1>7. CASE CrashAll \/ Restart
  BY <1>7, CrashOK, RestartOK
<1>8. ASSUME NEW b \in bubbles, AskLookup(b) PROVE IInv'
  BY <1>8, AskLookupOK
<1>9. ASSUME NEW t \in Turns,
             StartLookup(t) \/ SaveLookup(t) \/ UnsafeLookup(t) \/ FailLookup(t) \/ ShowLookup(t)
      PROVE  IInv'
  BY <1>9, StartLookupOK, SaveLookupOK, UnsafeLookupOK, FailLookupOK, ShowLookupOK
<1> QED
  BY <1>1, <1>2, <1>3, <1>4, <1>5, <1>6, <1>7, <1>8, <1>9 DEF Next

\* The inductive invariant of the chat holds in every reachable state.
THEOREM Invariant == Spec => []IInv
BY InitOK, NextOK, PTL DEF Spec

LEMMA IInvParts ==
  ASSUME IInv PROVE TraceTellsOutcome /\ RatingReachesReview /\ ShownAnswersAreStored
<1>1. /\ TracesOK(traces, messages) /\ ReviewsOK(reviews, messages) /\ BubblesOK(bubbles, messages)
  BY DEF IInv, TablesOK
<1>2. TraceTellsOutcome
  BY <1>1 DEF TracesOK, TraceTellsOutcome
<1>3. RatingReachesReview
  <2>1. ASSUME NEW m \in DOMAIN messages, messages[m].rating # "none"
        PROVE  \E q \in DOMAIN messages : m \in Rated(messages, q) /\ Settled(reviews, messages, q)
    <3>1. PICK q \in DOMAIN messages : Answers(messages, m, q)
      BY <1>1, <2>1 DEF ReviewsOK
    <3>2. m \in Rated(messages, q)
      BY <2>1, <3>1 DEF Rated
    <3> QED
      BY <1>1, <3>2 DEF ReviewsOK
  <2> QED
    BY <2>1 DEF Settled, RatingReachesReview
<1>4. ShownAnswersAreStored
  BY <1>1 DEF BubblesOK, ShownAnswersAreStored, Stored, Full
<1> QED
  BY <1>2, <1>3, <1>4

\* A trace names the reply of its question, and a trace that names none stands
\* for a question that is never answered.
THEOREM TraceTheorem == Spec => []TraceTellsOutcome
BY Invariant, IInvParts, PTL

\* A low rating always reaches the reviewers, and a review shows the rating of a
\* reply to its question; two replies share one only where a lookup's result,
\* which names none, falls to the last question before it.
THEOREM RatingTheorem == Spec => []RatingReachesReview
BY Invariant, IInvParts, PTL

\* What the screen shows as an answer is stored, and is there as a whole.
THEOREM ShownTheorem == Spec => []ShownAnswersAreStored
BY Invariant, IInvParts, PTL

-----------------------------------------------------------------------------
(* The conversations' life cycle.                                          *)

\* What the life cycle sees of a handler.
Seen(turn) ==
    CASE turn.pc \in {"ordering", "refusing", "classifying", "generating"} ->
           [pc |-> "answering", session |-> turn.session, answered |-> FALSE]
      [] turn.pc = "preparing" ->
           [pc |-> "preparing", session |-> turn.session, answered |-> turn.mode # "empty"]
      [] OTHER -> NoTurn

LEMMA SeenTurns ==
  /\ LifeTurns = [t \in Turns |-> Seen(turns[t])]
  /\ LifeTurns' = [t \in Turns |-> Seen(turns'[t])]
BY DEF LifeTurns, Seen

LEMMA SeenAs ==
  ASSUME NEW turn
  PROVE  /\ turn.pc \in {"none", "ended"} => Seen(turn) = NoTurn
         /\ turn.pc \in {"ordering", "refusing", "classifying", "generating"} =>
              Seen(turn) = [pc |-> "answering", session |-> turn.session, answered |-> FALSE]
         /\ turn.pc = "preparing" =>
              Seen(turn) = [pc |-> "preparing", session |-> turn.session, answered |-> turn.mode # "empty"]
  BY DEF Seen

\* The abstract step of a handler that becomes next.
LEMMA SeenStep ==
  ASSUME IInv, NEW t \in Turns, NEW next, turns' = [turns EXCEPT ![t] = next]
  PROVE  /\ LifeTurns[t] = Seen(turns[t])
         /\ LifeTurns' = [LifeTurns EXCEPT ![t] = Seen(next)]
         /\ Seen(next) = Seen(turns[t]) => LifeTurns' = LifeTurns
<1>1. DOMAIN turns = Turns
  BY DEF IInv, TablesOK
<1>2. \A u \in Turns : turns'[u] = IF u = t THEN next ELSE turns[u]
  BY <1>1
<1> QED
  BY <1>2, SeenTurns

\* A handler that answers ends: Conversation's Reply, or its FailTurn.
LEMMA SeenEnds ==
  ASSUME IInv, NEW t \in Turns, Working(turns[t]), End(t)
  PROVE  LifeTurns' = [LifeTurns EXCEPT ![t] = NoTurn]
<1>1. turns' = [turns EXCEPT ![t] = EndedTurn]
  BY DEF End, EndedTurn
<1>2. Seen(EndedTurn) = NoTurn
  BY SeenAs DEF EndedTurn
<1> QED
  BY <1>1, <1>2, SeenStep

LEMMA SeenWorking ==
  ASSUME IInv, NEW t \in Turns, Working(turns[t])
  PROVE  /\ LifeTurns[t].session = turns[t].session
         /\ turns[t].pc = "preparing" => LifeTurns[t].pc = "preparing"
         /\ turns[t].pc # "preparing" =>
              LifeTurns[t] = [pc |-> "answering", session |-> turns[t].session, answered |-> FALSE]
         /\ LifeTurns[t].pc # "none"
<1>1. LifeTurns[t] = Seen(turns[t])
  BY SeenTurns
<1>2. turns[t].pc \in {"ordering", "refusing", "classifying", "generating", "preparing"}
  BY WorkingTurn DEF LiveTurn, Awaiting
<1>3. CASE turns[t].pc = "preparing"
  <2>1. Seen(turns[t]) = [pc |-> "preparing", session |-> turns[t].session,
                          answered |-> turns[t].mode # "empty"]
    BY <1>3, SeenAs
  <2> QED
    BY <1>1, <1>3, <2>1
<1>4. CASE turns[t].pc \in {"ordering", "refusing", "classifying", "generating"}
  <2>1. Seen(turns[t]) = [pc |-> "answering", session |-> turns[t].session, answered |-> FALSE]
    BY <1>4, SeenAs
  <2> QED
    BY <1>1, <1>4, <2>1
<1> QED
  BY <1>2, <1>3, <1>4

LEMMA RepliesLife ==
  ASSUME IInv, NEW t \in Turns, Working(turns[t]), turns[t].pc # "preparing", End(t),
         sessions' = Life!Touch(sessions, turns[t].session), UNCHANGED <<up, handoffs>>
  PROVE  Life!Reply(t)
<1>1. LifeTurns[t].pc = "answering" /\ LifeTurns[t].session = turns[t].session
  <2>1. LifeTurns[t] = [pc |-> "answering", session |-> turns[t].session, answered |-> FALSE]
    BY SeenWorking
  <2> QED
    BY <2>1
<1>2. LifeTurns' = [LifeTurns EXCEPT ![t] = NoTurn]
  BY SeenEnds
<1> QED
  BY <1>1, <1>2 DEF Life!Reply, Life!NoTurn, NoTurn

LEMMA FailsLife ==
  ASSUME IInv, NEW t \in Turns, Working(turns[t]), End(t), UNCHANGED <<up, sessions, handoffs>>
  PROVE  Life!FailTurn(t)
<1>1. LifeTurns[t].pc # "none"
  BY SeenWorking
<1>2. LifeTurns' = [LifeTurns EXCEPT ![t] = NoTurn]
  BY SeenEnds
<1> QED
  BY <1>1, <1>2 DEF Life!FailTurn, Life!NoTurn, NoTurn

LEMMA ExceptTwice ==
  ASSUME NEW S, NEW V, NEW f \in [S -> V], NEW t \in S, NEW session,
         f[t] = [pc |-> "answering", session |-> session, answered |-> FALSE], NEW answered
  PROVE  [f EXCEPT ![t].pc = "preparing", ![t].answered = answered]
           = [f EXCEPT ![t] = [pc |-> "preparing", session |-> session, answered |-> answered]]
<1> DEFINE q == [[f[t] EXCEPT !.pc = "preparing"] EXCEPT !.answered = answered]
<1>1. [f EXCEPT ![t].pc = "preparing", ![t].answered = answered] = [f EXCEPT ![t] = q]
  OBVIOUS
<1>2. q = [pc |-> "preparing", session |-> session, answered |-> answered]
  <2>1. DOMAIN q = {"pc", "session", "answered"}
    OBVIOUS
  <2>2. q.pc = "preparing" /\ q.session = session /\ q.answered = answered
    OBVIOUS
  <2>3. q = [x \in DOMAIN q |-> q[x]]
    OBVIOUS
  <2> HIDE DEF q
  <2> QED
    BY <2>1, <2>2, <2>3
<1> QED
  BY <1>1, <1>2

LEMMA EscalatesLife ==
  ASSUME IInv, NEW t \in Turns, Working(turns[t]), turns[t].pc # "preparing",
         NEW mode \in {"canned", "generated", "empty"}, Become(t, "preparing", mode),
         UNCHANGED <<up, sessions, handoffs>>
  PROVE  Life!Escalate(t)
<1>1. PICK next \in LiveTurn : /\ turns' = [turns EXCEPT ![t] = next]
                               /\ next.session = turns[t].session
                               /\ next.pc = "preparing" /\ next.mode = mode
  BY BecomeNext
<1>2. LifeTurns[t] = [pc |-> "answering", session |-> turns[t].session, answered |-> FALSE]
  BY SeenWorking
<1>3. Seen(next) = [pc |-> "preparing", session |-> turns[t].session, answered |-> mode # "empty"]
  BY <1>1, SeenAs
<1>4. /\ LifeTurns' = [LifeTurns EXCEPT ![t] = Seen(next)]
      /\ LifeTurns \in [Turns -> {Seen(turns[u]) : u \in Turns}]
  BY <1>1, SeenStep, SeenTurns
<1>5. LifeTurns[t].pc = "answering" /\ UNCHANGED <<up, sessions, handoffs>>
  BY <1>2
<1>6. \E answered \in BOOLEAN :
         LifeTurns' = [LifeTurns EXCEPT ![t].pc = "preparing", ![t].answered = answered]
  <2> DEFINE To(answered) == [pc |-> "preparing", session |-> turns[t].session, answered |-> answered]
  <2>1. CASE mode = "empty"
    <3>1. Seen(next) = To(FALSE)
      BY <1>3, <2>1
    <3>2. [LifeTurns EXCEPT ![t].pc = "preparing", ![t].answered = FALSE] = [LifeTurns EXCEPT ![t] = To(FALSE)]
      BY ZenonT(60), <1>2, <1>4, ExceptTwice
    <3> QED
      BY <1>4, <3>1, <3>2
  <2>2. CASE mode # "empty"
    <3>1. Seen(next) = To(TRUE)
      BY <1>3, <2>2
    <3>2. [LifeTurns EXCEPT ![t].pc = "preparing", ![t].answered = TRUE] = [LifeTurns EXCEPT ![t] = To(TRUE)]
      BY ZenonT(60), <1>2, <1>4, ExceptTwice
    <3> QED
      BY <1>4, <3>1, <3>2
  <2> QED
    BY <2>1, <2>2
<1> QED
  BY <1>5, <1>6 DEF Life!Escalate

\* The handler goes on, and the life cycle sees nothing of it.
LEMMA GeneratesLife ==
  ASSUME IInv, NEW t \in Turns, turns[t].pc \in {"classifying", "generating"},
         NEW mode \in {"none", "shown"}, Become(t, "generating", mode)
  PROVE  LifeTurns' = LifeTurns
<1>1. Working(turns[t]) /\ turns[t].traced
  BY WorkingTurn DEF Working, HandlerOK
<1>2. PICK next \in LiveTurn : /\ turns' = [turns EXCEPT ![t] = next]
                               /\ next.session = turns[t].session /\ next.pc = "generating"
  BY <1>1, BecomeNext
<1>3. Seen(next) = Seen(turns[t])
  BY <1>2, SeenAs
<1> QED
  BY <1>2, <1>3, SeenStep

LEMMA ReceiveLife ==
  ASSUME IInv, NEW t \in Turns, Receive(t)
  PROVE  \E s \in Sessions : Life!StartTurn(t, s)
<1>1. turns[t] = NoTurn /\ up /\ UNCHANGED <<up, handoffs>>
  BY DEF IInv, StreamsOK, StreamOK, Receive
<1>2. PICK s \in Sessions, pc \in {"ordering", "refusing", "classifying"} :
        /\ Resolve(wire[t].named, s)
        /\ turns' = [turns EXCEPT ![t] = [pc |-> pc, session |-> s, user |-> NextId,
                                          mode |-> "none", traced |-> pc = "classifying"]]
  BY DEF Receive
<1> DEFINE next == [pc |-> pc, session |-> s, user |-> NextId, mode |-> "none",
                    traced |-> pc = "classifying"]
<1>3. next.pc = pc /\ next.session = s /\ turns' = [turns EXCEPT ![t] = next]
  BY <1>2
<1> HIDE DEF next
<1>4. Seen(next) = [pc |-> "answering", session |-> s, answered |-> FALSE]
  BY <1>3, SeenAs
<1>5. LifeTurns[t] = NoTurn
  BY <1>1, SeenTurns, SeenAs DEF NoTurn
<1>6. LifeTurns' = [LifeTurns EXCEPT ![t] = [pc |-> "answering", session |-> s, answered |-> FALSE]]
  BY ZenonT(60), <1>3, <1>4, SeenStep
<1>7. LET found == Life!ExpireInactive(sessions) IN
          \/ /\ Life!Resumable(found[s])
             /\ sessions' = Life!Touch(Life!Resumed(found, s), s)
          \/ /\ found[s].status = "absent"
             /\ sessions' = Life!UpdateStatus(found, s, "active", "none")
  BY <1>2 DEF Resolve
<1> QED
  BY <1>1, <1>5, <1>6, <1>7 DEF Life!StartTurn, Life!NoTurn, NoTurn

\* Each step of a handler is a step of the life cycle, or nothing to it.
LEMMA HandleLife ==
  ASSUME IInv, NEW t \in Turns, Handle(t)
  PROVE  LifeStep \/ UNCHANGED <<up, sessions, handoffs, LifeTurns>>
<1>1. CASE Refuse(t)
  <2>1. turns[t] = NoTurn /\ turns' = [turns EXCEPT ![t] = EndedTurn]
    BY <1>1 DEF IInv, StreamsOK, StreamOK, Refuse, End, EndedTurn
  <2>2. Seen(EndedTurn) = Seen(turns[t])
    BY <2>1, SeenAs DEF EndedTurn, NoTurn
  <2>3. LifeTurns' = LifeTurns
    BY <2>1, <2>2, SeenStep
  <2> QED
    BY <1>1, <2>3 DEF Refuse
<1>2. CASE Receive(t)
  BY <1>2, ReceiveLife DEF LifeStep, Life!ConvNext
<1>3. ASSUME Life!Reply(t) \/ Life!FailTurn(t) \/ Life!Escalate(t) \/ Life!HandOff(t) PROVE LifeStep
  BY <1>3 DEF LifeStep, Life!ConvNext
<1>4. CASE ReplyToOrder(t)
  <2>1. Working(turns[t]) /\ turns[t].pc # "preparing"
    BY <1>4 DEF ReplyToOrder, Working
  <2> QED
    BY <1>3, <1>4, <2>1, RepliesLife DEF ReplyToOrder
<1>5. CASE RefuseAction(t)
  <2>1. Working(turns[t]) /\ turns[t].pc # "preparing"
    BY <1>5 DEF RefuseAction, Working
  <2> QED
    BY <1>3, <1>5, <2>1, EscalatesLife DEF RefuseAction
<1>6. CASE Classified(t)
  <2>1. Working(turns[t]) /\ turns[t].pc # "preparing" /\ turns[t].pc = "classifying"
    BY <1>6 DEF Classified, Working
  <2>2. CASE /\ \E captured \in BOOLEAN : SaveAnswer(t, "canned", captured)
             /\ UNCHANGED <<up, handoffs>>
    BY <1>3, <2>1, <2>2, RepliesLife DEF SaveAnswer
  <2>3. CASE /\ Become(t, "preparing", "canned")
             /\ UNCHANGED <<up, sessions, handoffs, messages, traces, reviews, rare>>
    BY <1>3, <2>1, <2>3, EscalatesLife
  <2>4. CASE /\ Become(t, "generating", "none")
             /\ UNCHANGED <<up, sessions, handoffs, messages, traces, reviews, wire, rare>>
    BY <2>1, <2>4, GeneratesLife
  <2> QED
    BY <1>6, <2>2, <2>3, <2>4 DEF Classified
<1>7. CASE Stream(t)
  BY <1>7, GeneratesLife DEF Stream
<1>8. CASE StreamFails(t)
  <2>1. Working(turns[t])
    BY <1>8 DEF StreamFails, Working
  <2> QED
    BY <1>3, <1>8, <2>1, FailsLife DEF StreamFails
<1>9. CASE StreamEnds(t)
  <2>1. Working(turns[t]) /\ turns[t].pc # "preparing"
    BY <1>9 DEF StreamEnds, Working
  <2>2. CASE /\ \E captured \in BOOLEAN : SaveAnswer(t, "generated", captured)
             /\ UNCHANGED <<up, handoffs>>
    BY <1>3, <2>1, <2>2, RepliesLife DEF SaveAnswer
  <2>3. CASE /\ Become(t, "preparing", "generated") \/ Become(t, "preparing", "empty")
             /\ UNCHANGED <<up, sessions, handoffs, messages, traces, reviews, rare>>
    BY <1>3, <2>1, <2>3, EscalatesLife
  <2>4. CASE End(t) /\ UNCHANGED <<up, sessions, handoffs, messages, reviews>>
    BY <1>3, <2>1, <2>4, FailsLife
  <2> QED
    BY <1>9, <2>2, <2>3, <2>4 DEF StreamEnds
<1>10. CASE HandOff(t)
  <2>1. /\ Working(turns[t]) /\ turns[t].pc = "preparing" /\ End(t) /\ UNCHANGED up
        /\ Life!PersistEscalation(turns[t].session)
    BY <1>10 DEF HandOff, Working
  <2>2. LifeTurns[t].pc = "preparing" /\ LifeTurns[t].session = turns[t].session
    BY <2>1, SeenWorking
  <2>3. LifeTurns' = [LifeTurns EXCEPT ![t] = NoTurn]
    BY <2>1, SeenEnds
  <2>4. Life!HandOff(t)
    BY <2>1, <2>2, <2>3 DEF Life!HandOff, Life!NoTurn, NoTurn
  <2> QED
    BY <1>3, <2>4
<1>11. CASE Throw(t)
  <2>1. Working(turns[t])
    BY <1>11 DEF Throw, Working, Awaiting
  <2> QED
    BY <1>3, <1>11, <2>1, FailsLife DEF Throw
<1> QED
  BY <1>1, <1>2, <1>4, <1>5, <1>6, <1>7, <1>8, <1>9, <1>10, <1>11 DEF Handle

LEMMA NextLife ==
  ASSUME IInv, [Next]_vars
  PROVE  LifeStep \/ UNCHANGED <<up, sessions, handoffs, LifeTurns>>
<1>1. ASSUME UNCHANGED turns PROVE LifeTurns' = LifeTurns
  BY <1>1, SeenTurns
<1>2. CASE UNCHANGED vars
  BY <1>1, <1>2 DEF vars, serverVars
<1>3. ASSUME NEW t \in Turns, Serve(t)
      PROVE  LifeStep \/ UNCHANGED <<up, sessions, handoffs, LifeTurns>>
  BY <1>3, HandleLife DEF Serve
<1>4. ASSUME NEW t \in Turns, Send(t) \/ Drop(t) \/ Deliver(t)
      PROVE  UNCHANGED <<up, sessions, handoffs, LifeTurns>>
  BY <1>1, <1>4 DEF Send, Drop, Deliver
<1>5. CASE NewChat
  <2>1. view.session \in Sessions
    BY <1>5 DEF IInv, ViewOK, NewChat, SessionId
  <2> QED
    BY <1>1, <1>5, <2>1 DEF NewChat, LifeStep
<1>6. CASE Closed \/ Opened
  BY <1>1, <1>6 DEF Closed, Opened, serverVars
<1>7. ASSUME NEW s \in Sessions, Open(s) PROVE LifeStep
  <2>1. Life!Expire
    BY <1>1, <1>7 DEF Open, Life!Expire
  <2> QED
    BY <2>1 DEF LifeStep, Life!ConvNext
<1>8. ASSUME NEW b \in bubbles, NEW r \in {"low", "high"}, Rate(b, r)
      PROVE  UNCHANGED <<up, sessions, handoffs, LifeTurns>>
  BY <1>1, <1>8 DEF Rate
<1>9. ASSUME NEW s \in Sessions, GrowIdle(s) PROVE LifeStep
  <2>1. Life!GrowIdle(s)
    BY <1>1, <1>9 DEF GrowIdle, Life!GrowIdle
  <2> QED
    BY <2>1 DEF LifeStep, Life!ConvNext
<1>10. CASE CrashAll
  <2>1. up /\ up' = FALSE /\ UNCHANGED <<sessions, handoffs>>
    BY <1>10 DEF CrashAll, Crash
  <2> QED
    BY <2>1 DEF LifeStep
<1>11. CASE Restart
  <2>1. ~up /\ up' = TRUE /\ UNCHANGED <<sessions, handoffs>>
    BY <1>11 DEF Restart, Boot
  <2> QED
    BY <2>1 DEF LifeStep
<1>12. ASSUME NEW b \in bubbles, AskLookup(b) PROVE UNCHANGED <<up, sessions, handoffs, LifeTurns>>
  BY <1>1, <1>12 DEF AskLookup, serverVars
<1>13. ASSUME NEW t \in Turns, StartLookup(t) \/ FailLookup(t) \/ ShowLookup(t)
       PROVE  UNCHANGED <<up, sessions, handoffs, LifeTurns>>
  BY <1>1, <1>13 DEF StartLookup, FailLookup, ShowLookup, serverVars
<1>14. ASSUME NEW t \in Turns, SaveLookup(t) \/ UnsafeLookup(t) PROVE LifeStep
  <2>1. lookups[t].pc = "looking" /\ UNCHANGED <<up, LifeTurns>>
    BY <1>1, <1>14 DEF SaveLookup, UnsafeLookup
  <2>2. \/ sessions' = Life!Touch(sessions, lookups[t].session) /\ UNCHANGED handoffs
        \/ Life!PersistEscalation(lookups[t].session)
    BY <1>14 DEF SaveLookup, UnsafeLookup
  <2> QED
    BY <2>1, <2>2 DEF LifeStep, LookupStep
<1> QED
  BY <1>2, <1>3, <1>4, <1>5, <1>6, <1>7, <1>8, <1>9, <1>10, <1>11, <1>12, <1>13, <1>14 DEF Next

\* Every step of the chat is a step of the conversations' life cycle, a close,
\* what the end of a lookup does to them, a crash, a start, or nothing to it.
THEOREM LifeTheorem == Spec => LifeImplemented
<1>1. IInv /\ [Next]_vars => [LifeStep]_<<up, sessions, handoffs, LifeTurns>>
  BY NextLife
<1> QED
  BY <1>1, Invariant, PTL DEF Spec, LifeImplemented


-----------------------------------------------------------------------------
(* What the life cycle promises of sessions, the chat keeps.               *)

\* An escalated session is in the queue and a session has a reason only when
\* it is closed.
Claimed(ss, hs) == \A s \in Sessions : /\ ss[s].status = "escalated" <=> s \in hs
                                       /\ ss[s].reason = "user_closed" => ss[s].status = "closed"
Final(row, next) == row.reason = "user_closed" =>
    \/ next.status = "closed" /\ next.reason = "user_closed"
    \/ next.status = "escalated"

\* One session in one step: it stays, expires, is touched, resumed, made,
\* closed or handed off.
Moved(row, next) ==
    \/ next.status = row.status /\ next.reason = row.reason
    \/ row.status = "active" /\ next.status = "closed"
    \/ row.status # "escalated" /\ row.reason # "user_closed" /\
         next.status = "active" /\ next.reason # "user_closed"

LEMMA ExpireMoves ==
  ASSUME NEW ss \in [Sessions -> Life!Session], NEW s \in Sessions
  PROVE  /\ Life!ExpireInactive(ss) \in [Sessions -> Life!Session]
         /\ \/ Life!ExpireInactive(ss)[s] = ss[s]
            \/ /\ ss[s].status = "active" /\ Life!ExpireInactive(ss)[s].status = "closed"
               /\ Life!ExpireInactive(ss)[s].reason = "inactivity_timeout"
  BY DEF Life!ExpireInactive, Life!Session

LEMMA RowOps ==
  ASSUME NEW ss \in [Sessions -> Life!Session], NEW s \in Sessions
  PROVE  /\ \A r \in Sessions : /\ Life!Touch(ss, s)[r].status = ss[r].status
                                /\ Life!Touch(ss, s)[r].reason = ss[r].reason
         /\ \A r \in Sessions : Life!UpdateStatus(ss, s, "active", "none")[r] =
              IF r = s THEN [status |-> "active", reason |-> "none", idle |-> FALSE] ELSE ss[r]
  BY DEF Life!Touch, Life!UpdateStatus, Life!Session

\* A message never brings back a session that is escalated or was closed by
\* its customer.
LEMMA StartMoves ==
  ASSUME sessions \in [Sessions -> Life!Session], Claimed(sessions, handoffs),
         NEW t \in Turns, NEW s \in Sessions, Life!StartTurn(t, s)
  PROVE  \A r \in Sessions : Moved(sessions[r], sessions'[r])
<1> DEFINE found == Life!ExpireInactive(sessions)
<1>1. found \in [Sessions -> Life!Session]
  BY ExpireMoves
<1>2. \A r \in Sessions :
        \/ found[r] = sessions[r]
        \/ /\ sessions[r].status = "active" /\ found[r].status = "closed"
           /\ found[r].reason = "inactivity_timeout"
  BY ExpireMoves
<1>3. \A r \in Sessions : sessions[r].reason = "user_closed" => sessions[r].status = "closed"
  BY DEF Claimed
<1>4. \/ Life!Resumable(found[s]) /\ sessions' = Life!Touch(Life!Resumed(found, s), s)
      \/ found[s].status = "absent" /\ sessions' = Life!UpdateStatus(found, s, "active", "none")
  BY DEF Life!StartTurn, found
<1> HIDE DEF found
<1>5. CASE Life!Resumable(found[s]) /\ sessions' = Life!Touch(Life!Resumed(found, s), s)
  <2>1. CASE found[s].status = "active"
    <3>1. Life!Resumed(found, s) = found
      BY <2>1 DEF Life!Resumed
    <3>2. \A r \in Sessions : sessions'[r].status = found[r].status /\ sessions'[r].reason = found[r].reason
      BY <1>1, <1>5, <3>1, RowOps
    <3> QED
      BY <1>2, <3>2 DEF Moved
  <2>2. CASE found[s].status # "active"
    <3>1. Life!Resumed(found, s) = Life!UpdateStatus(found, s, "active", "none")
      BY <2>2 DEF Life!Resumed
    <3>2. Life!UpdateStatus(found, s, "active", "none") \in [Sessions -> Life!Session]
      BY <1>1 DEF Life!UpdateStatus, Life!Session
    <3>3. \A r \in Sessions : /\ sessions'[r].status = IF r = s THEN "active" ELSE found[r].status
                              /\ sessions'[r].reason = IF r = s THEN "none" ELSE found[r].reason
      BY <1>1, <1>5, <3>1, <3>2, RowOps
    <3>4. found[s].status = "closed" /\ found[s].reason = "inactivity_timeout"
      BY <1>5, <2>2 DEF Life!Resumable
    <3>5. sessions[s].status # "escalated" /\ sessions[s].reason # "user_closed"
      BY <1>2, <1>3, <3>4
    <3> QED
      BY <1>2, <3>3, <3>5 DEF Moved
  <2> QED
    BY <2>1, <2>2
<1>6. CASE found[s].status = "absent" /\ sessions' = Life!UpdateStatus(found, s, "active", "none")
  <2>1. \A r \in Sessions : /\ sessions'[r].status = IF r = s THEN "active" ELSE found[r].status
                            /\ sessions'[r].reason = IF r = s THEN "none" ELSE found[r].reason
    BY <1>1, <1>6, RowOps
  <2>2. sessions[s].status # "escalated" /\ sessions[s].reason # "user_closed"
    BY <1>2, <1>3, <1>6
  <2> QED
    BY <1>2, <2>1, <2>2 DEF Moved
<1> QED
  BY <1>4, <1>5, <1>6

\* Any step but a handoff moves sessions only so, and leaves the queue alone.
LEMMA MovedKeeps ==
  ASSUME Claimed(sessions, handoffs), handoffs' = handoffs,
         \A r \in Sessions : Moved(sessions[r], sessions'[r]),
         \A r \in Sessions : sessions[r].status = "active" => sessions[r].reason # "user_closed"
  PROVE  /\ Claimed(sessions', handoffs')
         /\ \A r \in Sessions : Final(sessions[r], sessions'[r])
  BY DEF Claimed, Final, Moved


\* A handoff puts its session into the queue, whatever became of it meanwhile.
LEMMA HandOffKeeps ==
  ASSUME sessions \in [Sessions -> Life!Session], Claimed(sessions, handoffs),
         NEW s \in Sessions, Life!PersistEscalation(s)
  PROVE  /\ Claimed(sessions', handoffs')
         /\ \A r \in Sessions : Final(sessions[r], sessions'[r])
<1>1. \A r \in Sessions : sessions'[r] =
        IF r = s THEN [status |-> "escalated", reason |-> "none", idle |-> FALSE] ELSE sessions[r]
  BY DEF Life!PersistEscalation, Life!UpdateStatus
<1>2. handoffs' = handoffs \cup {s}
  BY DEF Life!PersistEscalation
<1> SUFFICES ASSUME NEW r \in Sessions
             PROVE  /\ sessions'[r].status = "escalated" <=> r \in handoffs'
                    /\ sessions'[r].reason = "user_closed" => sessions'[r].status = "closed"
                    /\ Final(sessions[r], sessions'[r])
  BY DEF Claimed
<1>3. CASE r = s
  BY <1>1, <1>2, <1>3 DEF Final
<1>4. CASE r # s
  BY <1>1, <1>2, <1>4 DEF Claimed, Final
<1> QED
  BY <1>3, <1>4

LEMMA LifeKeeps ==
  ASSUME IInv, Claimed(sessions, handoffs), LifeStep
  PROVE  /\ Claimed(sessions', handoffs')
         /\ \A r \in Sessions : Final(sessions[r], sessions'[r])
<1>1. sessions \in [Sessions -> Life!Session]
  BY DEF IInv, SessionsOK
<1>2. \A r \in Sessions : sessions[r].status = "active" => sessions[r].reason # "user_closed"
  BY DEF Claimed
<1>3. \A t \in Turns : LifeTurns[t].pc # "none" => LifeTurns[t].session \in Sessions
  <2> TAKE t \in Turns
  <2>1. CASE Working(turns[t])
    BY <2>1, SeenWorking, WorkingTurn
  <2>2. CASE ~Working(turns[t])
    <3>1. LifeTurns[t] = NoTurn
      BY <2>2, SeenTurns, SeenAs DEF Working
    <3> QED
      BY <3>1 DEF NoTurn
  <2> QED
    BY <2>1, <2>2
<1>4. ASSUME handoffs' = handoffs, \A r \in Sessions : Moved(sessions[r], sessions'[r])
      PROVE  /\ Claimed(sessions', handoffs')
             /\ \A r \in Sessions : Final(sessions[r], sessions'[r])
  BY <1>2, <1>4, MovedKeeps
<1>5. ASSUME NEW t \in Turns, NEW s \in Sessions, Life!StartTurn(t, s)
      PROVE  handoffs' = handoffs /\ \A r \in Sessions : Moved(sessions[r], sessions'[r])
  <2>1. handoffs' = handoffs
    BY <1>5 DEF Life!StartTurn
  <2> QED
    BY <1>1, <1>5, <2>1, StartMoves
<1>6. ASSUME NEW t \in Turns, Life!Reply(t)
      PROVE  handoffs' = handoffs /\ \A r \in Sessions : Moved(sessions[r], sessions'[r])
  <2>1. LifeTurns[t].session \in Sessions
    BY <1>3, <1>6 DEF Life!Reply
  <2> QED
    BY <1>1, <1>6, <2>1, RowOps DEF Life!Reply, Moved
<1>7. ASSUME NEW t \in Turns, Life!FailTurn(t) \/ Life!Escalate(t)
      PROVE  handoffs' = handoffs /\ \A r \in Sessions : Moved(sessions[r], sessions'[r])
  BY <1>7 DEF Life!FailTurn, Life!Escalate, Moved
<1>8. ASSUME NEW t \in Turns, Life!HandOff(t)
      PROVE  /\ Claimed(sessions', handoffs')
             /\ \A r \in Sessions : Final(sessions[r], sessions'[r])
  <2>1. LifeTurns[t].session \in Sessions /\ Life!PersistEscalation(LifeTurns[t].session)
    BY <1>3, <1>8 DEF Life!HandOff
  <2> QED
    BY <1>1, <2>1, HandOffKeeps
<1>10. ASSUME NEW s \in Sessions, Life!GrowIdle(s)
      PROVE  handoffs' = handoffs /\ \A r \in Sessions : Moved(sessions[r], sessions'[r])
  <2>1. \A r \in Sessions : sessions'[r].status = sessions[r].status /\ sessions'[r].reason = sessions[r].reason
    BY <1>1, <1>10 DEF Life!GrowIdle, Life!Session
  <2> QED
    BY <1>10, <2>1 DEF Life!GrowIdle, Moved
<1>11. ASSUME NEW s \in Sessions, sessions' = Life!CloseUserSession(sessions, s)
      PROVE  \A r \in Sessions : Moved(sessions[r], sessions'[r])
  BY <1>1, <1>11 DEF Life!CloseUserSession, Life!UpdateStatus, Life!Session, Moved
<1>12. CASE UNCHANGED <<sessions, handoffs>>
  BY <1>12 DEF Claimed, Final
<1>13. CASE Life!ConvNext
  <2>1. CASE \E t \in Turns : Life!HandOff(t)
    BY <1>8, <2>1
  <2>2. CASE Life!Expire
    <3>1. handoffs' = handoffs
      BY <2>2 DEF Life!Expire
    <3>2. \A r \in Sessions : Moved(sessions[r], sessions'[r])
      BY <1>1, <2>2, ExpireMoves DEF Life!Expire, Moved
    <3> QED
      BY <1>4, <3>1, <3>2
  <2> QED
    BY <1>4, <1>5, <1>6, <1>7, <1>10, <1>13, <2>1, <2>2 DEF Life!ConvNext
<1>14. ASSUME NEW t \in Turns, lookups[t].pc = "looking", LookupStep(lookups[t].session)
       PROVE  /\ Claimed(sessions', handoffs')
              /\ \A r \in Sessions : Final(sessions[r], sessions'[r])
  <2>1. lookups[t].session \in Sessions
    BY <1>14, LookupParts
  <2>2. CASE sessions' = Life!Touch(sessions, lookups[t].session) /\ handoffs' = handoffs
    <3>1. \A r \in Sessions : Moved(sessions[r], sessions'[r])
      BY <1>1, <2>1, <2>2, RowOps DEF Moved
    <3> QED
      BY <1>4, <2>2, <3>1
  <2>3. CASE Life!PersistEscalation(lookups[t].session)
    BY <1>1, <2>1, <2>3, HandOffKeeps
  <2> QED
    BY <1>14, <2>2, <2>3 DEF LookupStep
<1> QED
  BY <1>4, <1>11, <1>12, <1>13, <1>14 DEF LifeStep

LEMMA SessionsKeep ==
  ASSUME IInv, Claimed(sessions, handoffs), [Next]_vars
  PROVE  /\ Claimed(sessions', handoffs')
         /\ \A r \in Sessions : Final(sessions[r], sessions'[r])
<1>1. CASE LifeStep
  BY <1>1, LifeKeeps
<1>2. CASE UNCHANGED <<up, sessions, handoffs, LifeTurns>>
  BY <1>2 DEF Claimed, Final
<1> QED
  BY <1>1, <1>2, NextLife

THEOREM ClaimTheorem == Spec => []Claimed(sessions, handoffs)
<1>1. Init => Claimed(sessions, handoffs)
  BY DEF Init, ServerInit, Claimed
<1>2. IInv /\ Claimed(sessions, handoffs) /\ [Next]_vars => Claimed(sessions, handoffs)'
  BY SessionsKeep
<1> QED
  BY <1>1, <1>2, Invariant, PTL DEF Spec

\* With every answer streaming, a session is escalated exactly when the handoff
\* queue has a row for it (saveMessageAndEscalate, resolveSessionForMessage).
THEOREM HandoffTheorem == Spec => []Life!HandoffIsVisible
<1>1. Claimed(sessions, handoffs) => Life!HandoffIsVisible
  BY DEF Claimed, Life!HandoffIsVisible
<1> QED
  BY <1>1, ClaimTheorem, PTL

\* A conversation the customer has closed from the page is never resumed by a
\* request still under way (closeUserSession, resolveSessionForMessage).
THEOREM CloseTheorem == Spec => Life!UserCloseIsFinal
<1>1. IInv /\ Claimed(sessions, handoffs) /\ [Next]_vars =>
        [\A s \in Sessions : sessions[s].reason = "user_closed" =>
            \/ sessions'[s].status = "closed" /\ sessions'[s].reason = "user_closed"
            \/ sessions'[s].status = "escalated"]_Life!convVars
  BY SessionsKeep DEF Final
<1> QED
  BY <1>1, ClaimTheorem, Invariant, PTL DEF Spec, Life!UserCloseIsFinal

\* Every table, stream and bubble has its type (routes/chat.ts, useChat.ts).
THEOREM TypeTheorem == Spec => []TypeOK
<1>1. IInv => TypeOK
  <2> SUFFICES ASSUME IInv PROVE TypeOK
    OBVIOUS
  <2>1. Life!ConvTypeOK
    <3>1. \A t \in Turns : Seen(turns[t]) \in Life!Turn
      <4> TAKE t \in Turns
      <4>1. CASE Working(turns[t])
        <5>1. turns[t].session \in Sessions
          BY <4>1, WorkingTurn
        <5>2. turns[t].pc \in {"ordering", "refusing", "classifying", "generating", "preparing"}
          BY <4>1, WorkingTurn DEF LiveTurn, Awaiting
        <5>3. CASE turns[t].pc = "preparing"
          <6>1. Seen(turns[t]) = [pc |-> "preparing", session |-> turns[t].session,
                                  answered |-> turns[t].mode # "empty"]
            BY <5>3, SeenAs
          <6> QED
            BY <5>1, <6>1 DEF Life!Turn
        <5>4. CASE turns[t].pc # "preparing"
          <6>1. Seen(turns[t]) = [pc |-> "answering", session |-> turns[t].session, answered |-> FALSE]
            BY <5>2, <5>4, SeenAs
          <6> QED
            BY <5>1, <6>1 DEF Life!Turn
        <5> QED
          BY <5>3, <5>4
      <4>2. CASE ~Working(turns[t])
        BY <4>2, SeenAs DEF Working, Life!Turn, Life!NoTurn, NoTurn
      <4> QED
        BY <4>1, <4>2
    <3> QED
      BY <3>1, SeenTurns DEF IInv, SessionsOK, Life!ConvTypeOK
  <2>2. /\ \A m \in DOMAIN messages : messages[m] \in Message
        /\ reviews \in [Ids -> {NoReview, "unrated", "low", "high"}]
    BY DEF IInv, TablesOK, MessagesOK, ReviewsOK
  <2>3. DOMAIN messages \subseteq Ids /\ Len(messages) \in Nat /\ DOMAIN messages = 1..Len(messages)
    BY TableIds DEF IInv
  <2>4. traces \subseteq [user : Ids, assistant : Ids \cup {0}]
    <3>1. \A trace \in traces : trace \in [user : DOMAIN messages, assistant : DOMAIN messages \cup {0}]
      BY DEF IInv, TablesOK, TracesOK
    <3> QED
      BY <2>3, <3>1
  <2>5. opening \in [session : SessionId, upto : Ids \cup {0}]
    BY <2>3 DEF IInv, ViewOK
  <2> QED
    BY <2>1, <2>2, <2>4, <2>5 DEF IInv, BubblesOK, ViewOK, SessionsOK, LookupsOK, TypeOK, ServerTypeOK
<1> QED
  BY <1>1, Invariant, PTL
=============================================================================
