--------------------------- MODULE DatabaseProofs ---------------------------
(* Proofs about the gate in front of the SQLite connection, for any calls and     *)
(* bounds: one transaction at a time, and the connection to itself from its first *)
(* statement on.  And about the upgrade of a file at every start, for any number  *)
(* of stops, failures, scans and returns: nothing the file held is stranded,      *)
(* what points at a finding follows it, every scan stays readable, and a finding  *)
(* keeps its age and the rows of its last complete scan.                          *)
EXTENDS SqliteGate, Startup, FiniteSetTheorems, SequenceTheorems, WellFoundedInduction, TLAPS

(* The gate *)

Items(q) == {q[i] : i \in DOMAIN q}

Once(q) == \A i, j \in DOMAIN q : q[i] = q[j] => i = j

\* What a transaction that has begun knows of the lock and of the connection.
Holder ==
    /\ OneInside
    /\ held = tx.by
    /\ held # Nobody => pc[held] \in Inside
    /\ \A c \in Call : pc[c] \in {"inner", "innerSettled"} => tx.mine < MaxInner

\* A call is queued at most once and waits at most once, never both.
Queues ==
    /\ Once(queue) /\ Once(waiting)
    /\ \A c \in Items(queue) : pc[c] \notin {"idle", "held"}
    /\ \A c \in Items(waiting) : pc[c] = "held"

Precedes(q, d, h) ==
    \A j \in DOMAIN q : q[j] = h => \E i \in DOMAIN q : i < j /\ q[i] = d

\* A statement that has passed settle() is queued ahead of whoever took the
\* lock since, who has run no statement of its own.
Ahead ==
    \A d \in Call : pc[d] = "settled" =>
        /\ d \in Items(queue)
        /\ held # Nobody =>
             /\ tx.mine = 0 /\ pc[held] = "inner"
             /\ Precedes(queue, d, held)

IInv == TypeOK /\ Holder /\ Queues /\ Ahead

-----------------------------------------------------------------------------
(* What a microtask does to the queue. *)

LEMMA TailItems ==
    ASSUME NEW S, NEW q \in Seq(S), q # <<>>
    PROVE  /\ Head(q) \in S /\ Tail(q) \in Seq(S)
           /\ Len(q) \in Nat \ {0} /\ Head(q) = q[1]
           /\ Len(Tail(q)) = Len(q) - 1 /\ DOMAIN Tail(q) = 1..(Len(q) - 1)
           /\ \A i \in DOMAIN Tail(q) : Tail(q)[i] = q[i + 1]
  OBVIOUS

LEMMA AppendItems ==
    ASSUME NEW S, NEW q \in Seq(S), NEW c \in S
    PROVE  /\ Append(q, c) \in Seq(S)
           /\ Len(q) \in Nat
           /\ DOMAIN q = 1..Len(q)
           /\ DOMAIN Append(q, c) = 1..(Len(q) + 1)
           /\ \A i \in DOMAIN q : Append(q, c)[i] = q[i]
           /\ Append(q, c)[Len(q) + 1] = c
  OBVIOUS

LEMMA TailOnce ==
    ASSUME NEW S, NEW q \in Seq(S), q # <<>>, Once(q)
    PROVE  /\ Once(Tail(q))
           /\ Items(Tail(q)) = Items(q) \ {Head(q)}
  <1>1. Once(Tail(q))
    BY TailItems, SMT DEF Once
  <1>2. ASSUME NEW i \in DOMAIN Tail(q)
        PROVE  Tail(q)[i] \in Items(q) \ {Head(q)}
    BY TailItems, SMT DEF Once, Items
  <1>3. ASSUME NEW i \in DOMAIN q, q[i] # Head(q)
        PROVE  q[i] \in Items(Tail(q))
    <2>1. i # 1 /\ i - 1 \in DOMAIN Tail(q)
      BY <1>3, TailItems, SMT
    <2>2. Tail(q)[i - 1] = q[i]
      BY <2>1, TailItems, SMT
    <2> QED BY <2>1, <2>2 DEF Items
  <1> QED BY <1>1, <1>2, <1>3 DEF Items

LEMMA AppendOnce ==
    ASSUME NEW S, NEW q \in Seq(S), NEW c \in S, Once(q), c \notin Items(q)
    PROVE  /\ Once(Append(q, c))
           /\ Items(Append(q, c)) = Items(q) \cup {c}
  <1>1. Once(Append(q, c))
    BY AppendItems, SMT DEF Once, Items
  <1>2. ASSUME NEW i \in DOMAIN Append(q, c)
        PROVE  Append(q, c)[i] \in Items(q) \cup {c}
    BY AppendItems, SMT DEF Items
  <1>3. ASSUME NEW i \in DOMAIN q
        PROVE  q[i] \in Items(Append(q, c))
    BY AppendItems, SMT DEF Items
  <1>4. c \in Items(Append(q, c))
    <2>1. Len(q) + 1 \in DOMAIN Append(q, c) /\ Append(q, c)[Len(q) + 1] = c
      BY AppendItems, SMT
    <2> QED BY <2>1 DEF Items
  <1> QED BY <1>1, <1>2, <1>3, <1>4 DEF Items

LEMMA ConcatOnce ==
    ASSUME NEW S, NEW p \in Seq(S), NEW q \in Seq(S),
           Once(p), Once(q), Items(p) \cap Items(q) = {}
    PROVE  /\ p \o q \in Seq(S) /\ Once(p \o q)
           /\ Items(p \o q) = Items(p) \cup Items(q)
  <1>0. /\ p \o q \in Seq(S)
        /\ Len(p) \in Nat /\ Len(q) \in Nat
        /\ DOMAIN p = 1..Len(p) /\ DOMAIN q = 1..Len(q)
        /\ DOMAIN (p \o q) = 1..(Len(p) + Len(q))
        /\ \A i \in 1..(Len(p) + Len(q)) :
              (p \o q)[i] = IF i <= Len(p) THEN p[i] ELSE q[i - Len(p)]
    OBVIOUS
  <1>1. ASSUME NEW i \in DOMAIN p, NEW j \in DOMAIN q PROVE p[i] # q[j]
    BY DEF Items
  <1>2. Once(p \o q)
    BY <1>0, <1>1, SMT DEF Once
  <1>3. ASSUME NEW i \in DOMAIN (p \o q)
        PROVE  (p \o q)[i] \in Items(p) \cup Items(q)
    BY <1>0, SMT DEF Items
  <1>4. ASSUME NEW i \in DOMAIN p PROVE p[i] \in Items(p \o q)
    BY <1>0, SMT DEF Items
  <1>5. ASSUME NEW j \in DOMAIN q PROVE q[j] \in Items(p \o q)
    <2>1. Len(p) + j \in DOMAIN (p \o q) /\ (p \o q)[Len(p) + j] = q[j]
      BY <1>0, SMT
    <2> QED BY <2>1 DEF Items
  <1> QED BY <1>0, <1>2, <1>3, <1>4, <1>5 DEF Items

LEMMA TailPrecedes ==
    ASSUME NEW S, NEW q \in Seq(S), q # <<>>, NEW d, NEW h,
           d # Head(q), Precedes(q, d, h)
    PROVE  Precedes(Tail(q), d, h)
  <1> SUFFICES ASSUME NEW j \in DOMAIN Tail(q), Tail(q)[j] = h
               PROVE  \E i \in DOMAIN Tail(q) : i < j /\ Tail(q)[i] = d
    BY DEF Precedes
  <1>1. j + 1 \in DOMAIN q /\ q[j + 1] = h /\ j \in Nat
    BY TailItems, SMT
  <1>2. PICK i \in DOMAIN q : i < j + 1 /\ q[i] = d
    BY <1>1 DEF Precedes
  <1>3. i - 1 \in DOMAIN Tail(q) /\ i - 1 < j /\ Tail(q)[i - 1] = d
    BY <1>1, <1>2, TailItems, SMT
  <1> QED BY <1>3

LEMMA AppendPrecedes ==
    ASSUME NEW S, NEW q \in Seq(S), NEW x \in S, NEW d, NEW h,
           x # h, Precedes(q, d, h)
    PROVE  Precedes(Append(q, x), d, h)
  <1> SUFFICES ASSUME NEW j \in DOMAIN Append(q, x), Append(q, x)[j] = h
               PROVE  \E i \in DOMAIN Append(q, x) : i < j /\ Append(q, x)[i] = d
    BY DEF Precedes
  <1>1. j \in DOMAIN q /\ q[j] = h
    BY AppendItems, SMT
  <1>2. PICK i \in DOMAIN q : i < j /\ q[i] = d
    BY <1>1 DEF Precedes
  <1> QED BY <1>2, AppendItems, SMT

LEMMA AppendBehind ==
    ASSUME NEW S, NEW q \in Seq(S), NEW h \in S, NEW d \in Items(q), h \notin Items(q)
    PROVE  Precedes(Append(q, h), d, h)
  <1> SUFFICES ASSUME NEW j \in DOMAIN Append(q, h), Append(q, h)[j] = h
               PROVE  \E i \in DOMAIN Append(q, h) : i < j /\ Append(q, h)[i] = d
    BY DEF Precedes
  <1>1. j = Len(q) + 1
    BY AppendItems, SMT DEF Items
  <1>2. PICK i \in DOMAIN q : q[i] = d
    BY DEF Items
  <1> QED BY <1>1, <1>2, AppendItems, SMT

LEMMA HeadIsFirst ==
    ASSUME NEW S, NEW q \in Seq(S), q # <<>>, NEW d
    PROVE  ~Precedes(q, d, Head(q))
  <1>1. 1 \in DOMAIN q /\ q[1] = Head(q) /\ \A i \in DOMAIN q : ~(i < 1)
    BY TailItems, AppendItems, SMT
  <1> QED BY <1>1 DEF Precedes

-----------------------------------------------------------------------------
(* What each kind of await keeps. *)

LEMMA Dequeued ==
    ASSUME TypeOK, Queues, NEW c \in Call, NEW where, Runs(c, where)
    PROVE  /\ c \in Items(queue) /\ pc[c] = where /\ where \notin {"idle", "held"}
           /\ c \notin Items(waiting)
           /\ Tail(queue) \in Seq(Call) /\ Once(Tail(queue))
           /\ Items(Tail(queue)) = Items(queue) \ {c}
  <1>1. queue \in Seq(Call) /\ queue # <<>> /\ Head(queue) = c /\ pc[c] = where
    BY DEF TypeOK, Runs
  <1>2. c \in Items(queue)
    BY <1>1, TailItems, AppendItems, SMT DEF Items
  <1>3. Tail(queue) \in Seq(Call) /\ Once(Tail(queue)) /\ Items(Tail(queue)) = Items(queue) \ {c}
    BY <1>1, TailItems, TailOnce DEF Queues
  <1> QED BY <1>1, <1>2, <1>3 DEF Queues

LEMMA YieldKeeps ==
    ASSUME TypeOK, Queues, NEW c \in Call, NEW where, Runs(c, where),
           NEW to \in Pc \ {"idle", "held"}, Yields(c, to), UNCHANGED waiting
    PROVE  /\ pc' \in [Call -> Pc] /\ queue' \in Seq(Call) /\ waiting' \in Seq(Call)
           /\ Queues'
           /\ Items(queue') = Items(queue)
           /\ \A d \in Call : pc'[d] = IF d = c THEN to ELSE pc[d]
           /\ \A d, h \in Call : d # c /\ h # c /\ Precedes(queue, d, h) => Precedes(queue', d, h)
  <1>1. /\ c \in Items(queue) /\ c \notin Items(waiting)
        /\ Tail(queue) \in Seq(Call) /\ Once(Tail(queue))
        /\ Items(Tail(queue)) = Items(queue) \ {c}
    BY Dequeued
  <1>2. pc' \in [Call -> Pc] /\ \A d \in Call : pc'[d] = IF d = c THEN to ELSE pc[d]
    BY DEF TypeOK, Yields
  <1>3. queue' = Append(Tail(queue), c) /\ queue' \in Seq(Call)
    BY <1>1, AppendItems DEF Yields
  <1>4. Once(queue') /\ Items(queue') = Items(queue)
    <2>1. c \notin Items(Tail(queue))
      BY <1>1
    <2>2. /\ Once(Append(Tail(queue), c))
          /\ Items(Append(Tail(queue), c)) = Items(Tail(queue)) \cup {c}
      <3> DEFINE q == Tail(queue)
      <3>1. q \in Seq(Call) /\ Once(q) /\ c \notin Items(q)
        BY <1>1, <2>1
      <3> HIDE DEF q
      <3>2. Once(Append(q, c)) /\ Items(Append(q, c)) = Items(q) \cup {c}
        BY <3>1, AppendOnce
      <3> QED BY <3>2 DEF q
    <2>3. (Items(queue) \ {c}) \cup {c} = Items(queue)
      BY <1>1
    <2> QED BY <1>1, <1>3, <2>2, <2>3
  <1>5. waiting' \in Seq(Call)
    BY DEF TypeOK
  <1>6. Items(queue) \subseteq Call /\ Items(waiting) \subseteq Call
    BY DEF Items, TypeOK
  <1>7. Queues'
    BY <1>1, <1>2, <1>4, <1>6 DEF Queues
  <1>8. ASSUME NEW d \in Call, NEW h \in Call, d # c, h # c, Precedes(queue, d, h)
        PROVE  Precedes(queue', d, h)
    <2>1. queue \in Seq(Call) /\ queue # <<>> /\ Head(queue) = c
      BY DEF TypeOK, Runs
    <2>2. Precedes(Tail(queue), d, h)
      BY <1>8, <2>1, TailPrecedes
    <2> QED BY <1>1, <1>3, <1>8, <2>2, AppendPrecedes
  <1> QED BY <1>2, <1>3, <1>4, <1>5, <1>7, <1>8

LEMMA WaitKeeps ==
    ASSUME TypeOK, Queues, NEW c \in Call, NEW where, Runs(c, where), Waits(c)
    PROVE  /\ pc' \in [Call -> Pc] /\ queue' \in Seq(Call) /\ waiting' \in Seq(Call)
           /\ Queues'
           /\ Items(queue') = Items(queue) \ {c}
           /\ \A d \in Call : pc'[d] = IF d = c THEN "held" ELSE pc[d]
           /\ \A d, h \in Call : d # c /\ Precedes(queue, d, h) => Precedes(queue', d, h)
  <1>1. /\ c \in Items(queue) /\ c \notin Items(waiting)
        /\ Tail(queue) \in Seq(Call) /\ Once(Tail(queue))
        /\ Items(Tail(queue)) = Items(queue) \ {c}
    BY Dequeued
  <1>2. pc' \in [Call -> Pc] /\ \A d \in Call : pc'[d] = IF d = c THEN "held" ELSE pc[d]
    BY DEF TypeOK, Waits, Pc
  <1>3. queue' = Tail(queue) /\ waiting' = Append(waiting, c)
    BY DEF Waits
  <1>4. waiting \in Seq(Call) /\ Once(waiting)
    BY DEF TypeOK, Queues
  <1>5. waiting' \in Seq(Call) /\ Once(waiting') /\ Items(waiting') = Items(waiting) \cup {c}
    BY <1>1, <1>3, <1>4, AppendItems, AppendOnce
  <1>6. Items(queue) \subseteq Call /\ Items(waiting) \subseteq Call
    BY DEF Items, TypeOK
  <1>7. Queues'
    BY <1>1, <1>2, <1>3, <1>5, <1>6 DEF Queues
  <1>8. ASSUME NEW d \in Call, NEW h \in Call, d # c, Precedes(queue, d, h)
        PROVE  Precedes(queue', d, h)
    <2>1. queue \in Seq(Call) /\ queue # <<>> /\ Head(queue) = c
      BY DEF TypeOK, Runs
    <2> QED BY <1>3, <1>8, <2>1, TailPrecedes
  <1> QED BY <1>1, <1>2, <1>3, <1>5, <1>7, <1>8

\* Of the calls that a step outside the lock moves, none is newly settled: the
\* settled ones stay queued ahead of the holder.
LEMMA StandBy ==
    ASSUME IInv, NEW C, held \notin C, held' = held, tx'.mine = tx.mine,
           \A d \in Call \cap C : pc'[d] # "settled",
           \A d \in Call \ C : pc'[d] = pc[d],
           Items(queue) \ C \subseteq Items(queue'),
           \A d, h \in Call \ C : Precedes(queue, d, h) => Precedes(queue', d, h)
    PROVE  Ahead'
  <1> SUFFICES ASSUME NEW d \in Call, pc'[d] = "settled"
               PROVE  /\ d \in Items(queue')
                      /\ held # Nobody => /\ tx.mine = 0 /\ pc'[held] = "inner"
                                         /\ Precedes(queue', d, held)
    BY DEF Ahead
  <1>1. d \notin C /\ pc[d] = "settled"
    OBVIOUS
  <1>2. d \in Items(queue')
    BY <1>1 DEF IInv, Ahead
  <1>3. ASSUME held # Nobody
        PROVE  tx.mine = 0 /\ pc'[held] = "inner" /\ Precedes(queue', d, held)
    <2>1. held \in Call \ C /\ d \in Call \ C
      BY <1>1, <1>3 DEF IInv, TypeOK
    <2>2. tx.mine = 0 /\ pc[held] = "inner" /\ Precedes(queue, d, held)
      BY <1>1, <1>3 DEF IInv, Ahead
    <2> QED BY <2>1, <2>2
  <1> QED BY <1>2, <1>3

\* A step outside every transaction keeps what the holder knows.
LEMMA HolderStays ==
    ASSUME TypeOK, Holder, NEW C, held \notin C,
           held' = held, tx'.by = tx.by, tx'.mine = tx.mine,
           \A d \in Call \cap C : pc'[d] \notin Inside,
           \A d \in Call \ C : pc'[d] = pc[d]
    PROVE  Holder'
  <1>1. OneInside'
    BY DEF Holder, OneInside
  <1>2. held # Nobody => pc'[held] \in Inside
    BY DEF Holder, TypeOK
  <1>3. \A d \in Call : pc'[d] \in {"inner", "innerSettled"} => tx'.mine < MaxInner
    BY DEF Holder, Inside
  <1> QED BY <1>1, <1>2, <1>3 DEF Holder

\* Who has not begun a transaction does not hold the lock.
LEMMA OutsideIsNotHeld ==
    ASSUME IInv, NEW c \in Call, pc[c] \notin Inside
    PROVE  c # held
  <1> QED BY KindAssumption DEF IInv, Holder

\* Who runs inside a transaction holds the lock, and no statement is settled:
\* it would be queued ahead.
LEMMA NoneSettled ==
    ASSUME IInv, NEW c \in Call, NEW where \in Inside, Runs(c, where)
    PROVE  /\ held = c /\ tx.by = c /\ held # Nobody
           /\ \A d \in Call : pc[d] # "settled"
  <1>1. held = c /\ tx.by = c /\ held # Nobody
    BY KindAssumption DEF IInv, Holder, OneInside, Runs
  <1>2. queue \in Seq(Call) /\ queue # <<>> /\ Head(queue) = c
    BY DEF IInv, TypeOK, Runs
  <1>3. ASSUME NEW d \in Call, pc[d] = "settled" PROVE FALSE
    <2>1. Precedes(queue, d, c)
      BY <1>1, <1>3 DEF IInv, Ahead
    <2> QED BY <1>2, <2>1, HeadIsFirst
  <1> QED BY <1>1, <1>3

-----------------------------------------------------------------------------
(* The invariant holds at first, and every microtask keeps it. *)

LEMMA InitIInv == Init => IInv
  <1> SUFFICES ASSUME Init PROVE IInv
    OBVIOUS
  <1> USE DEF Init
  <1>1. TypeOK
    BY BoundAssumption, SMT DEF TypeOK, Pc, NoTx
  <1>2. Holder
    BY DEF Holder, OneInside, Inside, NoTx
  <1>3. Queues
    BY DEF Queues, Once, Items
  <1>4. Ahead
    BY DEF Ahead
  <1> QED BY <1>1, <1>2, <1>3, <1>4 DEF IInv

LEMMA StartKeeps ==
    ASSUME IInv, NEW c \in Call, Start(c)
    PROVE  IInv'
  <1> USE DEF IInv
  <1>1. /\ c \notin Items(queue) /\ c \notin Items(waiting)
        /\ queue \in Seq(Call) /\ Once(queue) /\ Once(waiting)
    BY DEF Start, Queues, TypeOK
  <1>2. pc' \in [Call -> Pc] /\ \A d \in Call : pc'[d] = IF d = c THEN "ready" ELSE pc[d]
    BY DEF Start, TypeOK, Pc
  <1>3. queue' = Append(queue, c) /\ UNCHANGED <<held, waiting, tx, turn, followed>>
    BY DEF Start
  <1>4. queue' \in Seq(Call) /\ Once(queue') /\ Items(queue') = Items(queue) \cup {c}
    BY <1>1, <1>3, AppendItems, AppendOnce
  <1>5. TypeOK'
    BY <1>2, <1>3, <1>4 DEF TypeOK
  <1>6. Items(queue) \subseteq Call /\ Items(waiting) \subseteq Call
    BY DEF Items, TypeOK
  <1>7. Queues'
    BY <1>1, <1>2, <1>3, <1>4, <1>6 DEF Queues
  <1>8. c # held
    BY OutsideIsNotHeld DEF Start, Inside
  <1>9. Holder'
    <2> DEFINE C == {c}
    <2>1. /\ held \notin C
          /\ \A d \in Call \cap C : pc'[d] \notin Inside
          /\ \A d \in Call \ C : pc'[d] = pc[d]
      BY <1>2, <1>8 DEF Inside
    <2> HIDE DEF C
    <2> QED BY <1>3, <2>1, HolderStays
  <1>10. \A d, h \in Call \ {c} : Precedes(queue, d, h) => Precedes(queue', d, h)
    BY <1>1, <1>3, AppendPrecedes
  <1>11. Ahead'
    <2> DEFINE C == {c}
    <2>1. /\ held \notin C
          /\ \A d \in Call \cap C : pc'[d] # "settled"
          /\ \A d \in Call \ C : pc'[d] = pc[d]
          /\ Items(queue) \ C \subseteq Items(queue')
          /\ \A d, h \in Call \ C : Precedes(queue, d, h) => Precedes(queue', d, h)
      BY <1>2, <1>4, <1>8, <1>10
    <2> HIDE DEF C
    <2> QED BY <1>3, <2>1, StandBy
  <1> QED BY <1>5, <1>7, <1>9, <1>11

\* A step that yields, of a call outside the lock, to another place outside it.
LEMMA YieldOutside ==
    ASSUME IInv, NEW c \in Call, NEW where, Runs(c, where), where \notin Inside,
           NEW to \in {"resumed", "settled"}, Yields(c, to),
           to = "settled" => held = Nobody,
           UNCHANGED <<waiting, held>>, tx'.by = tx.by, tx'.mine = tx.mine
    PROVE  /\ pc' \in [Call -> Pc] /\ queue' \in Seq(Call) /\ waiting' \in Seq(Call)
           /\ Holder' /\ Queues' /\ Ahead'
  <1>1. TypeOK /\ Queues /\ Holder /\ to \in Pc \ {"idle", "held"} /\ pc[c] = where
    BY DEF IInv, Pc, Runs
  <1>2. /\ pc' \in [Call -> Pc] /\ queue' \in Seq(Call) /\ waiting' \in Seq(Call)
        /\ Queues'
        /\ Items(queue') = Items(queue)
        /\ \A d \in Call : pc'[d] = IF d = c THEN to ELSE pc[d]
        /\ \A d, h \in Call : d # c /\ h # c /\ Precedes(queue, d, h) => Precedes(queue', d, h)
    BY <1>1, YieldKeeps
  <1>3. c # held
    BY <1>1, OutsideIsNotHeld
  <1> DEFINE C == {c}
  <1>4. /\ held \notin C
        /\ \A d \in Call \cap C : pc'[d] \notin Inside
        /\ \A d \in Call \ C : pc'[d] = pc[d]
        /\ Items(queue) \ C \subseteq Items(queue')
        /\ \A d, h \in Call \ C : Precedes(queue, d, h) => Precedes(queue', d, h)
        /\ to # "settled" => \A d \in Call \cap C : pc'[d] # "settled"
    BY <1>2, <1>3 DEF Inside
  <1> HIDE DEF C
  <1>5. Holder'
    BY <1>1, <1>4, HolderStays
  <1>6. CASE to = "settled"
    <2>1. ASSUME NEW d \in Call, pc'[d] = "settled" PROVE d \in Items(queue')
      <3>1. c \in Items(queue)
        BY <1>1, Dequeued
      <3> QED BY <1>2, <2>1, <3>1 DEF IInv, Ahead
    <2> QED BY <1>2, <1>5, <1>6, <2>1 DEF Ahead
  <1>7. CASE to # "settled"
    <2>1. Ahead'
      BY <1>4, <1>7, StandBy
    <2> QED BY <1>2, <1>5, <2>1
  <1> QED BY <1>6, <1>7

\* A call that finds the lock taken and waits for it.
LEMMA WaitOutside ==
    ASSUME IInv, NEW c \in Call, NEW where, Runs(c, where), where \notin Inside,
           Waits(c), UNCHANGED <<held, tx>>
    PROVE  /\ pc' \in [Call -> Pc] /\ queue' \in Seq(Call) /\ waiting' \in Seq(Call)
           /\ Holder' /\ Queues' /\ Ahead'
  <1>1. TypeOK /\ Queues /\ Holder /\ pc[c] = where
    BY DEF IInv, Runs
  <1>2. /\ pc' \in [Call -> Pc] /\ queue' \in Seq(Call) /\ waiting' \in Seq(Call)
        /\ Queues'
        /\ Items(queue') = Items(queue) \ {c}
        /\ \A d \in Call : pc'[d] = IF d = c THEN "held" ELSE pc[d]
        /\ \A d, h \in Call : d # c /\ Precedes(queue, d, h) => Precedes(queue', d, h)
    BY <1>1, WaitKeeps
  <1>3. c # held
    BY <1>1, OutsideIsNotHeld
  <1> DEFINE C == {c}
  <1>4. /\ held \notin C
        /\ \A d \in Call \cap C : pc'[d] \notin Inside /\ pc'[d] # "settled"
        /\ \A d \in Call \ C : pc'[d] = pc[d]
        /\ Items(queue) \ C \subseteq Items(queue')
        /\ \A d, h \in Call \ C : Precedes(queue, d, h) => Precedes(queue', d, h)
    BY <1>2, <1>3 DEF Inside
  <1> HIDE DEF C
  <1>5. Holder'
    BY <1>1, <1>4, HolderStays
  <1>6. Ahead'
    BY <1>4, StandBy
  <1> QED BY <1>2, <1>5, <1>6

LEMMA ResumeKeeps ==
    ASSUME IInv, NEW c \in Call, Resume(c)
    PROVE  IInv'
  <1>1. /\ TypeOK /\ Queues /\ Holder /\ Runs(c, "resumed") /\ pc[c] = "resumed"
        /\ UNCHANGED <<held, waiting, tx>>
        /\ queue \in Seq(Call) /\ queue # <<>> /\ Head(queue) = c
    BY DEF IInv, Resume, Runs, TypeOK
  <1>2. /\ c \in Items(queue) /\ c \notin Items(waiting)
        /\ Tail(queue) \in Seq(Call) /\ Once(Tail(queue))
        /\ Items(Tail(queue)) = Items(queue) \ {c}
    BY <1>1, Dequeued
  <1>3. c # held
    BY <1>1, OutsideIsNotHeld DEF Inside
  <1>4. Items(queue) \subseteq Call /\ Items(waiting) \subseteq Call
    BY <1>1 DEF Items, TypeOK
  <1>5. turn' \in {"macro", "micro"} /\ followed' \in 0..MaxFollow
    BY <1>1, BoundAssumption, SMT DEF Resume, Turn, Follow, TypeOK
  <1>6. CASE pc' = [pc EXCEPT ![c] = "idle"] /\ queue' = Tail(queue)
    <2>1. /\ pc' \in [Call -> Pc]
          /\ \A d \in Call : pc'[d] = IF d = c THEN "idle" ELSE pc[d]
      BY <1>1, <1>6 DEF TypeOK, Pc
    <2>2. TypeOK'
      BY <1>1, <1>2, <1>5, <1>6, <2>1 DEF TypeOK
    <2>3. Queues'
      BY <1>1, <1>2, <1>4, <1>6, <2>1 DEF Queues
    <2>4. \A d, h \in Call \ {c} : Precedes(queue, d, h) => Precedes(queue', d, h)
      BY <1>1, <1>6, TailPrecedes
    <2> DEFINE C == {c}
    <2>5. /\ held \notin C
          /\ \A d \in Call \cap C : pc'[d] \notin Inside /\ pc'[d] # "settled"
          /\ \A d \in Call \ C : pc'[d] = pc[d]
          /\ Items(queue) \ C \subseteq Items(queue')
          /\ \A d, h \in Call \ C : Precedes(queue, d, h) => Precedes(queue', d, h)
      BY <1>2, <1>3, <1>6, <2>1, <2>4 DEF Inside
    <2> HIDE DEF C
    <2>6. Holder'
      BY <1>1, <2>5, HolderStays
    <2>7. Ahead'
      BY <1>1, <2>5, StandBy
    <2> QED BY <2>2, <2>3, <2>6, <2>7 DEF IInv
  <1>7. ASSUME NEW d \in Call, d = c \/ pc[d] = "idle",
               pc' = [pc EXCEPT ![c] = "idle", ![d] = "ready"],
               queue' = Append(Tail(queue), d)
        PROVE  IInv'
    <2>1. /\ pc' \in [Call -> Pc]
          /\ \A e \in Call : pc'[e] = IF e = d THEN "ready" ELSE IF e = c THEN "idle" ELSE pc[e]
      BY <1>1, <1>7 DEF TypeOK, Pc
    <2>2. d \notin Items(Tail(queue)) /\ d \notin Items(waiting) /\ d # held
      <3>1. CASE d = c
        BY <1>2, <1>3, <3>1
      <3>2. CASE pc[d] = "idle"
        <4>1. d \notin Items(queue) /\ d \notin Items(waiting)
          BY <1>1, <3>2 DEF Queues
        <4>2. d # held
          BY <3>2, OutsideIsNotHeld DEF Inside
        <4> QED BY <1>2, <4>1, <4>2
      <3> QED BY <1>7, <3>1, <3>2
    <2>3. /\ queue' \in Seq(Call) /\ Once(queue')
          /\ Items(queue') = Items(Tail(queue)) \cup {d}
      <3> DEFINE q == Tail(queue)
      <3>1. q \in Seq(Call) /\ Once(q) /\ d \notin Items(q)
        BY <1>2, <2>2
      <3> HIDE DEF q
      <3>2. /\ Append(q, d) \in Seq(Call) /\ Once(Append(q, d))
            /\ Items(Append(q, d)) = Items(q) \cup {d}
        BY <3>1, AppendItems, AppendOnce
      <3> QED BY <1>7, <3>2 DEF q
    <2>4. TypeOK'
      BY <1>1, <1>5, <2>1, <2>3 DEF TypeOK
    <2>5. Queues'
      BY <1>1, <1>2, <1>4, <2>1, <2>2, <2>3 DEF Queues
    <2> DEFINE C == {c, d}
    <2>6. \A e, h \in Call \ C : Precedes(queue, e, h) => Precedes(queue', e, h)
      <3>1. SUFFICES ASSUME NEW e \in Call \ C, NEW h \in Call \ C, Precedes(queue, e, h)
                     PROVE  Precedes(queue', e, h)
        OBVIOUS
      <3>2. e # c /\ h # d
        OBVIOUS
      <3>3. Precedes(Tail(queue), e, h)
        BY <1>1, <3>1, <3>2, TailPrecedes
      <3> QED BY <1>2, <1>7, <3>2, <3>3, AppendPrecedes
    <2>7. /\ held \notin C
          /\ \A e \in Call \cap C : pc'[e] \notin Inside /\ pc'[e] # "settled"
          /\ \A e \in Call \ C : pc'[e] = pc[e]
          /\ Items(queue) \ C \subseteq Items(queue')
      BY <1>2, <1>3, <2>1, <2>2, <2>3 DEF Inside
    <2> HIDE DEF C
    <2>8. Holder'
      BY <1>1, <2>7, HolderStays
    <2>9. Ahead'
      BY <1>1, <2>6, <2>7, StandBy
    <2> QED BY <2>4, <2>5, <2>8, <2>9 DEF IInv
  <1> QED BY <1>6, <1>7 DEF Resume

LEMMA StatementKeeps ==
    ASSUME IInv, NEW c \in Statement, RunStatement(c)
    PROVE  IInv'
  <1>1. c \in Call /\ UNCHANGED <<held, followed>> /\ turn' \in {"macro", "micro"}
    BY DEF Call, RunStatement, Turn
  <1>2. TypeOK
    BY DEF IInv
  <1>3. ASSUME Settle(c), UNCHANGED tx PROVE IInv'
    <2>1. PICK where \in {"ready", "woken"} : Runs(c, where)
      BY <1>3 DEF Settle, AtLock
    <2>2. where \notin Inside
      BY DEF Inside
    <2>3. CASE Waits(c)
      BY <1>1, <1>2, <1>3, <2>1, <2>2, <2>3, WaitOutside DEF IInv, TypeOK
    <2>4. CASE held = Nobody /\ Yields(c, "settled") /\ UNCHANGED waiting
      <3>1. tx'.by = tx.by /\ tx'.mine = tx.mine
        BY <1>3
      <3>2. /\ pc' \in [Call -> Pc] /\ queue' \in Seq(Call) /\ waiting' \in Seq(Call)
            /\ Holder' /\ Queues' /\ Ahead'
        BY <1>1, <2>1, <2>2, <2>4, <3>1, YieldOutside
      <3> QED BY <1>1, <1>2, <1>3, <3>2 DEF IInv, TypeOK
    <2> QED BY <1>3, <2>3, <2>4 DEF Settle, Blocked
  <1>4. ASSUME Execute(c) PROVE IInv'
    <2>1. Runs(c, "settled") /\ Yields(c, "resumed") /\ UNCHANGED waiting
      BY <1>4 DEF Execute
    <2>2. /\ tx'.by = tx.by /\ tx'.mine = tx.mine
          /\ tx' \in [by : Call \cup {Nobody}, mine : 0..MaxInner, guests : SUBSET Call]
      BY <1>1, <1>2, <1>4 DEF Execute, TypeOK
    <2>3. /\ pc' \in [Call -> Pc] /\ queue' \in Seq(Call) /\ waiting' \in Seq(Call)
          /\ Holder' /\ Queues' /\ Ahead'
      BY <1>1, <2>1, <2>2, YieldOutside DEF Inside
    <2> QED BY <1>1, <1>2, <2>2, <2>3 DEF IInv, TypeOK
  <1> QED BY <1>3, <1>4 DEF RunStatement

LEMMA ExclusiveKeeps ==
    ASSUME IInv, NEW c \in Exclusive, RunExclusive(c)
    PROVE  IInv'
  <1>1. c \in Call /\ UNCHANGED <<held, tx, followed>> /\ turn' \in {"macro", "micro"}
    BY DEF Call, RunExclusive, Turn
  <1>2. TypeOK
    BY DEF IInv
  <1>3. PICK where \in {"ready", "woken"} : Runs(c, where)
    BY DEF RunExclusive, AtLock
  <1>4. where \notin Inside
    BY DEF Inside
  <1>5. CASE Waits(c)
    BY <1>1, <1>2, <1>3, <1>4, <1>5, WaitOutside DEF IInv, TypeOK
  <1>6. CASE Yields(c, "resumed") /\ UNCHANGED waiting
    <2>1. /\ pc' \in [Call -> Pc] /\ queue' \in Seq(Call) /\ waiting' \in Seq(Call)
          /\ Holder' /\ Queues' /\ Ahead'
      BY <1>1, <1>3, <1>4, <1>6, YieldOutside
    <2> QED BY <1>1, <1>2, <2>1 DEF IInv, TypeOK
  <1> QED BY <1>5, <1>6 DEF RunExclusive

\* BEGIN: the statements settled by then are queued, and who takes the lock is
\* queued behind them.
LEMMA BeginKeeps ==
    ASSUME IInv, NEW c \in Call, NEW where, Runs(c, where), where \notin Inside, held = Nobody,
           held' = c, tx' = [NoTx EXCEPT !.by = c], Yields(c, "inner"), UNCHANGED waiting
    PROVE  /\ pc' \in [Call -> Pc] /\ queue' \in Seq(Call) /\ waiting' \in Seq(Call)
           /\ tx' \in [by : Call \cup {Nobody}, mine : 0..MaxInner, guests : SUBSET Call]
           /\ Holder' /\ Queues' /\ Ahead'
  <1>1. TypeOK /\ Queues /\ Holder /\ "inner" \in Pc \ {"idle", "held"} /\ pc[c] = where
    BY DEF IInv, Pc, Inside, Runs
  <1>2. /\ pc' \in [Call -> Pc] /\ queue' \in Seq(Call) /\ waiting' \in Seq(Call)
        /\ Queues'
        /\ \A d \in Call : pc'[d] = IF d = c THEN "inner" ELSE pc[d]
    BY <1>1, YieldKeeps
  <1>3. tx'.by = c /\ tx'.mine = 0 /\ tx'.guests = {} /\ 0 < MaxInner /\ 0 \in 0..MaxInner
    BY BoundAssumption, SMT DEF NoTx
  <1>4. tx' \in [by : Call \cup {Nobody}, mine : 0..MaxInner, guests : SUBSET Call]
    BY BoundAssumption, SMT DEF NoTx
  <1>5. \A d \in Call : pc[d] \notin Inside
    BY <1>1, KindAssumption DEF Holder, OneInside
  <1>6. Holder'
    <2>1. OneInside'
      BY <1>2, <1>3, <1>5 DEF OneInside
    <2>2. held' # Nobody => pc'[held'] \in Inside
      BY <1>2 DEF Inside
    <2> QED BY <1>3, <2>1, <2>2 DEF Holder
  <1>7. ASSUME NEW d \in Call, pc'[d] = "settled"
        PROVE  d \in Items(queue') /\ Precedes(queue', d, c)
    <2>1. d # c /\ pc[d] = "settled"
      BY <1>2, <1>7
    <2>2. /\ Tail(queue) \in Seq(Call) /\ Once(Tail(queue))
          /\ Items(Tail(queue)) = Items(queue) \ {c}
      BY <1>1, Dequeued
    <2> DEFINE q == Tail(queue)
    <2>3. q \in Seq(Call) /\ Once(q) /\ c \notin Items(q) /\ d \in Items(q)
      BY <2>1, <2>2 DEF IInv, Ahead
    <2> HIDE DEF q
    <2>4. d \in Items(Append(q, c)) /\ Precedes(Append(q, c), d, c)
      BY <2>3, AppendOnce, AppendBehind
    <2> QED BY <2>4 DEF Yields, q
  <1>8. Ahead'
    <2>1. pc'[held'] = "inner"
      BY <1>2
    <2> QED BY <1>3, <1>7, <2>1 DEF Ahead
  <1> QED BY <1>2, <1>4, <1>6, <1>8

LEMMA AcquireKeeps ==
    ASSUME IInv, NEW c \in Transaction, Acquire(c), Turn, UNCHANGED followed
    PROVE  IInv'
  <1>1. c \in Call /\ turn' \in {"macro", "micro"}
    BY DEF Call, Turn
  <1>2. TypeOK
    BY DEF IInv
  <1>3. PICK where \in {"ready", "woken"} : Runs(c, where)
    BY DEF Acquire, AtLock
  <1>4. where \notin Inside
    BY DEF Inside
  <1>5. CASE Waits(c) /\ UNCHANGED <<held, tx>>
    BY <1>1, <1>2, <1>3, <1>4, <1>5, WaitOutside DEF IInv, TypeOK
  <1>6. CASE Yields(c, "resumed") /\ UNCHANGED <<held, tx, waiting>>
    <2>1. /\ pc' \in [Call -> Pc] /\ queue' \in Seq(Call) /\ waiting' \in Seq(Call)
          /\ Holder' /\ Queues' /\ Ahead'
      BY <1>1, <1>3, <1>4, <1>6, YieldOutside
    <2> QED BY <1>1, <1>2, <1>6, <2>1 DEF IInv, TypeOK
  <1>7. CASE /\ held = Nobody
             /\ held' = c
             /\ tx' = [NoTx EXCEPT !.by = c]
             /\ Yields(c, "inner")
             /\ UNCHANGED waiting
    <2>1. /\ pc' \in [Call -> Pc] /\ queue' \in Seq(Call) /\ waiting' \in Seq(Call)
          /\ tx' \in [by : Call \cup {Nobody}, mine : 0..MaxInner, guests : SUBSET Call]
          /\ Holder' /\ Queues' /\ Ahead'
      BY <1>1, <1>3, <1>4, <1>7, BeginKeeps
    <2> QED BY <1>1, <1>2, <1>7, <2>1 DEF IInv, TypeOK
  <1> QED BY <1>5, <1>6, <1>7 DEF Acquire, Blocked

\* Inside a transaction, from one await to the next.
LEMMA InsideKeeps ==
    ASSUME IInv, NEW c \in Call, NEW where \in Inside, Runs(c, where),
           NEW to \in Inside, Yields(c, to), UNCHANGED <<held, waiting, followed>>, Turn,
           tx'.by = tx.by,
           tx' \in [by : Call \cup {Nobody}, mine : 0..MaxInner, guests : SUBSET Call],
           to \in {"inner", "innerSettled"} => tx'.mine < MaxInner
    PROVE  IInv'
  <1>1. TypeOK /\ Queues /\ Holder /\ to \in Pc \ {"idle", "held"} /\ to # "settled"
    BY DEF IInv, Pc, Inside
  <1>2. /\ pc' \in [Call -> Pc] /\ queue' \in Seq(Call) /\ waiting' \in Seq(Call)
        /\ Queues'
        /\ \A d \in Call : pc'[d] = IF d = c THEN to ELSE pc[d]
    BY <1>1, YieldKeeps
  <1>3. held = c /\ tx.by = c /\ held # Nobody /\ \A d \in Call : pc[d] # "settled"
    BY NoneSettled
  <1>4. TypeOK'
    <2>1. turn' \in {"macro", "micro"}
      BY DEF Turn
    <2> QED BY <1>1, <1>2, <2>1 DEF TypeOK
  <1>5. Holder'
    <2>1. \A d \in Call : d # c => pc[d] \notin Inside
      BY <1>1, <1>3 DEF Holder, OneInside
    <2>2. OneInside'
      BY <1>2, <1>3, <2>1 DEF OneInside
    <2>3. \A d \in Call : pc'[d] \in {"inner", "innerSettled"} => tx'.mine < MaxInner
      BY <1>2, <2>1 DEF Inside
    <2> QED BY <1>2, <1>3, <2>2, <2>3 DEF Holder
  <1>6. Ahead'
    BY <1>1, <1>2, <1>3 DEF Ahead
  <1> QED BY <1>2, <1>4, <1>5, <1>6 DEF IInv

\* The end of a transaction lets the lock go and queues everyone who waited.
LEMMA EndKeeps ==
    ASSUME IInv, NEW c \in Transaction, End(c), Turn, UNCHANGED followed
    PROVE  IInv'
  <1>1. PICK where \in {"commit", "rollback"} : Runs(c, where)
    BY DEF End
  <1>2. /\ c \in Call /\ TypeOK /\ Queues /\ Holder /\ where \in Inside
        /\ turn' \in {"macro", "micro"} /\ tx' = NoTx /\ Releases(c)
    BY DEF Call, IInv, Inside, Turn, End
  <1>3. held = c /\ \A d \in Call : pc[d] # "settled"
    BY <1>1, <1>2, NoneSettled
  <1>4. /\ c \notin Items(waiting)
        /\ Tail(queue) \in Seq(Call) /\ Once(Tail(queue))
        /\ Items(Tail(queue)) = Items(queue) \ {c}
    BY <1>1, <1>2, Dequeued
  <1>5. pc' = Woken(c) /\ held' = Nobody /\ waiting' = <<>>
    BY <1>2 DEF Releases
  <1>6. pc' \in [Call -> Pc]
    BY <1>2, <1>5 DEF Woken, TypeOK, Pc
  <1>7. \A d \in Call : pc'[d] = IF d = c THEN "resumed"
                               ELSE IF pc[d] = "held" THEN "woken" ELSE pc[d]
    BY <1>5 DEF Woken
  <1>8. /\ queue' \in Seq(Call) /\ Once(queue')
        /\ Items(queue') = (Items(Tail(queue)) \cup Items(waiting)) \cup {c}
    <2> DEFINE q == Tail(queue)
    <2> DEFINE w == waiting
    <2> DEFINE r == <<c>>
    <2>1. q \in Seq(Call) /\ w \in Seq(Call) /\ Once(q) /\ Once(w)
      BY <1>2, <1>4 DEF TypeOK, Queues
    <2>2. Items(q) \cap Items(w) = {}
      BY <1>2, <1>4 DEF Queues
    <2>3. r \in Seq(Call) /\ Once(r) /\ Items(r) = {c}
      BY <1>2 DEF Once, Items
    <2>4. c \notin Items(q) /\ c \notin Items(w)
      BY <1>4
    <2>5. queue' = (q \o w) \o r
      BY <1>2 DEF Releases
    <2> HIDE DEF q, w, r
    <2>6. q \o w \in Seq(Call) /\ Once(q \o w) /\ Items(q \o w) = Items(q) \cup Items(w)
      BY <2>1, <2>2, ConcatOnce
    <2> DEFINE p == q \o w
    <2>7. p \in Seq(Call) /\ Once(p) /\ Items(p) \cap Items(r) = {}
      BY <2>3, <2>4, <2>6
    <2>8. queue' = p \o r
      BY <2>5
    <2>9. Items(p) = Items(q) \cup Items(w)
      BY <2>6
    <2> HIDE DEF p
    <2>10. p \o r \in Seq(Call) /\ Once(p \o r) /\ Items(p \o r) = Items(p) \cup Items(r)
      BY <2>3, <2>7, ConcatOnce
    <2>11. /\ queue' \in Seq(Call) /\ Once(queue')
           /\ Items(queue') = (Items(q) \cup Items(w)) \cup {c}
      BY <2>3, <2>8, <2>9, <2>10
    <2> QED BY <2>11 DEF q, w
  <1>9. Items(queue) \subseteq Call /\ Items(waiting) \subseteq Call
    BY <1>2 DEF Items, TypeOK
  <1>10. waiting' \in Seq(Call) /\ Once(waiting') /\ Items(waiting') = {}
    BY <1>5 DEF Once, Items
  <1>11. Queues'
    <2>1. ASSUME NEW d \in Items(queue') PROVE pc'[d] \notin {"idle", "held"}
      <3>1. d \in Call
        BY <1>2, <1>4, <1>8, <1>9
      <3>2. CASE d = c
        BY <1>7, <3>1, <3>2
      <3>3. CASE d \in Items(queue)
        BY <1>2, <1>7, <3>1, <3>3 DEF Queues
      <3>4. CASE d \in Items(waiting)
        BY <1>2, <1>7, <3>1, <3>4 DEF Queues
      <3> QED BY <1>4, <1>8, <3>2, <3>3, <3>4
    <2> QED BY <1>8, <1>10, <2>1 DEF Queues
  <1>12. TypeOK'
    <2>1. tx' \in [by : Call \cup {Nobody}, mine : 0..MaxInner, guests : SUBSET Call]
      BY <1>2, BoundAssumption, SMT DEF NoTx
    <2> QED BY <1>2, <1>5, <1>6, <1>8, <1>10, <2>1 DEF TypeOK
  <1>13. Holder'
    <2>1. \A d \in Call : pc'[d] \notin Inside
      BY <1>2, <1>3, <1>7 DEF Holder, OneInside, Inside
    <2> QED BY <1>2, <1>5, <2>1 DEF Holder, OneInside, Inside, NoTx
  <1>14. Ahead'
    BY <1>3, <1>7 DEF Ahead
  <1> QED BY <1>11, <1>12, <1>13, <1>14 DEF IInv

LEMMA TransactionKeeps ==
    ASSUME IInv, NEW c \in Transaction, RunTransaction(c)
    PROVE  IInv'
  <1>1. c \in Call /\ Turn /\ UNCHANGED followed /\ TypeOK /\ Holder
    BY DEF Call, RunTransaction, IInv
  <1>2. CASE Acquire(c)
    BY <1>1, <1>2, AcquireKeeps
  <1>3. CASE InnerSettle(c)
    <2>1. /\ Runs(c, "inner") /\ pc[c] = "inner" /\ Yields(c, "innerSettled")
          /\ UNCHANGED <<held, waiting, tx>>
      BY <1>3 DEF InnerSettle, Runs
    <2>2. tx' \in [by : Call \cup {Nobody}, mine : 0..MaxInner, guests : SUBSET Call]
      BY <1>1, <2>1 DEF TypeOK
    <2>3. tx'.mine < MaxInner
      BY <1>1, <2>1 DEF Holder
    <2> QED BY <1>1, <2>1, <2>2, <2>3, InsideKeeps DEF Inside
  <1>4. CASE InnerExecute(c)
    <2>1. /\ Runs(c, "innerSettled") /\ pc[c] = "innerSettled" /\ Yields(c, "innerDone")
          /\ UNCHANGED <<held, waiting>>
      BY <1>4 DEF InnerExecute, Runs
    <2>2. tx.mine < MaxInner
      BY <1>1, <2>1 DEF Holder
    <2>3. /\ tx'.by = tx.by
          /\ tx' \in [by : Call \cup {Nobody}, mine : 0..MaxInner, guests : SUBSET Call]
      BY <1>1, <1>4, <2>2, BoundAssumption, SMT DEF InnerExecute, TypeOK
    <2> QED BY <1>1, <2>1, <2>3, InsideKeeps DEF Inside
  <1>5. CASE Continue(c)
    <2>1. PICK to \in {"inner", "commit", "rollback"} :
            Yields(c, to) /\ (to = "inner" => tx.mine < MaxInner)
      BY <1>5 DEF Continue
    <2>2. Runs(c, "innerDone") /\ UNCHANGED <<held, waiting, tx>>
      BY <1>5 DEF Continue
    <2>3. tx' \in [by : Call \cup {Nobody}, mine : 0..MaxInner, guests : SUBSET Call]
      BY <1>1, <2>2 DEF TypeOK
    <2> QED BY <1>1, <2>1, <2>2, <2>3, InsideKeeps DEF Inside
  <1>6. CASE End(c)
    BY <1>1, <1>6, EndKeeps
  <1> QED BY <1>2, <1>3, <1>4, <1>5, <1>6 DEF RunTransaction

LEMMA NextKeeps == IInv /\ [Next]_vars => IInv'
  <1> SUFFICES ASSUME IInv, [Next]_vars PROVE IInv'
    OBVIOUS
  <1>1. ASSUME NEW c \in Call, Resume(c) PROVE IInv'
    BY <1>1, ResumeKeeps
  <1>2. ASSUME NEW c \in Statement, RunStatement(c) PROVE IInv'
    BY <1>2, StatementKeeps
  <1>3. ASSUME NEW c \in Transaction, RunTransaction(c) PROVE IInv'
    BY <1>3, TransactionKeeps
  <1>4. ASSUME NEW c \in Exclusive, RunExclusive(c) PROVE IInv'
    BY <1>4, ExclusiveKeeps
  <1>5. ASSUME NEW c \in Call, Start(c) PROVE IInv'
    BY <1>5, StartKeeps
  <1>6. CASE UNCHANGED vars
    BY <1>6 DEF vars, IInv, TypeOK, Holder, OneInside, Queues, Ahead, Once, Items, Precedes
  <1> QED BY <1>1, <1>2, <1>3, <1>4, <1>5, <1>6 DEF Next, Microtask

LEMMA Invariant == Spec => []IInv
  <1> QED BY InitIInv, NextKeeps, PTL DEF Spec

-----------------------------------------------------------------------------
\* The state of the gate stays well-formed: a transaction runs at most MaxInner
\* statements, and only calls are queued or wait.
THEOREM TypeCorrect == Spec => []TypeOK
  <1>1. IInv => TypeOK
    BY DEF IInv
  <1> QED BY <1>1, Invariant, PTL

\* At most one transaction has begun and not ended, whoever the callers are and
\* whatever order their microtasks come in (runInTransaction's lock).
THEOREM OneAtATime == Spec => []OneInside
  <1>1. IInv => OneInside
    BY DEF IInv, Holder
  <1> QED BY <1>1, Invariant, PTL

\* No statement from outside runs once the open transaction has run one of its
\* own, although settle() and the statement are two microtasks.
THEOREM HasItToItself == Spec => Isolated
  <1> DEFINE Alone == \A c \in Call : ActsOutside(c) => tx.by = Nobody \/ tx.mine = 0
  <1>1. IInv /\ [Next]_vars => [Alone]_vars
    <2> SUFFICES ASSUME IInv, NEW c \in Call, ActsOutside(c)
                 PROVE  tx.by = Nobody \/ tx.mine = 0
      OBVIOUS
    <2>1. held = tx.by
      BY DEF IInv, Holder
    <2>2. CASE Execute(c)
      <3>1. pc[c] = "settled"
        BY <2>2 DEF Execute, Runs
      <3> QED BY <2>1, <3>1 DEF IInv, Ahead
    <2>3. CASE ~Blocked(c)
      BY <2>1, <2>3 DEF Blocked
    <2> QED BY <2>2, <2>3 DEF ActsOutside
  <1> QED BY <1>1, Invariant, PTL DEF Spec, Isolated

-----------------------------------------------------------------------------

-----------------------------------------------------------------------------
(* The steps of a start *)

SchemaSteps == 26

LEMMA SchemaAt ==
    /\ Len(SchemaOrder) = SchemaSteps
    /\ \A s : Step(s) <=> at \in 1..SchemaSteps /\ SchemaOrder[at] = s
<1>1. Len(SchemaOrder) = SchemaSteps /\ DOMAIN SchemaOrder = 1..SchemaSteps
  BY DEF SchemaOrder, SchemaSteps
<1>. QED  BY <1>1 DEF Step

LEMMA FindingAt ==
    /\ Serving = SchemaSteps + 15 /\ Back = SchemaSteps + 16
    /\ \A s : FStep(s) <=> (at - SchemaSteps) \in 1..14 /\ FindingOrder[at - SchemaSteps] = s
<1>1. Len(FindingOrder) = 14 /\ DOMAIN FindingOrder = 1..14
  BY DEF FindingOrder
<1>2. Len(SchemaOrder) = SchemaSteps
  BY SchemaAt
<1>3. Serving = SchemaSteps + 15 /\ Back = SchemaSteps + 16
  BY <1>1, <1>2 DEF Serving, Back, SchemaSteps
<1>4. \A s : FStep(s) <=> (at - SchemaSteps) \in 1..14 /\ FindingOrder[at - SchemaSteps] = s
  BY <1>1, <1>2 DEF FStep
<1>. QED  BY <1>3, <1>4

\* Which step runs at which point of a start.
LEMMA SchemaSequence ==
    /\ Step("policies") <=> at = 1
    /\ Step("create") <=> at = 2
    /\ Step("reclaimSnapshots") <=> at = 3
    /\ Step("dropStagedSnapshots") <=> at = 4
    /\ Step("rebuildSnapshots") <=> at = 5
    /\ Step("shell") <=> at = 6
    /\ Step("posture") <=> at = 7
    /\ Step("posturePct") <=> at = 8
    /\ Step("reclaimFindings") <=> at = 9
    /\ Step("dropStagedFindings") <=> at = 10
    /\ Step("rebuildFindings") <=> at = 11
    /\ Step("reclaimSuppressions") <=> at = 12
    /\ Step("dropStagedSuppressions") <=> at = 13
    /\ Step("rebuildSuppressions") <=> at = 14
    /\ Step("rawKql") <=> at = 15
    /\ Step("type") <=> at = 16
    /\ Step("addType") <=> at = 17
    /\ Step("groups") <=> at = 18
    /\ Step("addGroups") <=> at = 19
    /\ Step("conditions") <=> at = 20
    /\ Step("compile") <=> at = 21
    /\ Step("addTarget") <=> at = 22
    /\ Step("addRecurrence") <=> at = 23
    /\ Step("recurrence") <=> at = 24
    /\ Step("dropCategories") <=> at = 25
    /\ Step("dropCron") <=> at = 26
BY SchemaAt DEF SchemaOrder, GroupColumns, SchemaSteps

LEMMA FindingSequence ==
    /\ FStep("standIn") <=> at = 27
    /\ FStep("renameRule") <=> at = 28
    /\ FStep("remapFindings") <=> at = 29
    /\ FStep("remapSuppressions") <=> at = 30
    /\ FStep("remapRecords") <=> at = 31
    /\ FStep("references") <=> at = 32
    /\ FStep("rekey") <=> at = 33
    /\ FStep("copyRows") <=> at = 34
    /\ FStep("convert") <=> at = 35
    /\ FStep("empty") <=> at = 36
    /\ FStep("seed") <=> at = 37
    /\ FStep("backfillCategory") <=> at = 38
    /\ FStep("backfillFindings") <=> at = 39
    /\ FStep("backfillSnapshots") <=> at = 40
BY FindingAt DEF FindingOrder, SchemaSteps

-----------------------------------------------------------------------------
(* The shape of the findings tables *)

Fields == {"rules", "list", "sup", "event", "rows", "marks", "fin", "scans"}
Spellings == {"lower", "mixed"}
Scans == [blob : Blobs, fp : Fp, rule : {"old", "new"}, res : Spellings, has : BOOLEAN, recs : SUBSET Fp]

Shape(d) ==
    /\ d = [f \in Fields |-> d[f]]
    /\ d.sup = [fp |-> d.sup.fp, res |-> d.sup.res]
    /\ d.sup.res \in Spellings
    /\ d.scans \in Seq(Scans)

\* The same scans and suppressed resource, whatever else differs.
Keeps(d, e) == Shape(e) /\ e.scans = d.scans /\ e.sup.res = d.sup.res

LEMMA RemappedKeeps ==
  ASSUME NEW d, Shape(d), NEW fp, NEW res, NEW n
  PROVE  LET e == Remapped(d, fp, res, n)
         IN  /\ Keeps(d, e)
             /\ e.rules = d.rules /\ e.list = d.list /\ e.marks = d.marks
             /\ e.event = IF fp \in OldKeys(res) /\ n >= 2 /\ d.event = fp THEN Current("new", res) ELSE d.event
             /\ e.sup.fp = IF fp \in OldKeys(res) /\ n >= 3 /\ d.sup.fp = fp THEN Current("new", res) ELSE d.sup.fp
BY DEF Remapped, Shape, Keeps, Fields

LEMMA Rekey1Keeps ==
  ASSUME NEW d, Shape(d), NEW next
  PROVE  LET e == Rekey1(d, next) IN Keeps(d, e) /\ e.rules = d.rules /\ e.marks = d.marks
BY DEF Rekey1, Shape, Keeps, Fields

LEMMA RekeyingKeeps ==
  ASSUME NEW d, Shape(d)
  PROVE  LET e == Rekeying(d) IN Keeps(d, e) /\ e.rules = d.rules /\ e.marks = d.marks \cup {"rekeyed"}
<1>. DEFINE one == Rekey1(d, Current("old", "lower"))
            two == Rekey1(one, Current("new", "lower"))
<1>1. Keeps(d, one) /\ one.rules = d.rules /\ one.marks = d.marks
  BY Rekey1Keeps
<1>2. Keeps(one, two) /\ two.rules = one.rules /\ two.marks = one.marks
  BY <1>1, Rekey1Keeps DEF Keeps
<1>. QED  BY <1>1, <1>2 DEF Rekeying, Keeps, Shape, Fields

LEMMA CopyingKeeps ==
  ASSUME NEW d, Shape(d)
  PROVE  LET e == CopyingRows(d)
         IN  /\ Keeps(d, e) /\ e.rules = d.rules /\ e.marks = d.marks \cup {"copied"}
             /\ e.sup = d.sup /\ e.event = d.event /\ e.list = d.list
BY DEF CopyingRows, Shape, Keeps, Fields

LEMMA MarkedKeeps ==
  ASSUME NEW d, Shape(d), NEW mark
  PROVE  LET e == Marked(d, mark)
         IN  /\ Keeps(d, e) /\ e.rules = d.rules /\ e.marks = d.marks \cup {mark}
             /\ e.sup = d.sup /\ e.event = d.event /\ e.list = d.list /\ e.fin = d.fin
BY DEF Marked, Shape, Keeps, Fields

LEMMA RebuiltKeeps ==
  ASSUME NEW d, Shape(d), NEW mark
  PROVE  LET e == Marked(Rebuilt(d), mark)
         IN  /\ Keeps(d, e) /\ e.rules = d.rules /\ e.marks = d.marks \cup {mark}
             /\ e.sup = d.sup /\ e.event = d.event /\ e.list = d.list
<1>1. /\ Keeps(d, Rebuilt(d)) /\ Rebuilt(d).rules = d.rules /\ Rebuilt(d).marks = d.marks
      /\ Rebuilt(d).sup = d.sup /\ Rebuilt(d).event = d.event /\ Rebuilt(d).list = d.list
  BY DEF Rebuilt, Shape, Keeps, Fields
<1>. QED  BY <1>1, MarkedKeeps DEF Keeps


-----------------------------------------------------------------------------
(* The scans a start holds *)

TruthFields == {"first", "times", "rows", "open", "found", "split", "cut", "listed"}

ScanReadable(s, found) ==
    IF s.has THEN (s.recs # {}) = found
    ELSE s.recs = {} /\ (s.blob = "bad" \/ (s.blob = "full") = found)

\* Records of a scan not converted yet would be lost when its blob is read instead: it has none.
ScansInv ==
    /\ Shape(data)
    /\ truth = [f \in TruthFields |-> truth[f]]
    /\ truth.found \in Seq(BOOLEAN) /\ Len(truth.found) = Len(data.scans)
    /\ \A i \in DOMAIN data.scans : ScanReadable(data.scans[i], truth.found[i])

LEMMA Lengths ==
  ASSUME NEW S, NEW s \in Seq(S)
  PROVE  Len(s) \in Nat /\ DOMAIN s = 1..Len(s) /\ \A i \in 1..Len(s) : s[i] \in S
OBVIOUS

LEMMA FunctionIsSeq ==
  ASSUME NEW S, NEW n \in Nat, NEW t \in [1..n -> S]
  PROVE  t \in Seq(S) /\ Len(t) = n /\ DOMAIN t = 1..n
<1>1. t \in Seq(S)
  BY SeqDef
<1>2. Len(t) \in Nat /\ DOMAIN t = 1..Len(t) /\ DOMAIN t = 1..n
  BY <1>1
<1>. QED  BY <1>1, <1>2

\* Scans replaced one by one, each as readable as it was.
LEMMA EachScan ==
  ASSUME ScansInv, NEW t, t = [i \in DOMAIN data.scans |-> t[i]],
         \A i \in DOMAIN data.scans : t[i] \in Scans /\ ScanReadable(t[i], truth.found[i]),
         data' = [data EXCEPT !.scans = t], UNCHANGED truth
  PROVE  ScansInv'
<1>1. data.scans \in Seq(Scans)
  BY DEF ScansInv, Shape
<1>2. DOMAIN data.scans = 1..Len(data.scans) /\ Len(data.scans) \in Nat
  BY <1>1, Lengths
<1>3. t \in Seq(Scans) /\ Len(t) = Len(data.scans) /\ DOMAIN t = DOMAIN data.scans
  <2>. DEFINE n == Len(data.scans)
  <2>1. n \in Nat /\ t \in [1..n -> Scans]
    BY <1>2
  <2>. QED  BY <2>1, <1>2, FunctionIsSeq
<1>4. Shape(data') /\ data'.scans = t
  BY <1>3 DEF ScansInv, Shape, Fields
<1>. QED  BY <1>2, <1>3, <1>4 DEF ScansInv

LEMMA SameScans ==
  ASSUME ScansInv, Keeps(data, data'), UNCHANGED truth
  PROVE  ScansInv'
BY DEF ScansInv, Keeps

LEMMA ScansInit == UpgradeInit => ScansInv
<1>. SUFFICES ASSUME UpgradeInit PROVE ScansInv
  OBVIOUS
<1>1. CASE OldSchema
  <2>1. data = Fresh /\ truth.found = <<>> /\ truth = [f \in TruthFields |-> truth[f]]
    BY <1>1 DEF OldSchema, Truth, TruthFields
  <2>2. Shape(data) /\ data.scans = <<>>
    <3>1. data.scans = <<>> /\ data.scans \in Seq(Scans)
      BY <2>1 DEF Fresh
    <3>2. data = [f \in Fields |-> data[f]] /\ data.sup = [fp |-> NoEvent, res |-> "lower"]
      BY <2>1 DEF Fresh, Fields
    <3>. QED  BY <3>1, <3>2 DEF Shape, Spellings
  <2>. QED  BY <2>1, <2>2 DEF ScansInv
<1>2. CASE OldFindings
  <2>1. PICK rule \in {"old", "new"}, spelled \in Spelled, standIn \in BOOLEAN :
          /\ data = [TwoScans(rule, spelled) EXCEPT !.rules = @ \cup IF standIn THEN {"new"} ELSE {}]
          /\ truth = Truth([first |-> 1, times |-> 2, rows |-> 2, open |-> TRUE,
                            found |-> [i \in 1..2 |-> TRUE], listed |-> rule = "new"])
    BY <1>2 DEF OldFindings
  <2>2. spelled[1] \in Spellings /\ spelled[2] \in Spellings
    BY SpellingsAreKnown DEF Spellings
  <2>3. \A res \in Spellings : Scan("full", rule, res) \in Scans
    BY DEF Scan, Scans, Blobs, Legacy, Fp, Spellings
  <2>4. Shape(data) /\ data.scans = <<Scan("full", rule, spelled[1]), Scan("full", rule, spelled[2])>>
    <3>1. data.scans = <<Scan("full", rule, spelled[1]), Scan("full", rule, spelled[2])>>
      BY <2>1 DEF TwoScans
    <3>2. data.scans \in Seq(Scans)
      BY <3>1, <2>2, <2>3
    <3>3. /\ data = [f \in Fields |-> data[f]]
          /\ data.sup = [fp |-> Legacy(rule, spelled[2]), res |-> spelled[2]]
      BY <2>1 DEF TwoScans, Fields
    <3>. QED  BY <2>2, <3>1, <3>2, <3>3 DEF Shape
  <2>5. truth = [f \in TruthFields |-> truth[f]] /\ truth.found = [i \in 1..2 |-> TRUE]
    BY <2>1 DEF Truth, TruthFields
  <2>6. \A res : ScanReadable(Scan("full", rule, res), TRUE)
    BY DEF ScanReadable, Scan
  <2>7. truth.found \in Seq(BOOLEAN) /\ Len(truth.found) = 2 /\ Len(data.scans) = 2 /\ DOMAIN data.scans = 1..2
    <3>1. truth.found \in [1..2 -> BOOLEAN]
      BY <2>5
    <3>2. Len(data.scans) = 2 /\ DOMAIN data.scans = 1..2
      BY <2>4
    <3>. QED  BY <3>1, <3>2, FunctionIsSeq
  <2>8. \A i \in 1..2 : ScanReadable(data.scans[i], truth.found[i])
    <3>1. \A i \in 1..2 : data.scans[i] \in {Scan("full", rule, spelled[1]), Scan("full", rule, spelled[2])}
      BY <2>4
    <3>2. \A i \in 1..2 : truth.found[i] = TRUE
      BY <2>5
    <3>. QED  BY <2>6, <3>1, <3>2
  <2>. QED  BY <2>4, <2>5, <2>7, <2>8 DEF ScansInv
<1>3. CASE OldBlobs
  <2>1. PICK blobs \in Blobs \X Blobs :
          /\ data = BlobsOnly("new", <<"lower", "lower">>, blobs)
          /\ truth = Truth(OfBlobs(blobs))
    BY <1>3 DEF OldBlobs
  <2>2. \A b \in Blobs : Scan(b, "new", "lower") \in Scans
    BY DEF Scan, Scans, Legacy, Fp, Spellings
  <2>3. \A b \in Blobs : ScanReadable(Scan(b, "new", "lower"), b = "full")
    BY DEF ScanReadable, Scan
  <2>4. /\ data = [f \in Fields |-> data[f]]
        /\ data.sup = [fp |-> Legacy("new", "lower"), res |-> "lower"]
    BY <2>1 DEF BlobsOnly, TwoScans, Fields
  <2>5. data.scans = [i \in 1..2 |-> Scan(blobs[i], "new", "lower")]
    <3>1. \A i \in 1..2 : <<"lower", "lower">>[i] = "lower"
      OBVIOUS
    <3>. QED  BY <2>1, <3>1 DEF BlobsOnly, TwoScans
  <2>6. blobs[1] \in Blobs /\ blobs[2] \in Blobs
    OBVIOUS
  <2>7. data.scans \in Seq(Scans) /\ DOMAIN data.scans = 1..2 /\ Len(data.scans) = 2
    BY <2>2, <2>5, <2>6
  <2>8. Shape(data)
    BY <2>4, <2>7 DEF Shape, Spellings
  <2>9. truth = [f \in TruthFields |-> truth[f]] /\ truth.found = [i \in 1..2 |-> blobs[i] = "full"]
    BY <2>1 DEF Truth, OfBlobs, TruthFields
  <2>10. truth.found \in Seq(BOOLEAN) /\ Len(truth.found) = 2
    <3>1. truth.found \in [1..2 -> BOOLEAN]
      BY <2>9
    <3>. QED  BY <3>1, FunctionIsSeq
  <2>. QED  BY <2>3, <2>5, <2>6, <2>7, <2>8, <2>9, <2>10 DEF ScansInv
<1>. QED  BY <1>1, <1>2, <1>3 DEF UpgradeInit

\* What a step of the findings half leaves of the scans, the suppressed resource and the rest.
LEMMA PlainSteps ==
  ASSUME Shape(data),
         DropStandIn \/ RenameRule \/ RemapFindings \/ RemapSuppressions \/ RekeyFingerprintCase
         \/ CopyFindingRows \/ SeedRule \/ BackfillCategory \/ BackfillFindings \/ BackfillSnapshots
  PROVE  Keeps(data, data')
<1>0. Keeps(data, data)
  BY DEF Keeps
<1>1. CASE DropStandIn
  BY <1>0, <1>1 DEF DropStandIn, Keeps, Shape, Fields
<1>2. CASE RenameRule
  BY <1>0, <1>2 DEF RenameRule, Keeps, Shape, Fields
<1>3. CASE RemapFindings
  BY <1>0, <1>3, RemappedKeeps DEF RemapFindings
<1>4. CASE RemapSuppressions
  BY <1>4, RemappedKeeps DEF RemapSuppressions
<1>5. CASE RekeyFingerprintCase
  BY <1>0, <1>5, RekeyingKeeps DEF RekeyFingerprintCase, OwnTransaction
<1>6. CASE CopyFindingRows
  BY <1>0, <1>6, CopyingKeeps DEF CopyFindingRows, OwnTransaction
<1>7. CASE SeedRule
  BY <1>7 DEF SeedRule, Keeps, Shape, Fields
<1>8. CASE BackfillCategory
  BY <1>0, <1>8, RebuiltKeeps DEF BackfillCategory, OwnTransaction
<1>9. CASE BackfillFindings
  BY <1>0, <1>9, MarkedKeeps DEF BackfillFindings
<1>10. CASE BackfillSnapshots
  BY <1>0, <1>10, MarkedKeeps DEF BackfillSnapshots
<1>. QED  BY <1>1, <1>2, <1>3, <1>4, <1>5, <1>6, <1>7, <1>8, <1>9, <1>10

LEMMA ScanTypes ==
  ASSUME ScansInv
  PROVE  /\ DOMAIN data.scans = 1..Len(data.scans) /\ Len(data.scans) \in Nat
         /\ \A i \in DOMAIN data.scans : data.scans[i] \in Scans
<1>1. data.scans \in Seq(Scans)
  BY DEF ScansInv, Shape
<1>. QED  BY <1>1

\* One scan replaced by another as readable.
LEMMA OneScan ==
  ASSUME ScansInv, NEW i \in DOMAIN data.scans, NEW s \in Scans, ScanReadable(s, truth.found[i]),
         data' = [data EXCEPT !.scans[i] = s], UNCHANGED truth
  PROVE  ScansInv'
<1>. DEFINE t == [data.scans EXCEPT ![i] = s]
<1>1. t = [j \in DOMAIN data.scans |-> t[j]]
  OBVIOUS
<1>2. \A j \in DOMAIN data.scans : t[j] = IF j = i THEN s ELSE data.scans[j]
  OBVIOUS
<1>3. \A j \in DOMAIN data.scans : t[j] \in Scans /\ ScanReadable(t[j], truth.found[j])
  BY <1>2, ScanTypes DEF ScansInv
<1>4. data' = [data EXCEPT !.scans = t]
  OBVIOUS
<1>. HIDE DEF t
<1>. QED  BY <1>1, <1>3, <1>4, EachScan

LEMMA RecordsStep ==
  ASSUME ScansInv, UNCHANGED truth, RemapRecords \/ RenameReferences
  PROVE  ScansInv'
<1>1. CASE RemapRecords
  <2>. DEFINE t == [i \in DOMAIN data.scans |-> Recorded(data.scans[i])]
  <2>1. data' = [data EXCEPT !.scans = t]
    BY <1>1 DEF RemapRecords
  <2>2. ASSUME NEW i \in DOMAIN data.scans
        PROVE  Recorded(data.scans[i]) \in Scans /\ ScanReadable(Recorded(data.scans[i]), truth.found[i])
    <3>. DEFINE s == data.scans[i]
                recs == {IF fp[1] = "old" THEN Current("new", fp[2]) ELSE fp : fp \in s.recs}
    <3>1. s \in Scans /\ ScanReadable(s, truth.found[i])
      BY ScanTypes DEF ScansInv
    <3>2. recs \in SUBSET Fp
      BY <3>1 DEF Scans, Fp, Current
    <3>3. (recs = {}) <=> (s.recs = {})
      OBVIOUS
    <3>4. Recorded(s) = [s EXCEPT !.recs = recs]
      BY Zenon DEF Recorded
    <3>. HIDE DEF recs
    <3>. QED  BY <3>1, <3>2, <3>3, <3>4 DEF Scans, ScanReadable
  <2>4. t = [i \in DOMAIN data.scans |-> t[i]]
    OBVIOUS
  <2>5. \A i \in DOMAIN data.scans : t[i] = Recorded(data.scans[i])
    OBVIOUS
  <2>. HIDE DEF t
  <2>. QED  BY <2>1, <2>2, <2>4, <2>5, EachScan
<1>2. CASE RenameReferences
  <2>. DEFINE t == [i \in DOMAIN data.scans |-> [data.scans[i] EXCEPT !.rule = "new"]]
              d == [data EXCEPT !.scans = t]
  <2>1. /\ data'.scans = t /\ data'.sup = data.sup
        /\ data' = [f \in Fields |-> data'[f]]
    BY <1>2 DEF RenameReferences, ScansInv, Shape, Fields
  <2>2. ASSUME NEW i \in DOMAIN data.scans
        PROVE  t[i] \in Scans /\ ScanReadable(t[i], truth.found[i])
    BY ScanTypes DEF Scans, ScanReadable, ScansInv
  <2>3. t = [i \in DOMAIN data.scans |-> t[i]]
    OBVIOUS
  <2>. HIDE DEF t
  <2>4. t \in Seq(Scans) /\ Len(t) = Len(data.scans) /\ DOMAIN t = DOMAIN data.scans
    <3>. DEFINE n == Len(data.scans)
    <3>1. n \in Nat /\ t \in [1..n -> Scans]
      BY <2>2, <2>3, ScanTypes
    <3>. QED  BY <3>1, ScanTypes, FunctionIsSeq
  <2>5. Shape(data')
    BY <2>1, <2>4 DEF ScansInv, Shape
  <2>. QED  BY <2>1, <2>2, <2>4, <2>5 DEF ScansInv
<1>. QED  BY <1>1, <1>2

LEMMA BlobsStep ==
  ASSUME ScansInv, UNCHANGED truth, ConvertScanBlobs \/ EmptyScanBlobs
  PROVE  ScansInv'
<1>0. Keeps(data, data)
  BY DEF Keeps, ScansInv
<1>1. CASE data' = data
  BY <1>1 DEF ScansInv
<1>2. ASSUME NEW i \in DOMAIN data.scans, ~data.scans[i].has, data.scans[i].blob # "bad",
             data' = [data EXCEPT !.scans[i] = Converted(data.scans[i])]
      PROVE  ScansInv'
  <2>. DEFINE s == data.scans[i]
  <2>1. s \in Scans /\ ScanReadable(s, truth.found[i])
    BY ScanTypes DEF ScansInv
  <2>2. Current(s.rule, s.res) \in Fp
    BY <2>1 DEF Scans, Current, Fp
  <2>3. Converted(s) \in Scans
    BY <2>1, <2>2 DEF Scans, Converted
  <2>4. ScanReadable(Converted(s), truth.found[i])
    BY <2>1, <1>2 DEF Scans, Converted, ScanReadable
  <2>. QED  BY <1>2, <2>3, <2>4, OneScan
<1>3. ASSUME NEW i \in DOMAIN data.scans, data.scans[i].has,
             data' = [data EXCEPT !.scans[i].blob = "empty"]
      PROVE  ScansInv'
  <2>. DEFINE s == data.scans[i]
              t == [s EXCEPT !.blob = "empty"]
  <2>1. s \in Scans /\ ScanReadable(s, truth.found[i])
    BY ScanTypes DEF ScansInv
  <2>2. t \in Scans /\ ScanReadable(t, truth.found[i])
    BY <2>1, <1>3 DEF Scans, Blobs, ScanReadable
  <2>3. data' = [data EXCEPT !.scans[i] = t]
    BY <1>3
  <2>. QED  BY <2>2, <2>3, OneScan
<1>4. CASE ConvertScanBlobs
  BY <1>1, <1>2, <1>4 DEF ConvertScanBlobs, Pending
<1>5. CASE EmptyScanBlobs
  BY <1>1, <1>3, <1>5 DEF EmptyScanBlobs, Emptyable
<1>. QED  BY <1>4, <1>5

\* A scan that is saved, with what it found.
LEMMA SavedScan ==
  ASSUME ScansInv, NEW s \in Scans, NEW found \in BOOLEAN, ScanReadable(s, found),
         data' = [f \in Fields |-> data'[f]], data'.sup = data.sup, data'.scans = Append(data.scans, s),
         truth' = [f \in TruthFields |-> truth'[f]], truth'.found = Append(truth.found, found)
  PROVE  ScansInv'
<1>1. data.scans \in Seq(Scans) /\ truth.found \in Seq(BOOLEAN) /\ Len(truth.found) = Len(data.scans)
  BY DEF ScansInv, Shape
<1>. DEFINE n == Len(data.scans)
<1>2. n \in Nat /\ DOMAIN data.scans = 1..n
  BY <1>1
<1>3. /\ data'.scans \in Seq(Scans) /\ Len(data'.scans) = n + 1
      /\ DOMAIN data'.scans = 1..(n + 1)
      /\ data'.scans[n + 1] = s /\ \A i \in 1..n : data'.scans[i] = data.scans[i]
  BY <1>1
<1>4. /\ truth'.found \in Seq(BOOLEAN) /\ Len(truth'.found) = n + 1
      /\ truth'.found[n + 1] = found /\ \A i \in 1..n : truth'.found[i] = truth.found[i]
  BY <1>1, AppendProperties
<1>5. Shape(data')
  BY <1>3 DEF ScansInv, Shape
<1>6. \A i \in 1..n : ScanReadable(data.scans[i], truth.found[i])
  BY <1>2 DEF ScansInv
<1>7. \A i \in DOMAIN data'.scans : ScanReadable(data'.scans[i], truth'.found[i])
  <2>1. \A i \in DOMAIN data'.scans : i = n + 1 \/ i \in 1..n
    BY <1>2, <1>3
  <2>. HIDE DEF n
  <2>. QED  BY <1>3, <1>4, <1>6, <2>1
<1>. QED  BY <1>3, <1>4, <1>5, <1>7 DEF ScansInv

LEMMA Saw ==
  ASSUME truth = [f \in TruthFields |-> truth[f]]
  PROVE  /\ \A complete \in BOOLEAN : SawIt(complete) =>
              /\ truth' = [f \in TruthFields |-> truth'[f]]
              /\ truth'.found = Append(truth.found, TRUE) /\ truth'.listed = truth.listed
              /\ truth'.split = (truth.split \/ "rekeyed" \notin data.marks)
         /\ SawNothing =>
              /\ truth' = [f \in TruthFields |-> truth'[f]]
              /\ truth'.found = Append(truth.found, FALSE) /\ truth'.listed = truth.listed
              /\ truth'.split = truth.split
BY DEF SawIt, SawNothing, TruthFields

LEMMA ServeScans ==
  ASSUME ScansInv, Serve
  PROVE  ScansInv'
<1>0. Keeps(data, data) /\ truth = [f \in TruthFields |-> truth[f]] /\ data = [f \in Fields |-> data[f]]
  BY DEF Keeps, ScansInv, Shape
<1>1. ASSUME NEW spelling \in Spellings, NEW complete \in BOOLEAN, ScanFinds(spelling, complete)
      PROVE  ScansInv'
  <2>. DEFINE s == [Scan("empty", "new", spelling) EXCEPT !.has = TRUE, !.recs = {Here}]
  <2>1. s \in Scans /\ ScanReadable(s, TRUE)
    <3>1. Here \in Fp /\ Legacy("new", spelling) \in Fp
      BY DEF Legacy, Here, Current, Fp, Spellings
    <3>2. s \in Scans /\ s.has = TRUE /\ s.recs = {Here}
      BY <3>1 DEF Scan, Scans, Blobs, Spellings
    <3>. HIDE DEF s
    <3>. QED  BY <3>2 DEF ScanReadable
  <2>2. data' = [f \in Fields |-> data'[f]] /\ data'.sup = data.sup /\ data'.scans = Append(data.scans, s)
    BY <1>0, <1>1 DEF ScanFinds, Fields
  <2>3. SawIt(complete)
    BY <1>1 DEF ScanFinds
  <2>. HIDE DEF s
  <2>. QED  BY <2>1, <2>2, <2>3, <1>0, Saw, SavedScan
<1>2. CASE ScanFindsNothing
  <2>. DEFINE s == [Scan("empty", "new", "lower") EXCEPT !.has = TRUE]
  <2>1. s \in Scans /\ ScanReadable(s, FALSE)
    BY DEF Scan, Scans, Blobs, Legacy, Fp, Spellings, ScanReadable
  <2>2. data' = [f \in Fields |-> data'[f]] /\ data'.sup = data.sup /\ data'.scans = Append(data.scans, s)
    BY <1>0, <1>2 DEF ScanFindsNothing, Fields
  <2>3. SawNothing
    BY <1>2 DEF ScanFindsNothing
  <2>. HIDE DEF s
  <2>. QED  BY <2>1, <2>2, <2>3, <1>0, Saw, SavedScan
<1>3. ASSUME NEW spelling \in Spellings, NEW found \in BOOLEAN, PreviousScan(spelling, found)
      PROVE  ScansInv'
  <2>. DEFINE s == [Scan(IF found THEN "full" ELSE "empty", "new", spelling) EXCEPT !.fp = Here]
  <2>1. s \in Scans /\ ScanReadable(s, found)
    BY DEF Scan, Scans, Blobs, Legacy, Here, Current, Fp, Spellings, ScanReadable
  <2>2. data' = [f \in Fields |-> data'[f]] /\ data'.sup = data.sup /\ data'.scans = Append(data.scans, s)
    BY <1>0, <1>3 DEF PreviousScan, Fields
  <2>3. IF found THEN SawIt(TRUE) ELSE SawNothing
    BY <1>3 DEF PreviousScan
  <2>4. truth' = [f \in TruthFields |-> truth'[f]] /\ truth'.found = Append(truth.found, found)
    BY <2>3, <1>0, Saw
  <2>. HIDE DEF s
  <2>. QED  BY <2>1, <2>2, <2>4, SavedScan
<1>4. CASE GoBack
  BY <1>4 DEF GoBack, ScansInv
<1>5. CASE PreviousDeletes
  <2>1. Keeps(data, data')
    BY <1>0, <1>5 DEF PreviousDeletes, Keeps, Shape, Fields
  <2>2. truth' = [f \in TruthFields |-> truth'[f]] /\ truth'.found = truth.found
    BY <1>0, <1>5 DEF PreviousDeletes, TruthFields
  <2>. QED  BY <2>1, <2>2 DEF ScansInv, Keeps
<1>. QED  BY <1>1, <1>2, <1>3, <1>4, <1>5 DEF Serve, Spellings

LEMMA ScansNext ==
  ASSUME ScansInv, [UpgradeNext]_upgradeVars
  PROVE  ScansInv'
<1>0. Shape(data)
  BY DEF ScansInv
<1>1. CASE UNCHANGED <<data, truth>>
  BY <1>1 DEF ScansInv
<1>2. CASE FindingStep /\ UNCHANGED truth
  BY <1>0, <1>2, PlainSteps, SameScans, RecordsStep, BlobsStep DEF FindingStep
<1>3. CASE CrashInRemap
  BY <1>0, <1>3, RemappedKeeps, SameScans DEF CrashInRemap
<1>4. CASE Serve
  BY <1>4, ServeScans
<1>. QED  BY <1>1, <1>2, <1>3, <1>4 DEF UpgradeNext, upgradeVars, Boot, Upgrade, Crash, Restart

LEMMA ScansAlways == UpgradeSpec => []ScansInv
<1>. QED  BY ScansInit, ScansNext, PTL DEF UpgradeSpec

\* Every scan stays readable through the upgrade, its failures and stops, and the scans of
\* either release: the records of one that has them say whether it found something, and
\* its blob says so until then.
THEOREM ScansStayReadable == UpgradeSpec => []ScansReadable
<1>1. ScansInv => ScansReadable
  BY DEF ScansInv, ScansReadable, ScanReadable
<1>. QED  BY <1>1, ScansAlways, PTL

-----------------------------------------------------------------------------
(* The fingerprints kept beside the finding *)

SupNamed ==
    /\ data.sup.fp # NoEvent =>
          /\ data.rules # {} /\ data.rules \subseteq {"old", "new"}
          /\ at \in 29..Back => "new" \in data.rules
    /\ data.sup.fp \in {NoEvent, Here, Legacy("old", data.sup.res), Legacy("new", data.sup.res)}
    /\ at \in 31..Back => data.sup.fp \in {NoEvent, Here, Legacy("new", data.sup.res)}
    /\ "rekeyed" \in data.marks => data.sup.fp \in {NoEvent, Here}

\* Findings under the case-sensitive formula of their own rule and resource.
FirstNames(fin) ==
    \A fp \in DOMAIN fin :
        /\ {"rule", "res"} \subseteq DOMAIN fin[fp]
        /\ fin[fp].rule \in {"old", "new"} /\ fin[fp].res \in Spellings
        /\ fp = Legacy(fin[fp].rule, fin[fp].res)

AllNew(fin) == \A fp \in DOMAIN fin : fin[fp].rule = "new"

\* The event's finding is still there, under its first name, and is the one that moves.
EventWaits ==
    /\ data.event \in DOMAIN data.fin /\ FirstNames(data.fin)
    /\ \A fp \in DOMAIN data.fin : fp = data.event \/ data.fin[fp].rule = "new"
    /\ at = 29 => data.event \notin seen
    /\ at \in 30..Back => AllNew(data.fin)

EventNamed ==
    (data.event # NoEvent /\ ~truth.split /\ ~torn) =>
        /\ "findings" \in data.marks
        /\ data.event = Here \/ ("rekeyed" \notin data.marks /\ EventWaits)

ListWaits ==
    /\ FirstNames(data.fin) /\ AllNew(data.fin)
    /\ \E fp \in DOMAIN data.fin : data.list = {fp}

ListNamed ==
    (truth.listed /\ ~truth.split) =>
        /\ "findings" \in data.marks
        /\ IF "rekeyed" \in data.marks THEN data.list = {Here} ELSE ListWaits

NamesInv ==
    /\ ScansInv
    /\ at \in 0..Back
    /\ at = Back => "rekeyed" \in data.marks
    /\ SupNamed /\ EventNamed /\ ListNamed

LEMMA NamesInit == UpgradeInit => NamesInv
<1>. SUFFICES ASSUME UpgradeInit PROVE NamesInv
  OBVIOUS
<1>0. ScansInv /\ at = 0 /\ torn = FALSE /\ at \in 0..Back /\ at # Back /\ at \notin 29..Back /\ at \notin 31..Back /\ at # 29 /\ at \notin 30..Back
  BY ScansInit, FindingAt DEF UpgradeInit, SchemaSteps
<1>1. CASE OldSchema
  <2>1. data = Fresh /\ truth.listed = FALSE
    BY <1>1 DEF OldSchema, Truth
  <2>. QED  BY <2>1, <1>0 DEF Fresh, NamesInv, SupNamed, EventNamed, ListNamed
<1>2. CASE OldFindings
  <2>1. PICK rule \in {"old", "new"}, spelled \in Spelled, standIn \in BOOLEAN :
          /\ rule = "old" => spelled[1] = spelled[2]
          /\ data = [TwoScans(rule, spelled) EXCEPT !.rules = @ \cup IF standIn THEN {"new"} ELSE {}]
          /\ truth = Truth([first |-> 1, times |-> 2, rows |-> 2, open |-> TRUE,
                            found |-> [i \in 1..2 |-> TRUE], listed |-> rule = "new"])
    BY <1>2 DEF OldFindings
  <2>. DEFINE earlier == Legacy(rule, spelled[1])
              later == Legacy(rule, spelled[2])
  <2>2. spelled[1] \in Spellings /\ spelled[2] \in Spellings
    BY SpellingsAreKnown DEF Spellings
  <2>3. /\ data.sup.fp = later /\ data.sup.res = spelled[2] /\ data.event = earlier /\ data.list = {later}
        /\ data.marks = {"findings", "snapshots"}
        /\ data.rules # {} /\ data.rules \subseteq {"old", "new"}
    BY <2>1 DEF TwoScans
  <2>4. truth.listed = (rule = "new")
    BY <2>1 DEF Truth
  <2>5. /\ DOMAIN data.fin = {earlier, later}
        /\ \A fp \in DOMAIN data.fin :
              /\ {"rule", "res"} \subseteq DOMAIN data.fin[fp]
              /\ data.fin[fp].rule = rule
              /\ data.fin[fp].res = IF fp = later THEN spelled[2] ELSE spelled[1]
    <3>1. CASE earlier = later
      <4>1. data.fin = [fp \in {later} |-> Found(rule, spelled[2], 2, 1, 2, TRUE)]
        BY <2>1, <3>1 DEF TwoScans
      <4>. QED  BY <3>1, <4>1 DEF Found
    <3>2. CASE earlier # later
      <4>1. data.fin = [fp \in {earlier, later} |->
                        IF fp = later THEN Found(rule, spelled[2], 2, 2, 1, TRUE)
                        ELSE Found(rule, spelled[1], 1, 1, 1, FALSE)]
        BY <2>1, <3>2 DEF TwoScans
      <4>. QED  BY <4>1 DEF Found
    <3>. QED  BY <3>1, <3>2
  <2>6. FirstNames(data.fin)
    BY <2>2, <2>5 DEF FirstNames
  <2>7. SupNamed
    BY <1>0, <2>3 DEF SupNamed
  <2>8. EventNamed
    BY <1>0, <2>1, <2>3, <2>5, <2>6 DEF EventNamed, EventWaits
  <2>9. ListNamed
    BY <1>0, <2>3, <2>4, <2>5, <2>6 DEF ListNamed, ListWaits, AllNew
  <2>. QED  BY <1>0, <2>7, <2>8, <2>9 DEF NamesInv
<1>3. CASE OldBlobs
  <2>1. /\ data.sup = [fp |-> Legacy("new", "lower"), res |-> "lower"] /\ data.event = NoEvent
        /\ data.marks = {} /\ data.rules = {"new"} /\ truth.listed = FALSE
    BY <1>3 DEF OldBlobs, BlobsOnly, TwoScans, Truth, OfBlobs
  <2>. QED  BY <1>0, <2>1 DEF NamesInv, SupNamed, EventNamed, ListNamed
<1>. QED  BY <1>1, <1>2, <1>3 DEF UpgradeInit

\* One round of the rekey, for what it leaves and what follows the survivor.
LEMMA Rekey1Names ==
  ASSUME NEW d, Shape(d), NEW next
  PROVE  LET e == Rekey1(d, next)
             group == Group(d, next)
             still == group = {} \/ (next \in DOMAIN d.fin /\ next \notin group)
             lone == \E r \in d.rules : Legacy(r, d.sup.res) = d.sup.fp /\ Current(r, d.sup.res) = next
         IN  /\ still => e.event = d.event /\ e.list = d.list /\ e.fin = d.fin
             /\ ~still => /\ e.event = IF d.event \in group THEN next ELSE d.event
                          /\ e.list = {IF fp \in group THEN next ELSE fp : fp \in d.list}
             /\ lone => e.sup.fp = next
             /\ e.sup.fp \in {d.sup.fp, next}
             /\ (~lone /\ d.sup.fp \notin group) => e.sup.fp = d.sup.fp
BY DEF Rekey1, Shape, Fields

\* The rekey brings the suppression, the event and a waiting notification to today's name.
LEMMA RekeyingNames ==
  ASSUME NEW d, Shape(d), "rekeyed" \notin d.marks
  PROVE  LET e == Rekeying(d)
         IN  /\ (d.sup.fp \in {NoEvent, Here, Legacy("new", d.sup.res)} /\ (d.sup.fp # NoEvent => "new" \in d.rules))
                   => e.sup.fp \in {NoEvent, Here} /\ (d.sup.fp = NoEvent => e.sup.fp = NoEvent)
             /\ d.event = Here => e.event = Here
             /\ (FirstNames(d.fin) /\ AllNew(d.fin)) =>
                   /\ d.event \in DOMAIN d.fin => e.event = Here
                   /\ (\E fp \in DOMAIN d.fin : d.list = {fp}) => e.list = {Here}
             /\ d.event = NoEvent => e.event = NoEvent
<1>. DEFINE old == Current("old", "lower")
            one == Rekey1(d, old)
            two == Rekey1(one, Here)
            e == Rekeying(d)
<1>1. Shape(one) /\ one.rules = d.rules /\ one.marks = d.marks /\ one.sup.res = d.sup.res
  BY Rekey1Keeps DEF Keeps
<1>2. Shape(two)
  BY <1>1, Rekey1Keeps DEF Keeps
<1>3. e = [two EXCEPT !.marks = two.marks \cup {"rekeyed"}]
  BY DEF Rekeying, Here
<1>4. e.sup = two.sup /\ e.event = two.event /\ e.list = two.list
  BY <1>2, <1>3 DEF Shape, Fields
<1>5. \A fp \in Group(d, old) : fp = Legacy("old", fp[2]) /\ d.fin[fp].rule = "old"
  BY DEF Group, Legacy, Current
<1>6. Here = <<"new", "lower">> /\ old = <<"old", "lower">> /\ NoEvent = <<>>
  BY DEF Here, Current, NoEvent
<1>7. \A r, res : Legacy(r, res) = <<r, res>> /\ Current(r, res) = <<r, "lower">>
  BY DEF Legacy, Current
<1>8. Here \notin Group(d, old) /\ Legacy("new", d.sup.res) \notin Group(d, old)
  BY <1>5, <1>6, <1>7
<1>9. NoEvent \notin Group(d, old) /\ NoEvent \notin Group(one, Here)
  BY <1>6, <1>7 DEF Group
<1>10. ASSUME d.sup.fp \in {NoEvent, Here, Legacy("new", d.sup.res)}, d.sup.fp # NoEvent => "new" \in d.rules
       PROVE  e.sup.fp \in {NoEvent, Here} /\ (d.sup.fp = NoEvent => e.sup.fp = NoEvent)
  <2>1. one.sup.fp = d.sup.fp
    <3>1. ~(\E r \in d.rules : Legacy(r, d.sup.res) = d.sup.fp /\ Current(r, d.sup.res) = old)
      BY <1>6, <1>7, <1>10
    <3>2. d.sup.fp \notin Group(d, old)
      BY <1>8, <1>9, <1>10
    <3>. QED  BY <3>1, <3>2, Rekey1Names
  <2>2. CASE one.sup.fp = NoEvent
    <3>1. ~(\E r \in one.rules : Legacy(r, one.sup.res) = one.sup.fp /\ Current(r, one.sup.res) = Here)
      BY <1>6, <1>7, <2>2
    <3>2. two.sup.fp = NoEvent
      BY <1>1, <1>9, <2>2, <3>1, Rekey1Names
    <3>. QED  BY <1>4, <3>2
  <2>3. CASE one.sup.fp = Here
    <3>1. two.sup.fp = Here
      BY <1>1, <2>3, Rekey1Names
    <3>. QED  BY <1>4, <1>6, <2>1, <2>3, <3>1
  <2>4. CASE one.sup.fp = Legacy("new", d.sup.res)
    <3>1. one.sup.fp # NoEvent
      BY <1>6, <1>7, <2>4
    <3>2. "new" \in one.rules
      BY <1>1, <1>10, <2>1, <3>1
    <3>3. \E r \in one.rules : Legacy(r, one.sup.res) = one.sup.fp /\ Current(r, one.sup.res) = Here
      BY <1>1, <1>6, <1>7, <2>4, <3>2
    <3>4. two.sup.fp = Here
      BY <1>1, <3>3, Rekey1Names
    <3>. QED  BY <1>4, <2>1, <3>1, <3>4
  <2>. QED  BY <1>10, <2>1, <2>2, <2>3, <2>4
<1>11. ASSUME d.event = Here PROVE e.event = Here
  <2>1. one.event = Here
    BY <1>8, <1>11, Rekey1Names
  <2>2. two.event = Here
    BY <1>1, <2>1, Rekey1Names
  <2>. QED  BY <1>4, <2>2
<1>12. ASSUME d.event = NoEvent PROVE e.event = NoEvent
  <2>1. one.event = NoEvent
    BY <1>9, <1>12, Rekey1Names
  <2>2. two.event = NoEvent
    BY <1>1, <1>9, <2>1, Rekey1Names
  <2>. QED  BY <1>4, <2>2
<1>13. ASSUME FirstNames(d.fin), AllNew(d.fin)
       PROVE  /\ d.event \in DOMAIN d.fin => e.event = Here
              /\ (\E fp \in DOMAIN d.fin : d.list = {fp}) => e.list = {Here}
  <2>1. Group(d, old) = {}
    BY <1>5, <1>13 DEF AllNew, Group
  <2>2. one.event = d.event /\ one.list = d.list /\ one.fin = d.fin
    BY <2>1, Rekey1Names
  <2>3. Group(one, Here) = DOMAIN d.fin
    BY <1>6, <1>7, <1>13, <2>2 DEF Group, FirstNames, AllNew
  <2>4. ASSUME NEW fp \in DOMAIN d.fin
        PROVE  /\ two.event = IF d.event \in DOMAIN d.fin THEN Here ELSE d.event
               /\ two.list = {IF x \in DOMAIN d.fin THEN Here ELSE x : x \in d.list}
    <3>1. ~(Group(one, Here) = {} \/ (Here \in DOMAIN one.fin /\ Here \notin Group(one, Here)))
      BY <2>2, <2>3
    <3>2. /\ two.event = IF one.event \in Group(one, Here) THEN Here ELSE one.event
          /\ two.list = {IF x \in Group(one, Here) THEN Here ELSE x : x \in one.list}
      BY <1>1, <3>1, Rekey1Names
    <3>. QED  BY <2>2, <2>3, <3>2
  <2>5. d.event \in DOMAIN d.fin => e.event = Here
    BY <1>4, <2>4
  <2>6. ASSUME NEW fp \in DOMAIN d.fin, d.list = {fp} PROVE e.list = {Here}
    BY <1>4, <2>4, <2>6
  <2>. QED  BY <2>5, <2>6
<1>. QED  BY <1>10, <1>11, <1>12, <1>13

\* The same findings of the same rules and resources.
SameNames(f, g) ==
    /\ DOMAIN g = DOMAIN f
    /\ \A fp \in DOMAIN f : {"rule", "res"} \subseteq DOMAIN g[fp] /\ g[fp].rule = f[fp].rule /\ g[fp].res = f[fp].res

\* A step that moves no name keeps the invariant, wherever it takes the start.
LEMMA NamesKept ==
  ASSUME NamesInv, ScansInv', at' \in 0..Back,
         data'.sup = data.sup, data'.event = data.event, data'.list = data.list,
         "rekeyed" \in data'.marks <=> "rekeyed" \in data.marks,
         "findings" \in data.marks => "findings" \in data'.marks,
         ~truth'.split => ~truth.split, truth'.listed = truth.listed, ~torn' => ~torn,
         at' = Back => "rekeyed" \in data'.marks,
         data.sup.fp # NoEvent => data'.rules # {} /\ data'.rules \subseteq {"old", "new"},
         (data.sup.fp # NoEvent /\ at' \in 29..Back) => "new" \in data'.rules,
         at' \in 30..Back => at \in 30..Back,
         at' \in 31..Back => at \in 31..Back,
         at' = 29 => (at = 29 /\ seen' = seen) \/ seen' = {},
         ("findings" \in data.marks /\ "rekeyed" \notin data.marks /\ ~truth'.split /\ FirstNames(data.fin)
            /\ (at \in 30..Back => AllNew(data.fin))) => SameNames(data.fin, data'.fin)
  PROVE  NamesInv'
<1>1. SupNamed'
  BY DEF NamesInv, SupNamed, Here
<1>2. FirstNames(data.fin) /\ SameNames(data.fin, data'.fin) => FirstNames(data'.fin)
  BY DEF FirstNames, SameNames
<1>3. AllNew(data.fin) /\ SameNames(data.fin, data'.fin) => AllNew(data'.fin)
  BY DEF AllNew, SameNames
<1>4. Here' = Here /\ NoEvent' = NoEvent
  BY DEF Here, NoEvent
<1>5. EventNamed'
  <2>. SUFFICES ASSUME data'.event # NoEvent, ~truth'.split, ~torn'
                PROVE  /\ "findings" \in data'.marks
                       /\ data'.event = Here \/ ("rekeyed" \notin data'.marks /\ EventWaits')
    BY <1>4 DEF EventNamed
  <2>1. "findings" \in data.marks /\ (data.event = Here \/ ("rekeyed" \notin data.marks /\ EventWaits))
    BY DEF NamesInv, EventNamed
  <2>2. ASSUME "rekeyed" \notin data.marks, EventWaits PROVE EventWaits'
    <3>1. SameNames(data.fin, data'.fin)
      BY <2>1, <2>2 DEF EventWaits
    <3>2. FirstNames(data'.fin)
      BY <1>2, <2>2, <3>1 DEF EventWaits
    <3>3. data'.event \in DOMAIN data'.fin /\ \A fp \in DOMAIN data'.fin : fp = data'.event \/ data'.fin[fp].rule = "new"
      BY <2>2, <3>1 DEF EventWaits, SameNames
    <3>4. at' = 29 => data'.event \notin seen'
      BY <2>2 DEF EventWaits
    <3>5. at' \in 30..Back => AllNew(data'.fin)
      BY <1>3, <2>2, <3>1 DEF EventWaits
    <3>. QED  BY <3>2, <3>3, <3>4, <3>5 DEF EventWaits, Back, Serving
  <2>. QED  BY <2>1, <2>2
<1>6. ListNamed'
  <2>. SUFFICES ASSUME truth'.listed, ~truth'.split
                PROVE  /\ "findings" \in data'.marks
                       /\ IF "rekeyed" \in data'.marks THEN data'.list = {Here} ELSE ListWaits'
    BY <1>4 DEF ListNamed
  <2>1. "findings" \in data.marks /\ IF "rekeyed" \in data.marks THEN data.list = {Here} ELSE ListWaits
    BY DEF NamesInv, ListNamed
  <2>2. ASSUME "rekeyed" \notin data.marks PROVE ListWaits'
    <3>1. ListWaits
      BY <2>1, <2>2
    <3>2. SameNames(data.fin, data'.fin)
      BY <2>1, <2>2, <3>1 DEF ListWaits
    <3>. QED  BY <1>2, <1>3, <3>1, <3>2 DEF ListWaits, SameNames
  <2>. QED  BY <2>1, <2>2
<1>. QED  BY <1>1, <1>5, <1>6 DEF NamesInv, Back, Serving

LEMMA UnchangedNames == \A f : FirstNames(f) => SameNames(f, f)
BY DEF FirstNames, SameNames

LEMMA Ends == Serving = 41 /\ Back = 42
BY FindingAt DEF SchemaSteps

\* The steps that leave the names alone, but for the rule's own.
LEMMA QuietSteps ==
  ASSUME NamesInv, ScansInv', UNCHANGED <<truth, torn>>,
         \/ DropStandIn \/ RenameRule \/ RemapRecords \/ CopyFindingRows \/ ConvertScanBlobs
         \/ EmptyScanBlobs \/ SeedRule \/ BackfillFindings \/ BackfillSnapshots
  PROVE  NamesInv'
<1>. USE Ends, FindingSequence
<1>0. Shape(data) /\ SupNamed
  BY DEF NamesInv, ScansInv
<1>1. CASE DropStandIn
  <2>1. at = 27 /\ at' = 28 /\ seen' = {}
    BY <1>1 DEF DropStandIn, FDoes
  <2>2. /\ data'.sup = data.sup /\ data'.event = data.event /\ data'.list = data.list
        /\ data'.marks = data.marks /\ data'.fin = data.fin
        /\ data'.rules = IF data.rules = {"old", "new"} THEN {"old"} ELSE data.rules
    BY <1>0, <1>1 DEF DropStandIn, Shape, Fields
  <2>. QED  BY <1>0, <2>1, <2>2, NamesKept, UnchangedNames DEF SupNamed
<1>2. CASE RenameRule
  <2>1. at = 28 /\ at' = 29 /\ seen' = {}
    BY <1>2 DEF RenameRule, FDoes
  <2>2. /\ data'.sup = data.sup /\ data'.event = data.event /\ data'.list = data.list
        /\ data'.marks = data.marks /\ data'.fin = data.fin
        /\ data'.rules = IF "old" \in data.rules THEN {"new"} ELSE data.rules
    BY <1>0, <1>2 DEF RenameRule, Shape, Fields
  <2>. QED  BY <1>0, <2>1, <2>2, NamesKept, UnchangedNames DEF SupNamed
<1>3. CASE RemapRecords
  <2>1. at = 31 /\ at' = 32 /\ seen' = {}
    BY <1>3 DEF RemapRecords, FDoes
  <2>2. /\ data'.sup = data.sup /\ data'.event = data.event /\ data'.list = data.list
        /\ data'.marks = data.marks /\ data'.fin = data.fin /\ data'.rules = data.rules
    BY <1>0, <1>3 DEF RemapRecords, Shape, Fields
  <2>. QED  BY <1>0, <2>1, <2>2, NamesKept, UnchangedNames DEF SupNamed
<1>4. CASE CopyFindingRows
  <2>1. at = 34 /\ at' = 35 /\ seen' = {}
    BY <1>4 DEF CopyFindingRows, OwnTransaction, FDoes
  <2>2. /\ data'.sup = data.sup /\ data'.event = data.event /\ data'.list = data.list
        /\ data'.marks \in {data.marks, data.marks \cup {"copied"}} /\ data'.rules = data.rules
    BY <1>0, <1>4, CopyingKeeps DEF CopyFindingRows, OwnTransaction
  <2>3. FirstNames(data.fin) => SameNames(data.fin, data'.fin)
    <3>1. FirstNames(data.fin) => SameNames(data.fin, CopyingRows(data).fin)
      BY <1>0 DEF CopyingRows, Shape, Fields, SameNames, FirstNames
    <3>. QED  BY <1>4, <3>1, UnchangedNames DEF CopyFindingRows, OwnTransaction
  <2>. QED  BY <1>0, <2>1, <2>2, <2>3, NamesKept DEF SupNamed
<1>5. CASE ConvertScanBlobs \/ EmptyScanBlobs
  <2>1. at \in 35..36 /\ at' \in at..(at + 1)
    BY <1>5 DEF ConvertScanBlobs, EmptyScanBlobs, FDoes
  <2>2. /\ data'.sup = data.sup /\ data'.event = data.event /\ data'.list = data.list
        /\ data'.marks = data.marks /\ data'.fin = data.fin /\ data'.rules = data.rules
    BY <1>0, <1>5 DEF ConvertScanBlobs, EmptyScanBlobs, Shape, Fields
  <2>. QED  BY <1>0, <2>1, <2>2, NamesKept, UnchangedNames DEF SupNamed
<1>6. CASE SeedRule
  <2>1. at = 37 /\ at' = 38 /\ seen' = {}
    BY <1>6 DEF SeedRule, FDoes
  <2>2. /\ data'.sup = data.sup /\ data'.event = data.event /\ data'.list = data.list
        /\ data'.marks = data.marks /\ data'.fin = data.fin /\ data'.rules = data.rules \cup {"new"}
    BY <1>0, <1>6 DEF SeedRule, Shape, Fields
  <2>. QED  BY <1>0, <2>1, <2>2, NamesKept, UnchangedNames DEF SupNamed
<1>7. CASE BackfillFindings \/ BackfillSnapshots
  <2>1. at \in 39..40 /\ at' = at + 1 /\ seen' = {}
    BY <1>7 DEF BackfillFindings, BackfillSnapshots, FDoes
  <2>2. /\ data'.sup = data.sup /\ data'.event = data.event /\ data'.list = data.list
        /\ data'.marks \in {data.marks, data.marks \cup {"findings"}, data.marks \cup {"snapshots"}}
        /\ data'.fin = data.fin /\ data'.rules = data.rules
    BY <1>0, <1>7, MarkedKeeps DEF BackfillFindings, BackfillSnapshots
  <2>. QED  BY <1>0, <2>1, <2>2, NamesKept, UnchangedNames DEF SupNamed
<1>. QED  BY <1>1, <1>2, <1>3, <1>4, <1>5, <1>6, <1>7

LEMMA PairNames ==
    /\ Here = <<"new", "lower">> /\ NoEvent = <<>> /\ "old" # "new"
    /\ \A r, res : Legacy(r, res) = <<r, res>> /\ Current(r, res) = <<r, "lower">>
    /\ \A res : OldKeys(res) = {<<"old", "lower">>, <<"old", res>>} /\ Here \notin OldKeys(res) /\ NoEvent \notin OldKeys(res)
BY DEF Here, NoEvent, Legacy, Current, OldKeys

\* remap() of one finding, or as much of it as ran before the process stopped.
LEMMA MoveFinding ==
  ASSUME NamesInv, ScansInv', UNCHANGED truth, at = 29, NEW fp \in ToRemap, NEW n \in 1..4,
         data' = Remapped(data, fp, data.fin[fp].res, n),
         \/ n = 4 /\ at' = 29 /\ seen' = seen \cup {fp, Current("new", data.fin[fp].res)} /\ UNCHANGED torn
         \/ at' = 0 /\ torn' = TRUE
  PROVE  NamesInv'
<1>. DEFINE res == data.fin[fp].res
<1>. USE Ends
<1>0. Shape(data)
  BY DEF NamesInv, ScansInv
<1>1. /\ data'.rules = data.rules /\ data'.list = data.list /\ data'.marks = data.marks /\ data'.sup.res = data.sup.res
      /\ data'.event = IF fp \in OldKeys(res) /\ n >= 2 /\ data.event = fp THEN Here ELSE data.event
      /\ data'.sup.fp \in {data.sup.fp, Here} /\ (data.sup.fp = NoEvent => data'.sup.fp = NoEvent)
  BY <1>0, RemappedKeeps, PairNames DEF Keeps, Here, Current
<1>2. fp \in DOMAIN data.fin /\ data.fin[fp].rule = "old" /\ fp \notin seen
  BY DEF ToRemap
<1>3. Here' = Here /\ NoEvent' = NoEvent
  BY DEF Here, NoEvent
<1>4. SupNamed'
  BY <1>1, <1>3 DEF NamesInv, SupNamed
<1>5. EventNamed'
  <2>. SUFFICES ASSUME data'.event # NoEvent, ~truth'.split, ~torn'
                PROVE  "findings" \in data'.marks /\ data'.event = Here
    BY <1>3 DEF EventNamed
  <2>1. n = 4 /\ ~torn
    OBVIOUS
  <2>2. data.event # NoEvent
    BY <1>1, PairNames
  <2>3. "findings" \in data.marks /\ (data.event = Here \/ ("rekeyed" \notin data.marks /\ EventWaits))
    BY <2>1, <2>2 DEF NamesInv, EventNamed
  <2>4. CASE data.event = Here
    BY <1>1, <2>3, <2>4
  <2>5. CASE EventWaits
    <3>1. data.event = fp /\ fp = Legacy("old", res)
      BY <1>2, <2>5 DEF EventWaits, FirstNames
    <3>2. fp \in OldKeys(res)
      BY <3>1, PairNames
    <3>. QED  BY <1>1, <2>1, <2>3, <3>1, <3>2
  <2>. QED  BY <2>3, <2>4, <2>5
<1>6. ListNamed'
  <2>1. ~AllNew(data.fin)
    BY <1>2 DEF AllNew
  <2>. QED  BY <1>1, <1>3, <2>1 DEF NamesInv, ListNamed, ListWaits
<1>. QED  BY <1>1, <1>4, <1>5, <1>6 DEF NamesInv, Back, Serving

LEMMA FindingsMoved ==
  ASSUME NamesInv, ScansInv', UNCHANGED truth,
         (RemapFindings /\ UNCHANGED torn) \/ CrashInRemap
  PROVE  NamesInv'
<1>. USE Ends, FindingSequence
<1>1. CASE CrashInRemap
  <2>1. PICK fp \in ToRemap, n \in 1..3 : data' = Remapped(data, fp, data.fin[fp].res, n)
    BY <1>1 DEF CrashInRemap
  <2>2. at = 29 /\ at' = 0 /\ torn' = TRUE
    BY <1>1 DEF CrashInRemap
  <2>. QED  BY <2>1, <2>2, MoveFinding
<1>2. CASE RemapFindings /\ UNCHANGED torn /\ at' = at
  <2>1. PICK fp \in ToRemap : /\ data' = Remapped(data, fp, data.fin[fp].res, 4)
                              /\ seen' = seen \cup {fp, Current("new", data.fin[fp].res)}
    BY <1>2 DEF RemapFindings, FDoes, NamesInv
  <2>2. at = 29
    BY <1>2 DEF RemapFindings, FDoes
  <2>. QED  BY <1>2, <2>1, <2>2, MoveFinding
<1>3. CASE RemapFindings /\ UNCHANGED torn /\ at' # at
  <2>1. at = 29 /\ at' = 30 /\ seen' = {} /\ ToRemap = {} /\ data' = data
    BY <1>3 DEF RemapFindings, FDoes
  <2>2. Here' = Here /\ NoEvent' = NoEvent
    BY DEF Here, NoEvent
  <2>3. SupNamed'
    BY <2>1, <2>2 DEF NamesInv, SupNamed
  <2>4. ListNamed'
    BY <2>1, <2>2 DEF NamesInv, ListNamed, ListWaits
  <2>5. EventWaits => EventWaits'
    <3>. SUFFICES ASSUME EventWaits PROVE EventWaits'
      OBVIOUS
    <3>1. \A fp \in DOMAIN data.fin : data.fin[fp].rule = "new"
      <4>. SUFFICES ASSUME NEW fp \in DOMAIN data.fin, data.fin[fp].rule # "new" PROVE FALSE
        OBVIOUS
      <4>1. fp = data.event /\ data.fin[fp].rule = "old"
        BY DEF EventWaits, FirstNames
      <4>2. fp \in ToRemap
        BY <2>1, <4>1 DEF ToRemap, EventWaits
      <4>. QED  BY <2>1, <4>2
    <3>. QED  BY <2>1, <3>1 DEF EventWaits, AllNew
  <2>6. EventNamed'
    BY <1>3, <2>1, <2>2, <2>5 DEF NamesInv, EventNamed
  <2>. QED  BY <2>1, <2>3, <2>4, <2>6 DEF NamesInv
<1>. QED  BY <1>1, <1>2, <1>3

LEMMA SuppressionMoved ==
  ASSUME NamesInv, ScansInv', UNCHANGED <<truth, torn>>, RemapSuppressions
  PROVE  NamesInv'
<1>. USE Ends, FindingSequence
<1>. DEFINE fp == data.sup.fp
            res == data.sup.res
<1>0. Shape(data) /\ at = 30 /\ at' = 31 /\ seen' = {} /\ data' = Remapped(data, fp, res, 4)
  BY DEF NamesInv, ScansInv, RemapSuppressions, FDoes
<1>1. /\ data'.rules = data.rules /\ data'.list = data.list /\ data'.marks = data.marks /\ data'.sup.res = data.sup.res
      /\ data'.event = IF fp \in OldKeys(res) /\ data.event = fp THEN Here ELSE data.event
      /\ data'.sup.fp = IF fp \in OldKeys(res) THEN Here ELSE fp
  BY <1>0, RemappedKeeps DEF Keeps, Here, Current
<1>2. Here' = Here /\ NoEvent' = NoEvent
  BY DEF Here, NoEvent
<1>3. SupNamed'
  BY <1>0, <1>1, <1>2, PairNames DEF NamesInv, SupNamed
<1>4. FirstNames(data.fin) /\ AllNew(data.fin) => data'.fin = data.fin /\ (data.event \in DOMAIN data.fin => data'.event = data.event)
  <2>. SUFFICES ASSUME FirstNames(data.fin), AllNew(data.fin)
                PROVE  data'.fin = data.fin /\ (data.event \in DOMAIN data.fin => data'.event = data.event)
    OBVIOUS
  <2>1. \A x \in DOMAIN data.fin : x \notin OldKeys(res)
    BY PairNames DEF FirstNames, AllNew
  <2>2. data'.fin = data.fin
    <3>1. CASE fp \notin OldKeys(res)
      BY <1>0, <3>1 DEF Remapped
    <3>2. CASE fp \in OldKeys(res)
      BY <1>0, <2>1, <3>2 DEF Remapped, Shape, Fields
    <3>. QED  BY <3>1, <3>2
  <2>. QED  BY <1>1, <2>1, <2>2
<1>5. EventNamed'
  <2>. SUFFICES ASSUME data'.event # NoEvent, ~truth'.split, ~torn'
                PROVE  /\ "findings" \in data'.marks
                       /\ data'.event = Here \/ ("rekeyed" \notin data'.marks /\ EventWaits')
    BY <1>2 DEF EventNamed
  <2>1. data.event # NoEvent
    BY <1>1, PairNames
  <2>2. "findings" \in data.marks /\ (data.event = Here \/ ("rekeyed" \notin data.marks /\ EventWaits))
    BY <2>1 DEF NamesInv, EventNamed
  <2>3. EventWaits => FirstNames(data.fin) /\ AllNew(data.fin)
    BY <1>0 DEF EventWaits
  <2>4. EventWaits => EventWaits'
    BY <1>0, <1>4, <2>3 DEF EventWaits
  <2>. QED  BY <1>1, <2>2, <2>4
<1>6. ListNamed'
  BY <1>1, <1>2, <1>4 DEF NamesInv, ListNamed, ListWaits
<1>. QED  BY <1>0, <1>3, <1>5, <1>6 DEF NamesInv

LEMMA ReferencesRenamed ==
  ASSUME NamesInv, ScansInv', UNCHANGED <<truth, torn>>, RenameReferences
  PROVE  NamesInv'
<1>. USE Ends, FindingSequence
<1>0. Shape(data) /\ SupNamed /\ at = 32 /\ at' = 33 /\ seen' = {}
  BY DEF NamesInv, ScansInv, RenameReferences, FDoes
<1>1. /\ data'.sup = data.sup /\ data'.event = data.event /\ data'.list = data.list
      /\ data'.marks = data.marks /\ data'.rules = data.rules
      /\ data'.fin = [fp \in DOMAIN data.fin |-> [data.fin[fp] EXCEPT !.rule = "new"]]
  BY <1>0 DEF RenameReferences, Shape, Fields
<1>2. FirstNames(data.fin) /\ AllNew(data.fin) => SameNames(data.fin, data'.fin)
  BY <1>1 DEF FirstNames, AllNew, SameNames
<1>. QED  BY <1>0, <1>1, <1>2, NamesKept DEF SupNamed

LEMMA NamesRekeyed ==
  ASSUME NamesInv, ScansInv', UNCHANGED <<truth, torn>>, RekeyFingerprintCase
  PROVE  NamesInv'
<1>. USE Ends, FindingSequence
<1>0. Shape(data) /\ SupNamed /\ at = 33 /\ at' = 34 /\ seen' = {}
  BY DEF NamesInv, ScansInv, RekeyFingerprintCase, OwnTransaction, FDoes
<1>1. CASE data' = data
  BY <1>0, <1>1, NamesKept, UnchangedNames DEF SupNamed
<1>2. CASE "rekeyed" \in data.marks
  <2>1. data' = data
    BY <1>2 DEF RekeyFingerprintCase, OwnTransaction, Rekeying
  <2>. QED  BY <1>1, <2>1
<1>3. CASE data' = Rekeying(data) /\ "rekeyed" \notin data.marks
  <2>1. Keeps(data, data') /\ data'.rules = data.rules /\ data'.marks = data.marks \cup {"rekeyed"}
    BY <1>0, <1>3, RekeyingKeeps
  <2>2. Here' = Here /\ NoEvent' = NoEvent
    BY DEF Here, NoEvent
  <2>3. data'.sup.fp \in {NoEvent, Here} /\ (data.sup.fp = NoEvent => data'.sup.fp = NoEvent)
    BY <1>0, <1>3, RekeyingNames DEF SupNamed
  <2>4. SupNamed'
    BY <1>0, <2>1, <2>2, <2>3 DEF SupNamed
  <2>5. EventNamed'
    <3>. SUFFICES ASSUME data'.event # NoEvent, ~truth'.split, ~torn'
                  PROVE  "findings" \in data'.marks /\ data'.event = Here
      BY <2>2 DEF EventNamed
    <3>1. data.event # NoEvent
      BY <1>0, <1>3, RekeyingNames
    <3>2. "findings" \in data.marks /\ (data.event = Here \/ EventWaits)
      BY <3>1 DEF NamesInv, EventNamed
    <3>3. EventWaits => FirstNames(data.fin) /\ AllNew(data.fin) /\ data.event \in DOMAIN data.fin
      BY <1>0 DEF EventWaits
    <3>. QED  BY <1>0, <1>3, <2>1, <3>2, <3>3, RekeyingNames
  <2>6. ListNamed'
    <3>. SUFFICES ASSUME truth'.listed, ~truth'.split
                  PROVE  "findings" \in data'.marks /\ data'.list = {Here}
      BY <2>1, <2>2 DEF ListNamed
    <3>1. "findings" \in data.marks /\ ListWaits
      BY <1>3 DEF NamesInv, ListNamed
    <3>2. data'.list = {Here}
      BY <1>0, <1>3, <3>1, RekeyingNames DEF ListWaits
    <3>. QED  BY <2>1, <3>1, <3>2
  <2>. QED  BY <1>0, <2>4, <2>5, <2>6 DEF NamesInv
<1>. QED  BY <1>1, <1>2, <1>3 DEF RekeyFingerprintCase, OwnTransaction

LEMMA NamesBackfilled ==
  ASSUME NamesInv, ScansInv', UNCHANGED <<truth, torn>>, BackfillCategory
  PROVE  NamesInv'
<1>. USE Ends, FindingSequence
<1>0. Shape(data) /\ SupNamed /\ at = 38 /\ at' = 39 /\ seen' = {}
  BY DEF NamesInv, ScansInv, BackfillCategory, OwnTransaction, FDoes
<1>1. CASE data' = data
  BY <1>0, <1>1, NamesKept, UnchangedNames DEF SupNamed
<1>2. CASE Waiting(data) # {} /\ data' = Marked(Rebuilt(data), "category")
  <2>1. "findings" \notin data.marks
    BY <1>2 DEF Waiting
  <2>2. /\ data'.sup = data.sup /\ data'.event = data.event /\ data'.list = data.list
        /\ data'.marks = data.marks \cup {"category"} /\ data'.rules = data.rules
    BY <1>0, <1>2, RebuiltKeeps
  <2>. QED  BY <1>0, <2>1, <2>2, NamesKept DEF SupNamed
<1>. QED  BY <1>1, <1>2 DEF BackfillCategory, OwnTransaction

LEMMA NamesServed ==
  ASSUME NamesInv, ScansInv', Serve
  PROVE  NamesInv'
<1>. USE Ends
<1>0. /\ Shape(data) /\ SupNamed /\ truth = [f \in TruthFields |-> truth[f]]
      /\ at = Back => "rekeyed" \in data.marks
  BY DEF NamesInv, ScansInv
<1>1. ASSUME NEW spelling, NEW complete \in BOOLEAN, ScanFinds(spelling, complete)
      PROVE  NamesInv'
  <2>1. at = 41 /\ at' = 41 /\ UNCHANGED <<seen, torn>> /\ SawIt(complete)
    BY <1>1 DEF ScanFinds
  <2>2. /\ data'.sup = data.sup /\ data'.event = data.event /\ data'.list = data.list
        /\ data'.marks = data.marks /\ data'.rules = data.rules
    BY <1>0, <1>1 DEF ScanFinds, Shape, Fields
  <2>3. truth'.listed = truth.listed /\ (~truth'.split => ~truth.split /\ "rekeyed" \in data.marks)
    BY <1>0, <2>1, Saw
  <2>. QED  BY <1>0, <2>1, <2>2, <2>3, NamesKept DEF SupNamed
<1>2. CASE ScanFindsNothing
  <2>1. at = 41 /\ at' = 41 /\ UNCHANGED <<seen, torn>> /\ SawNothing
    BY <1>2 DEF ScanFindsNothing
  <2>2. /\ data'.sup = data.sup /\ data'.event = data.event /\ data'.list = data.list
        /\ data'.marks = data.marks /\ data'.rules = data.rules
        /\ data'.fin = [fp \in DOMAIN data.fin |-> [data.fin[fp] EXCEPT !.open = FALSE]]
    BY <1>0, <1>2 DEF ScanFindsNothing, Shape, Fields
  <2>3. truth'.listed = truth.listed /\ truth'.split = truth.split
    BY <1>0, <2>1, Saw
  <2>4. FirstNames(data.fin) => SameNames(data.fin, data'.fin)
    BY <2>2 DEF FirstNames, SameNames
  <2>. QED  BY <1>0, <2>1, <2>2, <2>3, <2>4, NamesKept DEF SupNamed
<1>3. ASSUME NEW spelling, NEW found \in BOOLEAN, PreviousScan(spelling, found)
      PROVE  NamesInv'
  <2>1. at = 42 /\ at' = 42 /\ UNCHANGED <<seen, torn>> /\ IF found THEN SawIt(TRUE) ELSE SawNothing
    BY <1>3 DEF PreviousScan
  <2>2. /\ data'.sup = data.sup /\ data'.event = data.event /\ data'.list = data.list
        /\ data'.marks = data.marks /\ data'.rules = data.rules
    BY <1>0, <1>3 DEF PreviousScan, Shape, Fields
  <2>3. truth'.listed = truth.listed /\ (~truth'.split => ~truth.split)
    BY <1>0, <2>1, Saw
  <2>. QED  BY <1>0, <2>1, <2>2, <2>3, NamesKept DEF SupNamed
<1>4. CASE GoBack
  <2>1. at = 41 /\ at' = 42 /\ UNCHANGED <<data, seen, truth, torn>> /\ "rekeyed" \in data.marks
    BY <1>4 DEF GoBack
  <2>. QED  BY <1>0, <2>1, NamesKept DEF SupNamed
<1>5. CASE PreviousDeletes
  <2>1. at = 42 /\ at' = 42 /\ UNCHANGED <<seen, torn>>
    BY <1>5 DEF PreviousDeletes
  <2>2. /\ data'.sup = data.sup /\ data'.event = data.event /\ data'.list = data.list
        /\ data'.marks = data.marks /\ data'.rules = data.rules
    BY <1>0, <1>5 DEF PreviousDeletes, Shape, Fields
  <2>3. truth'.listed = truth.listed /\ (~truth'.split => ~truth.split)
    BY <1>0, <1>5 DEF PreviousDeletes, TruthFields
  <2>. QED  BY <1>0, <2>1, <2>2, <2>3, NamesKept DEF SupNamed
<1>. QED  BY <1>1, <1>2, <1>3, <1>4, <1>5 DEF Serve

LEMMA SchemaMoves ==
  ASSUME SchemaStep
  PROVE  at \in 1..SchemaSteps /\ at' \in at..(at + 1)
<1>. DEFINE Moves(s) == (Step(s) /\ at' = at) \/ Does(s)
<1>1. \A s : Moves(s) => at \in 1..SchemaSteps /\ at' \in at..(at + 1)
  BY SchemaAt DEF Does, SchemaSteps
<1>2. (SnapshotsStep \/ FindingsStep \/ SuppressionsStep) => \E s : Moves(s)
  BY DEF SnapshotsStep, FindingsStep, SuppressionsStep, Reclaim, DropTable, Rebuild
<1>3. (RenamePolicies \/ CreateTables \/ DropShell \/ RenamePosture \/ RenamePosturePct) => \E s : Moves(s)
  BY DEF RenamePolicies, CreateTables, DropShell, RenamePosture, RenamePosturePct
<1>4. (AddRawKql \/ RenameType \/ AddType \/ RenameGroups \/ AddGroups \/ RenameConditions) => \E s : Moves(s)
  BY DEF AddRawKql, RenameType, AddType, RenameGroups, AddGroups, RenameConditions
<1>5. (Compile \/ AddRecurrence \/ Recurrence \/ DropCron) => \E s : Moves(s)
  BY DEF Compile, AddRecurrence, Recurrence, DropCron
<1>. QED  BY <1>1, <1>2, <1>3, <1>4, <1>5 DEF SchemaStep

LEMMA NamesNext ==
  ASSUME NamesInv, [UpgradeNext]_upgradeVars
  PROVE  NamesInv'
<1>. USE Ends
<1>0. /\ Shape(data) /\ SupNamed /\ at \in 0..Back
      /\ at = Back => "rekeyed" \in data.marks
  BY DEF NamesInv, ScansInv
<1>1. ScansInv'
  BY ScansNext DEF NamesInv
<1>2. CASE UNCHANGED upgradeVars
  BY <1>0, <1>1, <1>2, NamesKept, UnchangedNames DEF SupNamed, upgradeVars
<1>3. CASE UNCHANGED <<data, truth, torn>> /\ at' \in 0..27
  BY <1>0, <1>1, <1>3, NamesKept, UnchangedNames DEF SupNamed
<1>4. CASE Boot \/ Crash \/ Restart
  BY <1>3, <1>4 DEF Boot, Crash, Restart
<1>5. CASE SchemaStep /\ UNCHANGED <<data, truth, torn>>
  BY <1>3, <1>5, SchemaMoves DEF SchemaSteps
<1>6. CASE FindingStep /\ UNCHANGED <<truth, torn>>
  BY <1>1, <1>6, QuietSteps, FindingsMoved, SuppressionMoved, ReferencesRenamed, NamesRekeyed, NamesBackfilled DEF FindingStep
<1>7. CASE CrashInRemap
  BY <1>1, <1>7, FindingsMoved DEF CrashInRemap
<1>8. CASE Serve
  BY <1>1, <1>8, NamesServed
<1>. QED  BY <1>2, <1>4, <1>5, <1>6, <1>7, <1>8 DEF UpgradeNext, Upgrade

LEMMA NamesAlways == UpgradeSpec => []NamesInv
<1>. QED  BY NamesInit, NamesNext, PTL DEF UpgradeSpec

\* Once a start rekeyed the fingerprints, a suppression, the last event and a notification
\* still to be sent name the finding the next scan will compute, whatever stopped or rolled
\* back on the way.
THEOREM NamesAreFollowed == UpgradeSpec => []NamesFollow
<1>1. NamesInv => NamesFollow
  BY DEF NamesInv, NamesFollow, SupNamed, EventNamed, ListNamed
<1>. QED  BY <1>1, NamesAlways, PTL

-----------------------------------------------------------------------------
(* Statements on the tables of the file *)

DbShape ==
    /\ db = [t \in Tables |-> db[t]]
    /\ \A t \in Tables : db[t] = Table(db[t].cols, db[t].rows)

\* Only table t may differ.
Only(t) == DbShape' /\ \A x \in Tables : x # t => db'[x] = db[x]

LEMMA TableFields ==
    /\ \A c, r : Table(c, r).cols = c /\ Table(c, r).rows = r
    /\ NoTable = Table({}, {})
BY DEF Table, NoTable

LEMMA ChangeTable ==
  ASSUME DbShape, NEW t \in Tables, NEW cols, NEW rows, db' = [db EXCEPT ![t] = Table(cols, rows)]
  PROVE  Only(t) /\ db'[t] = Table(cols, rows) /\ db'[t].cols = cols /\ db'[t].rows = rows
<1>1. /\ db' = [x \in Tables |-> db'[x]]
      /\ \A x \in Tables : db'[x] = IF x = t THEN Table(cols, rows) ELSE db[x]
  BY DEF DbShape
<1>2. db'[t].cols = cols /\ db'[t].rows = rows
  BY <1>1, TableFields
<1>3. ASSUME NEW x \in Tables PROVE db'[x] = Table(db'[x].cols, db'[x].rows)
  BY <1>1, <1>2 DEF DbShape
<1>. QED  BY <1>1, <1>2, <1>3 DEF Only, DbShape

LEMMA SameTables == ASSUME DbShape, db' = db PROVE DbShape' /\ \A t : Only(t)
BY DEF DbShape, Only

\* The rows of a table after a statement.
Added(rows, c, default) == {Put(r, c, default) : r \in rows}
RenamedIn(rows, from, to) == {Renamed(r, from, to) : r \in rows}
Dropped(rows, gone) == {WithoutColumn(r, gone) : r \in rows}
Copies(rows, old, new, default) == {Copied(r, old, new, default) : r \in rows}

LEMMA Adding ==
  ASSUME DbShape, NEW t \in Tables, NEW c, NEW default, AddColumn(t, c, default)
  PROVE  /\ Only(t)
         /\ IF There(t) /\ c \notin db[t].cols
            THEN db'[t].cols = db[t].cols \cup {c} /\ db'[t].rows = Added(db[t].rows, c, default)
            ELSE db'[t] = db[t]
BY ChangeTable, SameTables DEF AddColumn, Added

LEMMA RenamingColumn ==
  ASSUME DbShape, NEW t \in Tables, NEW from, NEW to, RenameColumn(t, from, to)
  PROVE  /\ Only(t)
         /\ IF from \in db[t].cols /\ to \notin db[t].cols
            THEN db'[t].cols = (db[t].cols \ {from}) \cup {to} /\ db'[t].rows = RenamedIn(db[t].rows, from, to)
            ELSE db'[t] = db[t]
BY ChangeTable, SameTables DEF RenameColumn, RenamedIn

LEMMA Dropping ==
  ASSUME DbShape, NEW t \in Tables, NEW gone, DropColumn(t, gone)
  PROVE  /\ Only(t) /\ db'[t].cols = db[t].cols \ {gone}
         /\ db'[t].rows = Dropped(db[t].rows, gone)
BY ChangeTable DEF DropColumn, Dropped

LEMMA RenamingTable ==
  ASSUME DbShape, NEW from \in Tables, NEW to \in Tables, from # to, RenameTable(from, to)
  PROVE  /\ DbShape' /\ \A t \in Tables : t \notin {from, to} => db'[t] = db[t]
         /\ IF There(from) /\ ~There(to) THEN db'[to] = db[from] /\ db'[from] = NoTable
            ELSE db' = db
<1>1. CASE There(from) /\ ~There(to)
  <2>1. /\ db' = [t \in Tables |-> db'[t]]
        /\ \A t \in Tables : db'[t] = IF t = from THEN NoTable ELSE IF t = to THEN db[from] ELSE db[t]
    BY <1>1 DEF RenameTable, DbShape
  <2>2. DbShape'
    BY <2>1, TableFields DEF DbShape
  <2>. QED  BY <1>1, <2>1, <2>2
<1>2. CASE ~(There(from) /\ ~There(to))
  BY <1>2, SameTables DEF RenameTable
<1>. QED  BY <1>1, <1>2

LEMMA Reclaiming ==
  ASSUME DbShape, NEW step, NEW live \in Tables, NEW staged, NEW new, Reclaim(step, live, staged, new)
  PROVE  /\ Only(live) /\ db'[live].cols = db[live].cols
         /\ db'[live].rows = IF There(staged) THEN Reclaimed(live, staged, new) ELSE db[live].rows
<1>1. CASE There(staged)
  <2>1. db' = [db EXCEPT ![live] = Table(db[live].cols, Reclaimed(live, staged, new))]
    BY <1>1 DEF Reclaim
  <2>. QED  BY <1>1, <2>1, ChangeTable
<1>2. CASE ~There(staged)
  BY <1>2, SameTables DEF Reclaim
<1>. QED  BY <1>1, <1>2

LEMMA DroppingTable ==
  ASSUME DbShape, NEW t \in Tables, db' = [db EXCEPT ![t] = NoTable]
  PROVE  Only(t) /\ db'[t] = NoTable
BY ChangeTable, TableFields

LEMMA Rebuilding ==
  ASSUME DbShape, NEW step, NEW live \in Tables, NEW staged, NEW old, NEW new, NEW default,
         Rebuild(step, live, staged, old, new, default)
  PROVE  /\ Only(live)
         /\ \/ db'[live] = db[live]
            \/ /\ There(live) /\ db'[live].cols = (db[live].cols \ old) \cup new
               /\ db'[live].rows = Copies(db[live].rows, old, new, default)
<1>1. CASE db' = db
  BY <1>1, SameTables
<1>2. CASE db' # db
  <2>. DEFINE cols == (db[live].cols \ old) \cup new
              rows == Copies(db[live].rows, old, new, default)
  <2>1. There(live) /\ db' = [db EXCEPT ![live] = Table(cols, rows)]
    BY <1>2 DEF Rebuild, Copies
  <2>. HIDE DEF cols, rows
  <2>2. Only(live) /\ db'[live].cols = cols /\ db'[live].rows = rows
    BY <2>1, ChangeTable
  <2>. QED  BY <2>1, <2>2 DEF cols, rows
<1>. QED  BY <1>1, <1>2

-----------------------------------------------------------------------------
(* A table rebuilt under its own name, and the staged copy an older release left *)

HasIds(t) == \A r \in db[t].rows : "id" \in DOMAIN r

\* owner's rows are in the live table, or all of them in the staged one while the live
\* table is gone or was created again, empty.  From the reclaim on they are in the live one.
Rebuildable(live, staged, new, owner, reclaim) ==
    /\ HasIds(live) /\ HasIds(staged)
    /\ IF There(live) THEN "id" \in db[live].cols ELSE db[live].rows = {}
    /\ There(staged) => /\ Ids(db[staged].rows) = owner
                        /\ \/ Ids(db[live].rows) = owner
                           \/ db[live].rows = {} /\ (~There(live) \/ new \subseteq db[live].cols)
    /\ (~There(staged) \/ at \in (reclaim + 1)..Back) => Ids(db[live].rows) = owner

LEMMA ReclaimKeeps ==
  ASSUME DbShape, NEW live \in Tables, NEW staged \in Tables, live # staged, NEW new, NEW owner,
         NEW step, NEW n, Rebuildable(live, staged, new, owner, n), There(live), Reclaim(step, live, staged, new)
  PROVE  /\ Rebuildable(live, staged, new, owner, n)' /\ There(live)'
         /\ Only(live) /\ db'[live].cols = db[live].cols
<1>1. /\ Only(live) /\ db'[live].cols = db[live].cols /\ db'[staged] = db[staged]
      /\ db'[live].rows = IF There(staged) THEN Reclaimed(live, staged, new) ELSE db[live].rows
  BY Reclaiming DEF Only
<1>2. There(live)' /\ (There(staged)' <=> There(staged))
  BY <1>1 DEF There
<1>3. Ids(db'[live].rows) = owner
  <2>1. CASE ~There(staged)
    BY <1>1, <2>1 DEF Rebuildable
  <2>2. CASE There(staged) /\ Ids(db[live].rows) = owner
    <3>1. Ids(db[staged].rows) = owner
      BY <2>2 DEF Rebuildable
    <3>. QED  BY <1>1, <2>2, <3>1 DEF Reclaimed
  <2>3. CASE There(staged) /\ Ids(db[live].rows) # owner
    <3>1. Ids(db[staged].rows) = owner /\ db[live].rows = {} /\ new \subseteq db[live].cols
      BY <2>3 DEF Rebuildable
    <3>. QED  BY <1>1, <2>3, <3>1 DEF Reclaimed
  <2>. QED  BY <2>1, <2>2, <2>3
<1>4. HasIds(live)' /\ HasIds(staged)'
  BY <1>1 DEF HasIds, Rebuildable, Reclaimed
<1>. QED  BY <1>1, <1>2, <1>3, <1>4 DEF Rebuildable

LEMMA DropStagedKeeps ==
  ASSUME DbShape, NEW live \in Tables, NEW staged \in Tables, live # staged, NEW new, NEW owner,
         NEW step, NEW n, Rebuildable(live, staged, new, owner, n), at \in (n + 1)..Back, There(live),
         DropTable(step, staged)
  PROVE  Rebuildable(live, staged, new, owner, n)' /\ There(live)' /\ Only(staged)
<1>1. Only(staged) /\ db'[live] = db[live] /\ db'[staged] = NoTable
  BY DroppingTable DEF DropTable, Only
<1>2. ~There(staged)' /\ There(live)'
  BY <1>1, TableFields DEF There
<1>3. HasIds(live)' /\ HasIds(staged)'
  BY <1>1, TableFields DEF HasIds, Rebuildable
<1>. QED  BY <1>1, <1>2, <1>3 DEF Rebuildable

LEMMA RebuildKeeps ==
  ASSUME DbShape, NEW live \in Tables, NEW staged \in Tables, live # staged, NEW old, NEW new, NEW default, NEW owner,
         NEW step, NEW n, Rebuildable(live, staged, new, owner, n), at \in (n + 1)..Back, There(live),
         "id" \notin old, "id" \notin new, Rebuild(step, live, staged, old, new, default)
  PROVE  /\ Rebuildable(live, staged, new, owner, n)' /\ Only(live) /\ There(live)'
         /\ db'[live].cols \in {db[live].cols, (db[live].cols \ old) \cup new}
<1>1. /\ Only(live) /\ db'[staged] = db[staged]
      /\ \/ db'[live] = db[live]
         \/ /\ There(live) /\ db'[live].cols = (db[live].cols \ old) \cup new
            /\ db'[live].rows = Copies(db[live].rows, old, new, default)
  <2>1. /\ Only(live)
        /\ \/ db'[live] = db[live]
           \/ /\ There(live) /\ db'[live].cols = (db[live].cols \ old) \cup new
              /\ db'[live].rows = Copies(db[live].rows, old, new, default)
    BY Rebuilding
  <2>2. db'[staged] = db[staged]
    BY <2>1 DEF Only
  <2>. QED  BY <2>1, <2>2
<1>2. \A r \in db[live].rows : "id" \in DOMAIN r
  BY DEF Rebuildable, HasIds
<1>3. \A r : "id" \in DOMAIN r => "id" \in DOMAIN Copied(r, old, new, default) /\ Copied(r, old, new, default)["id"] = r["id"]
  BY DEF Copied
<1>4. Ids(db'[live].rows) = Ids(db[live].rows) /\ HasIds(live)'
  <2>1. CASE db'[live] = db[live]
    BY <1>2, <2>1 DEF HasIds
  <2>2. CASE db'[live].rows = Copies(db[live].rows, old, new, default)
    BY <1>2, <1>3, <2>2 DEF Ids, HasIds, Copies
  <2>. QED  BY <1>1, <2>1, <2>2
<1>5. Ids(db[live].rows) = owner
  BY DEF Rebuildable
<1>6. HasIds(staged)' /\ (There(staged)' => There(staged) /\ Ids(db'[staged].rows) = owner)
  BY <1>1 DEF HasIds, There, Rebuildable
<1>7. "id" \in db'[live].cols /\ There(live)'
  <2>1. "id" \in db[live].cols
    BY DEF Rebuildable
  <2>2. "id" \in db'[live].cols
    BY <1>1, <2>1
  <2>. QED  BY <2>2 DEF There
<1>. QED  BY <1>1, <1>4, <1>5, <1>6, <1>7 DEF Rebuildable

LEMMA CreateKeeps ==
  ASSUME NEW live, NEW staged, NEW new, NEW owner, NEW n, Rebuildable(live, staged, new, owner, n),
         NEW cols, "id" \in cols, new \subseteq cols, at' \notin (n + 1)..42,
         db'[live] = IF There(live) THEN db[live] ELSE Table(cols, {}),
         db'[staged] = IF There(staged) THEN db[staged] ELSE Table({}, {})
  PROVE  Rebuildable(live, staged, new, owner, n)'
<1>1. CASE There(live)
  BY <1>1, TableFields, Ends DEF Rebuildable, HasIds, There
<1>2. CASE ~There(live)
  <2>1. db'[live].cols = cols /\ db'[live].rows = {} /\ There(live)'
    BY <1>2, TableFields DEF There
  <2>2. db[live].rows = {} /\ Ids({}) = {}
    BY <1>2 DEF Rebuildable, Ids
  <2>3. There(staged)' => There(staged) /\ db'[staged] = db[staged]
    BY TableFields DEF There
  <2>4. HasIds(live)' /\ HasIds(staged)'
    BY <2>1, TableFields DEF HasIds, Rebuildable
  <2>5. There(staged)' => Ids(db'[staged].rows) = owner /\ new \subseteq db'[live].cols
    BY <2>1, <2>3 DEF Rebuildable
  <2>6. ~There(staged)' => Ids(db'[live].rows) = owner
    <3>1. CASE There(staged)
      BY <3>1 DEF There
    <3>2. CASE ~There(staged)
      BY <2>1, <2>2, <3>2 DEF Rebuildable
    <3>. QED  BY <3>1, <3>2
  <2>. QED  BY <2>1, <2>4, <2>5, <2>6, Ends DEF Rebuildable
<1>. QED  BY <1>1, <1>2

\* The tables are left alone and the start is not past their reclaim unless it was.
LEMMA RebuildableElsewhere ==
  ASSUME NEW live, NEW staged, NEW new, NEW owner, NEW n, Rebuildable(live, staged, new, owner, n),
         db'[live] = db[live], db'[staged] = db[staged], at' \in (n + 1)..Back => at \in (n + 1)..Back
  PROVE  Rebuildable(live, staged, new, owner, n)'
BY DEF Rebuildable, HasIds, There, Back, Serving

-----------------------------------------------------------------------------
(* Which tables a statement reaches, and when it runs *)

RulesStep ==
    \/ RenamePolicies \/ AddRawKql \/ RenameType \/ AddType \/ RenameGroups \/ AddGroups
    \/ RenameConditions \/ Compile
DaysStep == SnapshotsStep \/ DropShell \/ RenamePosture \/ RenamePosturePct
SchedulesStep == AddRecurrence \/ Recurrence \/ DropCron

Reaches(tables) == DbShape' /\ \A t \in Tables \ tables : db'[t] = db[t]

LEMMA SchemaParts ==
  SchemaStep <=> RulesStep \/ CreateTables \/ DaysStep \/ FindingsStep \/ SuppressionsStep \/ SchedulesStep
BY DEF SchemaStep, RulesStep, DaysStep, SchedulesStep

LEMMA DoesMoves == \A s : Does(s) => Step(s) /\ at' = at + 1
BY DEF Does

LEMMA OnlyReaches == ASSUME NEW t, Only(t), NEW tables, t \in tables PROVE Reaches(tables)
BY DEF Only, Reaches

LEMMA SameReaches == ASSUME DbShape, db' = db, NEW tables PROVE Reaches(tables)
BY DEF Reaches, DbShape

LEMMA RulesReach ==
  ASSUME DbShape, RulesStep
  PROVE  Reaches({"policies", "rules"}) /\ (at = 1 \/ at \in 15..21) /\ at' \in at..(at + 1)
<1>. USE SchemaSequence
<1>0. "rules" \in Tables /\ "policies" \in Tables
  BY DEF Tables
<1>1. CASE RenamePolicies
  <2>1. Reaches({"policies", "rules"})
    BY <1>0, <1>1, RenamingTable DEF RenamePolicies, Reaches
  <2>. QED  BY <1>1, <2>1 DEF RenamePolicies, Does
<1>2. CASE AddRawKql
  <2>1. Only("rules")
    BY <1>0, <1>2, Adding DEF AddRawKql
  <2>. QED  BY <1>2, <2>1, OnlyReaches DEF AddRawKql, Does
<1>3. CASE RenameType
  <2>1. Only("rules")
    BY <1>0, <1>3, RenamingColumn DEF RenameType
  <2>. QED  BY <1>3, <2>1, OnlyReaches DEF RenameType, Does
<1>4. CASE AddType
  <2>1. Only("rules")
    BY <1>0, <1>4, Adding DEF AddType
  <2>. QED  BY <1>4, <2>1, OnlyReaches DEF AddType, Does
<1>5. CASE RenameGroups
  <2>1. Only("rules")
    BY <1>0, <1>5, RenamingColumn DEF RenameGroups
  <2>. QED  BY <1>5, <2>1, OnlyReaches DEF RenameGroups, Does
<1>6. CASE AddGroups
  <2>1. Only("rules")
    BY <1>0, <1>6, Adding DEF AddGroups
  <2>2. Step("addGroups") /\ at' = at + 1
    BY <1>6, DoesMoves DEF AddGroups
  <2>. QED  BY <2>1, <2>2, OnlyReaches
<1>7. CASE RenameConditions
  <2>1. Only("rules")
    BY <1>0, <1>7, RenamingColumn DEF RenameConditions
  <2>. QED  BY <1>7, <2>1, OnlyReaches DEF RenameConditions, Does
<1>8. CASE Compile
  <2>1. at = 21 /\ at' \in at..(at + 1)
    <3>1. Step("compile") /\ (at' = at \/ at' = at + 1)
      BY <1>8, DoesMoves DEF Compile
    <3>. QED  BY <3>1
  <2>2. CASE db' = db
    BY <2>1, <2>2, SameReaches
  <2>3. CASE db' # db
    <3>1. PICK r \in LegacyConditionRows :
             db' = [db EXCEPT !["rules"] = Table(db["rules"].cols, (db["rules"].rows \ {r}) \cup {AsKql(r)})]
      BY <1>8, <2>3 DEF Compile
    <3>2. Only("rules")
      BY <1>0, <3>1, ChangeTable
    <3>. QED  BY <2>1, <3>2, OnlyReaches
  <2>. QED  BY <2>2, <2>3
<1>. QED  BY <1>1, <1>2, <1>3, <1>4, <1>5, <1>6, <1>7, <1>8 DEF RulesStep

LEMMA DaysReach ==
  ASSUME DbShape, DaysStep
  PROVE  /\ Reaches({"compliance_snapshots", "compliance_snapshots_new", "posture_snapshots"})
         /\ at \in 3..8 /\ at' = at + 1
<1>. USE SchemaSequence
<1>. DEFINE Mine == {"compliance_snapshots", "compliance_snapshots_new", "posture_snapshots"}
<1>0. Mine \subseteq Tables
  BY DEF Tables
<1>1. CASE Reclaim("reclaimSnapshots", "compliance_snapshots", "compliance_snapshots_new", {"subscription_id"})
  <2>1. Only("compliance_snapshots")
    BY <1>0, <1>1, Reclaiming
  <2>. QED  BY <1>1, <2>1, OnlyReaches DEF Reclaim, Does
<1>2. CASE DropTable("dropStagedSnapshots", "compliance_snapshots_new")
  <2>1. Only("compliance_snapshots_new")
    BY <1>0, <1>2, DroppingTable DEF DropTable
  <2>. QED  BY <1>2, <2>1, OnlyReaches DEF DropTable, Does
<1>3. CASE Rebuild("rebuildSnapshots", "compliance_snapshots", "compliance_snapshots_new", {}, {"subscription_id"}, Blank)
  <2>1. Only("compliance_snapshots")
    BY <1>0, <1>3, Rebuilding
  <2>2. Step("rebuildSnapshots") /\ at' = at + 1
    BY <1>3, DoesMoves DEF Rebuild
  <2>. QED  BY <2>1, <2>2, OnlyReaches
<1>4. CASE DropShell
  <2>1. CASE There("posture_snapshots")
    <3>1. Only("compliance_snapshots")
      BY <1>0, <1>4, <2>1, DroppingTable DEF DropShell
    <3>. QED  BY <1>4, <3>1, OnlyReaches DEF DropShell, Does
  <2>2. CASE ~There("posture_snapshots")
    BY <1>4, <2>2, SameReaches DEF DropShell, Does
  <2>. QED  BY <2>1, <2>2
<1>5. CASE RenamePosture
  <2>1. Reaches(Mine)
    BY <1>0, <1>5, RenamingTable DEF RenamePosture, Reaches
  <2>. QED  BY <1>5, <2>1 DEF RenamePosture, Does
<1>6. CASE RenamePosturePct
  <2>1. Only("posture_snapshots")
    BY <1>0, <1>6, RenamingColumn DEF RenamePosturePct
  <2>. QED  BY <1>6, <2>1, OnlyReaches DEF RenamePosturePct, Does
<1>. QED  BY <1>1, <1>2, <1>3, <1>4, <1>5, <1>6 DEF DaysStep, SnapshotsStep

LEMMA FindingsReach ==
  ASSUME DbShape, FindingsStep
  PROVE  Reaches({"findings", "findings_new"}) /\ at \in 9..11 /\ at' = at + 1
<1>. USE SchemaSequence
<1>0. "findings" \in Tables /\ "findings_new" \in Tables
  BY DEF Tables
<1>1. CASE Reclaim("reclaimFindings", "findings", "findings_new", {"kind"})
  <2>1. Only("findings")
    BY <1>0, <1>1, Reclaiming
  <2>. QED  BY <1>1, <2>1, OnlyReaches DEF Reclaim, Does
<1>2. CASE DropTable("dropStagedFindings", "findings_new")
  <2>1. Only("findings_new")
    BY <1>0, <1>2, DroppingTable DEF DropTable
  <2>. QED  BY <1>2, <2>1, OnlyReaches DEF DropTable, Does
<1>3. CASE Rebuild("rebuildFindings", "findings", "findings_new", {NotNull}, {"kind"}, "state")
  <2>1. Only("findings")
    BY <1>0, <1>3, Rebuilding
  <2>2. Step("rebuildFindings") /\ at' = at + 1
    BY <1>3, DoesMoves DEF Rebuild
  <2>. QED  BY <2>1, <2>2, OnlyReaches
<1>. QED  BY <1>1, <1>2, <1>3 DEF FindingsStep

LEMMA SuppressionsReach ==
  ASSUME DbShape, SuppressionsStep
  PROVE  Reaches({"suppressions", "suppressions_new"}) /\ at \in 12..14 /\ at' = at + 1
<1>. USE SchemaSequence
<1>0. "suppressions" \in Tables /\ "suppressions_new" \in Tables
  BY DEF Tables
<1>1. CASE Reclaim("reclaimSuppressions", "suppressions", "suppressions_new", {})
  <2>1. Only("suppressions")
    BY <1>0, <1>1, Reclaiming
  <2>. QED  BY <1>1, <2>1, OnlyReaches DEF Reclaim, Does
<1>2. CASE DropTable("dropStagedSuppressions", "suppressions_new")
  <2>1. Only("suppressions_new")
    BY <1>0, <1>2, DroppingTable DEF DropTable
  <2>. QED  BY <1>2, <2>1, OnlyReaches DEF DropTable, Does
<1>3. CASE Rebuild("rebuildSuppressions", "suppressions", "suppressions_new", {NotNull}, {}, Blank)
  <2>1. Only("suppressions")
    BY <1>0, <1>3, Rebuilding
  <2>2. Step("rebuildSuppressions") /\ at' = at + 1
    BY <1>3, DoesMoves DEF Rebuild
  <2>. QED  BY <2>1, <2>2, OnlyReaches
<1>. QED  BY <1>1, <1>2, <1>3 DEF SuppressionsStep

LEMMA SchedulesReach ==
  ASSUME DbShape, SchedulesStep
  PROVE  Reaches({"schedules"}) /\ at \in 22..26 /\ at' \in at..(at + 1)
<1>. USE SchemaSequence
<1>0. "schedules" \in Tables
  BY DEF Tables
<1>1. CASE AddRecurrence
  <2>1. Only("schedules")
    BY <1>0, <1>1, Adding DEF AddRecurrence
  <2>2. (Step("addTarget") \/ Step("addRecurrence")) /\ at' = at + 1
    BY <1>1, DoesMoves DEF AddRecurrence
  <2>. QED  BY <2>1, <2>2, OnlyReaches
<1>2. CASE DropCron
  <2>1. Only("schedules")
    BY <1>0, <1>2, Dropping DEF DropCron
  <2>. QED  BY <1>2, <2>1, OnlyReaches DEF DropCron, Does
<1>3. CASE Recurrence
  <2>1. at = 24 /\ at' \in at..(at + 1)
    <3>1. Step("recurrence") /\ (at' = at \/ at' = at + 1)
      BY <1>3, DoesMoves DEF Recurrence
    <3>. QED  BY <3>1
  <2>2. CASE db' = db
    BY <2>1, <2>2, SameReaches
  <2>3. CASE db' # db
    <3>1. PICK r \in db["schedules"].rows :
            db' = [db EXCEPT !["schedules"] = Table(db["schedules"].cols, (db["schedules"].rows \ {r}) \cup {AsDaily(r)})]
      BY <1>3, <2>3 DEF Recurrence
    <3>2. Only("schedules")
      BY <1>0, <3>1, ChangeTable
    <3>. QED  BY <2>1, <3>2, OnlyReaches
  <2>. QED  BY <2>2, <2>3
<1>. QED  BY <1>1, <1>2, <1>3 DEF SchedulesStep

LEMMA CreatingTables ==
  ASSUME DbShape, CreateTables
  PROVE  /\ DbShape' /\ at = 2 /\ at' = 3
         /\ \A t \in Tables : db'[t] = IF There(t) THEN db[t] ELSE Table(Created[t], {})
<1>1. \A t \in Tables : db'[t] = IF There(t) THEN db[t] ELSE Table(Created[t], {})
  BY DEF CreateTables
<1>2. DbShape'
  BY <1>1, TableFields DEF CreateTables, DbShape
<1>. QED  BY <1>1, <1>2, SchemaSequence DEF CreateTables, Does

-----------------------------------------------------------------------------
(* Findings and suppressions *)

\* The start is not past any of these steps unless it was.
Onward(ns) == \A n \in ns : at' \in n..Back => at \in n..Back

FindingsKept ==
    /\ Rebuildable("findings", "findings_new", {"kind"}, owned.findings, 9)
    /\ at \in 3..Back => There("findings")

LEMMA FindingsElsewhere ==
  ASSUME FindingsKept, UNCHANGED owned, db'["findings"] = db["findings"], db'["findings_new"] = db["findings_new"],
         Onward({3, 10})
  PROVE  FindingsKept'
<1>1. PICK O : O = owned.findings
  OBVIOUS
<1>2. Rebuildable("findings", "findings_new", {"kind"}, O, 9)'
  BY <1>1, RebuildableElsewhere DEF FindingsKept, Onward
<1>3. (at \in 3..Back => There("findings"))'
  BY DEF FindingsKept, Onward, There, Back, Serving
<1>. QED  BY <1>1, <1>2, <1>3 DEF FindingsKept

LEMMA FindingsCreated ==
  ASSUME FindingsKept, DbShape, UNCHANGED owned, CreateTables
  PROVE  FindingsKept'
<1>. USE Ends
<1>0. "findings" \in Tables /\ "findings_new" \in Tables
  BY DEF Tables
<1>1. /\ at = 2 /\ at' = 3
      /\ db'["findings"] = IF There("findings") THEN db["findings"] ELSE Table({"id", "kind"}, {})
      /\ db'["findings_new"] = IF There("findings_new") THEN db["findings_new"] ELSE Table({}, {})
  BY <1>0, CreatingTables DEF Created
<1>2. Rebuildable("findings", "findings_new", {"kind"}, owned.findings, 9)
  BY DEF FindingsKept
<1>3. PICK O : O = owned.findings
  OBVIOUS
<1>4. Rebuildable("findings", "findings_new", {"kind"}, O, 9)'
  BY <1>0, <1>1, <1>2, <1>3, CreateKeeps
<1>5. There("findings")'
  BY <1>1, TableFields DEF There
<1>. QED  BY <1>1, <1>3, <1>4, <1>5 DEF FindingsKept

LEMMA FindingsStepped ==
  ASSUME FindingsKept, DbShape, UNCHANGED owned, FindingsStep
  PROVE  FindingsKept'
<1>. USE Ends
<1>0. "findings" \in Tables /\ "findings_new" \in Tables /\ "findings" # "findings_new" /\ "id" \notin {NotNull} /\ "id" \notin {"kind"}
  BY DEF Tables, NotNull
<1>1. PICK O : O = owned.findings
  OBVIOUS
<1>2. /\ Rebuildable("findings", "findings_new", {"kind"}, O, 9) /\ There("findings")
      /\ at \in 9..11 /\ at' = at + 1
  BY <1>1, FindingsReach DEF FindingsKept
<1>3. CASE Reclaim("reclaimFindings", "findings", "findings_new", {"kind"})
  <2>1. Rebuildable("findings", "findings_new", {"kind"}, O, 9)' /\ There("findings")'
    BY <1>0, <1>2, <1>3, ReclaimKeeps
  <2>. QED  BY <1>1, <2>1 DEF FindingsKept
<1>4. CASE DropTable("dropStagedFindings", "findings_new")
  <2>1. at = 10
    BY <1>4, SchemaSequence, DoesMoves DEF DropTable
  <2>2. Rebuildable("findings", "findings_new", {"kind"}, O, 9)' /\ There("findings")'
    BY <1>0, <1>2, <1>4, <2>1, DropStagedKeeps
  <2>. QED  BY <1>1, <2>2 DEF FindingsKept
<1>5. CASE Rebuild("rebuildFindings", "findings", "findings_new", {NotNull}, {"kind"}, "state")
  <2>1. Step("rebuildFindings")
    BY <1>5, DoesMoves DEF Rebuild
  <2>2. at = 11
    BY <2>1, SchemaSequence
  <2>3. Rebuildable("findings", "findings_new", {"kind"}, O, 9)' /\ There("findings")'
    BY <1>0, <1>2, <1>5, <2>2, RebuildKeeps
  <2>. QED  BY <1>1, <2>3 DEF FindingsKept
<1>. QED  BY <1>3, <1>4, <1>5 DEF FindingsStep

SuppressionsKept ==
    /\ Rebuildable("suppressions", "suppressions_new", {}, owned.suppressions, 12)
    /\ at \in 3..Back => There("suppressions")

LEMMA SuppressionsElsewhere ==
  ASSUME SuppressionsKept, UNCHANGED owned, db'["suppressions"] = db["suppressions"], db'["suppressions_new"] = db["suppressions_new"],
         Onward({3, 13})
  PROVE  SuppressionsKept'
<1>1. PICK O : O = owned.suppressions
  OBVIOUS
<1>2. Rebuildable("suppressions", "suppressions_new", {}, O, 12)'
  BY <1>1, RebuildableElsewhere DEF SuppressionsKept, Onward
<1>3. (at \in 3..Back => There("suppressions"))'
  BY DEF SuppressionsKept, Onward, There, Back, Serving
<1>. QED  BY <1>1, <1>2, <1>3 DEF SuppressionsKept

LEMMA SuppressionsCreated ==
  ASSUME SuppressionsKept, DbShape, UNCHANGED owned, CreateTables
  PROVE  SuppressionsKept'
<1>. USE Ends
<1>0. "suppressions" \in Tables /\ "suppressions_new" \in Tables
  BY DEF Tables
<1>1. /\ at = 2 /\ at' = 3
      /\ db'["suppressions"] = IF There("suppressions") THEN db["suppressions"] ELSE Table({"id"}, {})
      /\ db'["suppressions_new"] = IF There("suppressions_new") THEN db["suppressions_new"] ELSE Table({}, {})
  BY <1>0, CreatingTables DEF Created
<1>2. Rebuildable("suppressions", "suppressions_new", {}, owned.suppressions, 12)
  BY DEF SuppressionsKept
<1>3. PICK O : O = owned.suppressions
  OBVIOUS
<1>4. Rebuildable("suppressions", "suppressions_new", {}, O, 12)'
  BY <1>0, <1>1, <1>2, <1>3, CreateKeeps
<1>5. There("suppressions")'
  BY <1>1, TableFields DEF There
<1>. QED  BY <1>1, <1>3, <1>4, <1>5 DEF SuppressionsKept

LEMMA SuppressionsStepped ==
  ASSUME SuppressionsKept, DbShape, UNCHANGED owned, SuppressionsStep
  PROVE  SuppressionsKept'
<1>. USE Ends
<1>0. "suppressions" \in Tables /\ "suppressions_new" \in Tables /\ "suppressions" # "suppressions_new" /\ "id" \notin {NotNull} /\ "id" \notin {}
  BY DEF Tables, NotNull
<1>1. PICK O : O = owned.suppressions
  OBVIOUS
<1>2. /\ Rebuildable("suppressions", "suppressions_new", {}, O, 12) /\ There("suppressions")
      /\ at \in 12..14 /\ at' = at + 1
  BY <1>1, SuppressionsReach DEF SuppressionsKept
<1>3. CASE Reclaim("reclaimSuppressions", "suppressions", "suppressions_new", {})
  <2>1. Rebuildable("suppressions", "suppressions_new", {}, O, 12)' /\ There("suppressions")'
    BY <1>0, <1>2, <1>3, ReclaimKeeps
  <2>. QED  BY <1>1, <2>1 DEF SuppressionsKept
<1>4. CASE DropTable("dropStagedSuppressions", "suppressions_new")
  <2>1. at = 13
    BY <1>4, SchemaSequence, DoesMoves DEF DropTable
  <2>2. Rebuildable("suppressions", "suppressions_new", {}, O, 12)' /\ There("suppressions")'
    BY <1>0, <1>2, <1>4, <2>1, DropStagedKeeps
  <2>. QED  BY <1>1, <2>2 DEF SuppressionsKept
<1>5. CASE Rebuild("rebuildSuppressions", "suppressions", "suppressions_new", {NotNull}, {}, Blank)
  <2>1. Step("rebuildSuppressions")
    BY <1>5, DoesMoves DEF Rebuild
  <2>2. at = 14
    BY <2>1, SchemaSequence
  <2>3. Rebuildable("suppressions", "suppressions_new", {}, O, 12)' /\ There("suppressions")'
    <3>1. PICK new, default : new = {} /\ default = Blank
      OBVIOUS
    <3>2. /\ Rebuildable("suppressions", "suppressions_new", new, O, 12)
          /\ Rebuild("rebuildSuppressions", "suppressions", "suppressions_new", {NotNull}, new, default)
          /\ "id" \notin new /\ "id" \notin {NotNull} /\ at \in 13..Back /\ There("suppressions")
      <4>1. Rebuildable("suppressions", "suppressions_new", new, O, 12)
        BY <1>2, <3>1
      <4>2. Rebuild("rebuildSuppressions", "suppressions", "suppressions_new", {NotNull}, new, default)
        BY <1>5, <3>1
      <4>3. "id" \notin new /\ "id" \notin {NotNull}
        BY <1>0, <3>1
      <4>4. at \in 13..Back /\ There("suppressions")
        BY <1>2, <2>2
      <4>. QED  BY <4>1, <4>2, <4>3, <4>4
    <3>3. Rebuildable("suppressions", "suppressions_new", new, O, 12)' /\ There("suppressions")'
      BY <1>0, <3>2, RebuildKeeps
    <3>. QED  BY <3>1, <3>3
  <2>. QED  BY <1>1, <2>3 DEF SuppressionsKept
<1>. QED  BY <1>3, <1>4, <1>5 DEF SuppressionsStep

-----------------------------------------------------------------------------
(* The trend *)

OldTrend == "compliance_snapshots"
StagedTrend == "compliance_snapshots_new"
Trend == "posture_snapshots"
Pct == {"compliance_pct", "posture_pct"}

\* The days are in the table of the new name once it is there, and until then where a rebuild left them.
DaysKept ==
    /\ HasIds(Trend)
    /\ IF There(Trend) THEN Ids(db[Trend].rows) = owned.days /\ Pct \cap db[Trend].cols # {}
       ELSE Rebuildable(OldTrend, StagedTrend, {"subscription_id"}, owned.days, 3) /\ (There(OldTrend) => "compliance_pct" \in db[OldTrend].cols)
    /\ at \in 3..Back => There(OldTrend) \/ There(Trend)
    /\ at \in 8..Back => There(Trend)
    /\ at \in 9..Back => "posture_pct" \in db[Trend].cols

LEMMA DaysTables == {OldTrend, StagedTrend, Trend} \subseteq Tables /\ OldTrend # StagedTrend /\ OldTrend # Trend /\ StagedTrend # Trend
BY DEF OldTrend, StagedTrend, Trend, Tables

LEMMA DaysElsewhere ==
  ASSUME DaysKept, UNCHANGED owned, db'[OldTrend] = db[OldTrend], db'[StagedTrend] = db[StagedTrend], db'[Trend] = db[Trend],
         Onward({3, 4, 8, 9})
  PROVE  DaysKept'
<1>1. PICK O : O = owned.days
  OBVIOUS
<1>2. ~There(Trend) => Rebuildable(OldTrend, StagedTrend, {"subscription_id"}, O, 3)'
  <2>1. ~There(Trend) => Rebuildable(OldTrend, StagedTrend, {"subscription_id"}, O, 3)
    BY <1>1 DEF DaysKept
  <2>2. at' \in 4..Back => at \in 4..Back
    BY DEF Onward
  <2>. QED  BY <2>1, <2>2, RebuildableElsewhere
<1>3. (There(Trend)' <=> There(Trend)) /\ (There(OldTrend)' <=> There(OldTrend)) /\ (HasIds(Trend)' <=> HasIds(Trend))
  BY DEF There, HasIds, OldTrend, Trend
<1>4. Back' = Back /\ OldTrend' = OldTrend /\ StagedTrend' = StagedTrend /\ Trend' = Trend
  BY DEF Back, Serving, OldTrend, StagedTrend, Trend
<1>5. \A n \in {3, 8, 9} : at' \in n..Back => at \in n..Back
  BY DEF Onward
<1>. QED  BY <1>1, <1>2, <1>3, <1>4, <1>5 DEF DaysKept

LEMMA DaysCreated ==
  ASSUME DaysKept, DbShape, UNCHANGED owned, CreateTables
  PROVE  DaysKept'
<1>. USE Ends
<1>1. /\ at = 2 /\ at' = 3
      /\ db'[OldTrend] = IF There(OldTrend) THEN db[OldTrend] ELSE Table({"id", "subscription_id", "compliance_pct"}, {})
      /\ db'[StagedTrend] = IF There(StagedTrend) THEN db[StagedTrend] ELSE Table({}, {})
      /\ db'[Trend] = IF There(Trend) THEN db[Trend] ELSE Table({}, {})
  BY DaysTables, CreatingTables DEF Created, OldTrend, StagedTrend, Trend
<1>2. PICK O : O = owned.days
  OBVIOUS
<1>3. There(OldTrend)' /\ (There(Trend)' <=> There(Trend))
  BY <1>1, TableFields DEF There
<1>4. HasIds(Trend)'
  BY <1>1, TableFields DEF HasIds, DaysKept
<1>5. CASE There(Trend)
  BY <1>1, <1>3, <1>4, <1>5 DEF DaysKept
<1>6. CASE ~There(Trend)
  <2>1. Rebuildable(OldTrend, StagedTrend, {"subscription_id"}, O, 3)
    BY <1>2, <1>6 DEF DaysKept
  <2>2. Rebuildable(OldTrend, StagedTrend, {"subscription_id"}, O, 3)'
    BY <1>1, <2>1, CreateKeeps
  <2>3. "compliance_pct" \in db'[OldTrend].cols
    BY <1>1, <1>6, TableFields DEF DaysKept
  <2>. QED  BY <1>1, <1>2, <1>3, <1>4, <1>6, <2>2, <2>3 DEF DaysKept
<1>. QED  BY <1>5, <1>6

\* Before the trend has its new name a step on its old tables is the rebuild's.
LEMMA DaysRebuilt ==
  ASSUME DaysKept, DbShape, UNCHANGED owned, SnapshotsStep
  PROVE  DaysKept'
<1>. USE Ends, DaysTables
<1>0. at \in 3..5 /\ at' = at + 1 /\ (There(OldTrend) \/ There(Trend)) /\ {NotNull, "subscription_id"} \cap {"id", "compliance_pct"} = {}
  <2>1. (Step("reclaimSnapshots") \/ Step("dropStagedSnapshots") \/ Step("rebuildSnapshots")) /\ at' = at + 1
    BY DoesMoves DEF SnapshotsStep, Reclaim, DropTable, Rebuild
  <2>2. at \in 3..5 /\ at' = at + 1
    BY <2>1, SchemaSequence
  <2>. QED  BY <2>2 DEF DaysKept, NotNull
<1>1. PICK O : O = owned.days
  OBVIOUS
<1>2. PICK new : new = {"subscription_id"}
  OBVIOUS
<1>3. db'[Trend] = db[Trend] /\ (There(Trend)' <=> There(Trend)) /\ (HasIds(Trend)' <=> HasIds(Trend))
  <2>1. Reclaim("reclaimSnapshots", OldTrend, StagedTrend, {"subscription_id"}) => Only(OldTrend)
    BY Reclaiming
  <2>2. DropTable("dropStagedSnapshots", StagedTrend) => Only(StagedTrend)
    BY DroppingTable DEF DropTable
  <2>3. Rebuild("rebuildSnapshots", OldTrend, StagedTrend, {}, {"subscription_id"}, Blank) => Only(OldTrend)
    BY Rebuilding
  <2>4. db'[Trend] = db[Trend]
    BY <2>1, <2>2, <2>3 DEF SnapshotsStep, Only, OldTrend, StagedTrend
  <2>. QED  BY <2>4 DEF There, HasIds
<1>4. CASE There(Trend)
  BY <1>0, <1>3, <1>4 DEF DaysKept
<1>5. CASE ~There(Trend)
  <2>1. Rebuildable(OldTrend, StagedTrend, new, O, 3) /\ There(OldTrend) /\ "compliance_pct" \in db[OldTrend].cols
    BY <1>0, <1>1, <1>2, <1>5 DEF DaysKept
  <2>2. Rebuildable(OldTrend, StagedTrend, new, O, 3)' /\ There(OldTrend)' /\ "compliance_pct" \in db'[OldTrend].cols
    <3>1. CASE Reclaim("reclaimSnapshots", OldTrend, StagedTrend, {"subscription_id"})
      <4>1. Reclaim("reclaimSnapshots", OldTrend, StagedTrend, new)
        BY <1>2, <3>1
      <4>. QED  BY <2>1, <4>1, ReclaimKeeps
    <3>2. CASE DropTable("dropStagedSnapshots", StagedTrend)
      <4>1. at \in 4..Back
        BY <3>2, SchemaSequence, DoesMoves DEF DropTable
      <4>2. Rebuildable(OldTrend, StagedTrend, new, O, 3)' /\ There(OldTrend)' /\ Only(StagedTrend)
        BY <2>1, <3>2, <4>1, DropStagedKeeps
      <4>3. db'[OldTrend] = db[OldTrend]
        BY <4>2 DEF Only
      <4>. QED  BY <2>1, <4>2, <4>3
    <3>3. CASE Rebuild("rebuildSnapshots", OldTrend, StagedTrend, {}, {"subscription_id"}, Blank)
      <4>1. PICK old, default : old = {} /\ default = Blank
        OBVIOUS
      <4>2. Rebuild("rebuildSnapshots", OldTrend, StagedTrend, old, new, default)
        BY <1>2, <3>3, <4>1
      <4>3. Step("rebuildSnapshots")
        BY <3>3, DoesMoves DEF Rebuild
      <4>4. at \in 4..Back
        BY <4>3, SchemaSequence
      <4>5. "id" \notin old /\ "id" \notin new
        BY <1>2, <4>1
      <4>6. /\ Rebuildable(OldTrend, StagedTrend, new, O, 3)' /\ There(OldTrend)'
            /\ db'[OldTrend].cols \in {db[OldTrend].cols, (db[OldTrend].cols \ old) \cup new}
        BY <2>1, <4>2, <4>4, <4>5, RebuildKeeps
      <4>. QED  BY <2>1, <4>1, <4>6
    <3>. QED  BY <3>1, <3>2, <3>3 DEF SnapshotsStep, OldTrend, StagedTrend
  <2>. QED  BY <1>0, <1>1, <1>2, <1>3, <1>5, <2>2 DEF DaysKept
<1>. QED  BY <1>4, <1>5

LEMMA DaysRenamed ==
  ASSUME DaysKept, DbShape, UNCHANGED owned, DropShell \/ RenamePosture \/ RenamePosturePct
  PROVE  DaysKept'
<1>. USE Ends, DaysTables
<1>1. PICK O : O = owned.days
  OBVIOUS
<1>2. CASE DropShell
  <2>1. at = 6 /\ at' = 7
    BY <1>2, SchemaSequence, DoesMoves DEF DropShell
  <2>2. CASE There(Trend)
    <3>1. db' = [db EXCEPT ![OldTrend] = NoTable]
      BY <1>2, <2>2 DEF DropShell, OldTrend, Trend
    <3>2. db'[Trend] = db[Trend]
      BY <3>1, DroppingTable DEF Only
    <3>3. There(Trend)' /\ (HasIds(Trend)' <=> HasIds(Trend))
      BY <2>2, <3>2 DEF There, HasIds
    <3>. QED  BY <2>1, <2>2, <3>2, <3>3 DEF DaysKept
  <2>3. CASE ~There(Trend)
    <3>1. db' = db
      BY <1>2, <2>3 DEF DropShell, Trend
    <3>. QED  BY <2>1, <3>1, DaysElsewhere DEF Onward
  <2>. QED  BY <2>2, <2>3
<1>3. CASE RenamePosture
  <2>1. at = 7 /\ at' = 8
    BY <1>3, SchemaSequence, DoesMoves DEF RenamePosture
  <2>2. IF There(OldTrend) /\ ~There(Trend) THEN db'[Trend] = db[OldTrend] ELSE db' = db
    BY <1>3, RenamingTable DEF RenamePosture, OldTrend, Trend
  <2>3. CASE There(Trend)
    <3>1. db' = db
      BY <2>2, <2>3
    <3>2. There(Trend)' /\ (HasIds(Trend)' <=> HasIds(Trend))
      BY <2>3, <3>1 DEF There, HasIds
    <3>. QED  BY <2>1, <2>3, <3>1, <3>2 DEF DaysKept
  <2>4. CASE ~There(Trend)
    <3>1. There(OldTrend) /\ Rebuildable(OldTrend, StagedTrend, {"subscription_id"}, owned.days, 3) /\ "compliance_pct" \in db[OldTrend].cols
      BY <2>1, <2>4 DEF DaysKept
    <3>2. db'[Trend] = db[OldTrend] /\ Ids(db[OldTrend].rows) = owned.days /\ HasIds(OldTrend)
      BY <2>1, <2>2, <2>4, <3>1 DEF Rebuildable
    <3>3. There(Trend)' /\ HasIds(Trend)'
      BY <3>1, <3>2 DEF There, HasIds
    <3>. QED  BY <2>1, <3>1, <3>2, <3>3 DEF DaysKept, Pct
  <2>. QED  BY <2>3, <2>4
<1>4. CASE RenamePosturePct
  <2>1. at = 8 /\ at' = 9
    BY <1>4, SchemaSequence, DoesMoves DEF RenamePosturePct
  <2>2. There(Trend) /\ Ids(db[Trend].rows) = owned.days /\ Pct \cap db[Trend].cols # {} /\ HasIds(Trend)
    BY <2>1 DEF DaysKept
  <2>3. IF "compliance_pct" \in db[Trend].cols /\ "posture_pct" \notin db[Trend].cols
        THEN /\ db'[Trend].cols = (db[Trend].cols \ {"compliance_pct"}) \cup {"posture_pct"}
             /\ db'[Trend].rows = RenamedIn(db[Trend].rows, "compliance_pct", "posture_pct")
        ELSE db'[Trend] = db[Trend]
    BY <1>4, RenamingColumn DEF RenamePosturePct, Trend
  <2>4. "posture_pct" \in db'[Trend].cols
    BY <2>2, <2>3 DEF Pct
  <2>5. \A r : "id" \in DOMAIN r => /\ "id" \in DOMAIN Renamed(r, "compliance_pct", "posture_pct")
                                   /\ Renamed(r, "compliance_pct", "posture_pct")["id"] = r["id"]
    BY DEF Renamed
  <2>6. Ids(db'[Trend].rows) = owned.days /\ HasIds(Trend)'
    <3>1. CASE db'[Trend] = db[Trend]
      BY <2>2, <3>1 DEF HasIds
    <3>2. CASE db'[Trend].rows = RenamedIn(db[Trend].rows, "compliance_pct", "posture_pct")
      BY <2>2, <2>5, <3>2 DEF HasIds, Ids, RenamedIn
    <3>. QED  BY <2>3, <3>1, <3>2
  <2>7. There(Trend)'
    BY <2>4 DEF There
  <2>. QED  BY <2>1, <2>4, <2>6, <2>7 DEF DaysKept, Pct
<1>. QED  BY <1>2, <1>3, <1>4

-----------------------------------------------------------------------------
(* Schedules *)

Sched == "schedules"

\* A schedule with its recurrence, disabled over the categories it had, or still with its cron.
Moved(r) ==
    /\ {"start_at", "target"} \subseteq DOMAIN r
    /\ r["start_at"] # Blank /\ r["target"] = r["id"] /\ r["enabled"] = FALSE
StillCron(r) ==
    /\ {"cron", "categories"} \subseteq DOMAIN r /\ r["categories"] = r["id"]
    /\ "start_at" \in DOMAIN r => r["start_at"] = Blank

SchedulesKept ==
    /\ \A r \in db[Sched].rows : DOMAIN r = db[Sched].cols /\ (Moved(r) \/ StillCron(r))
    /\ IF There(Sched) THEN {"id", "enabled"} \subseteq db[Sched].cols ELSE db[Sched].rows = {}
    /\ Ids(db[Sched].rows) = owned.schedules
    /\ "start_at" \in db[Sched].cols => "target" \in db[Sched].cols
    /\ at \in 3..Back => There(Sched)
    /\ at \in 23..Back => "target" \in db[Sched].cols
    /\ at \in 24..Back => "start_at" \in db[Sched].cols
    /\ at \in 25..Back => \A r \in db[Sched].rows : Moved(r)

LEMMA NowIsSet == "now" # Blank
BY Zenon DEF Blank

LEMMA SchedulesElsewhere ==
  ASSUME SchedulesKept, UNCHANGED owned, db'[Sched] = db[Sched], Onward({3, 23, 24, 25})
  PROVE  SchedulesKept'
<1>1. (There(Sched)' <=> There(Sched)) /\ Back' = Back /\ Sched' = Sched
  BY DEF There, Back, Serving, Sched
<1>2. \A n \in {3, 23, 24, 25} : at' \in n..Back => at \in n..Back
  BY DEF Onward
<1>. QED  BY <1>1, <1>2 DEF SchedulesKept

LEMMA SchedulesCreated ==
  ASSUME SchedulesKept, DbShape, UNCHANGED owned, CreateTables
  PROVE  SchedulesKept'
<1>. USE Ends
<1>1. /\ at = 2 /\ at' = 3
      /\ db'[Sched] = IF There(Sched) THEN db[Sched] ELSE Table({"id", "categories", "cron", "enabled"}, {})
  BY CreatingTables DEF Created, Tables, Sched
<1>2. CASE There(Sched)
  <2>1. There(Sched)'
    BY <1>1, <1>2 DEF There
  <2>. QED  BY <1>1, <1>2, <2>1 DEF SchedulesKept
<1>3. CASE ~There(Sched)
  <2>1. db'[Sched].cols = {"id", "categories", "cron", "enabled"} /\ db'[Sched].rows = {} /\ db[Sched].rows = {}
    BY <1>1, <1>3, TableFields DEF SchedulesKept
  <2>2. There(Sched)'
    BY <2>1 DEF There
  <2>. QED  BY <1>1, <2>1, <2>2 DEF SchedulesKept
<1>. QED  BY <1>2, <1>3

LEMMA PutAt ==
  \A r, c, v : /\ DOMAIN Put(r, c, v) = DOMAIN r \cup {c} /\ Put(r, c, v)[c] = v
               /\ \A x \in DOMAIN r : x # c => Put(r, c, v)[x] = r[x]
BY DEF Put

LEMMA TargetAdded ==
  ASSUME SchedulesKept, DbShape, UNCHANGED owned, at = 22, at' = 23, AddColumn(Sched, "target", "all")
  PROVE  SchedulesKept'
<1>. USE Ends
<1>1. There(Sched) /\ {"id", "enabled"} \subseteq db[Sched].cols
  BY DEF SchedulesKept
<1>2. IF "target" \notin db[Sched].cols
      THEN db'[Sched].cols = db[Sched].cols \cup {"target"} /\ db'[Sched].rows = Added(db[Sched].rows, "target", "all")
      ELSE db'[Sched] = db[Sched]
  BY <1>1, Adding DEF Sched, Tables
<1>3. CASE "target" \in db[Sched].cols
  <2>1. There(Sched)'
    BY <1>1, <1>2, <1>3 DEF There
  <2>. QED  BY <1>1, <1>2, <1>3, <2>1 DEF SchedulesKept
<1>4. CASE "target" \notin db[Sched].cols
  <2>1. There(Sched)'
    BY <1>2, <1>4 DEF There
  <2>2. "start_at" \notin db[Sched].cols
    BY <1>4 DEF SchedulesKept
  <2>3. ASSUME NEW r \in db[Sched].rows
        PROVE  LET q == Put(r, "target", "all")
               IN  DOMAIN q = db'[Sched].cols /\ StillCron(q) /\ q["id"] = r["id"]
    <3>1. DOMAIN r = db[Sched].cols /\ StillCron(r)
      BY <2>2 DEF SchedulesKept, Moved
    <3>. DEFINE q == Put(r, "target", "all")
    <3>2. DOMAIN q = DOMAIN r \cup {"target"} /\ q["target"] = "all" /\ \A x \in DOMAIN r : x # "target" => q[x] = r[x]
      BY DEF Put
    <3>. HIDE DEF q
    <3>3. StillCron(q) /\ q["id"] = r["id"]
      BY <1>1, <1>4, <3>1, <3>2 DEF StillCron
    <3>4. DOMAIN q = db'[Sched].cols
      BY <1>2, <1>4, <3>1, <3>2
    <3>. QED  BY <3>3, <3>4 DEF q
  <2>4. Ids(db'[Sched].rows) = Ids(db[Sched].rows)
    BY <1>2, <1>4, <2>3 DEF Ids, Added
  <2>5. \A q \in db'[Sched].rows : DOMAIN q = db'[Sched].cols /\ StillCron(q)
    BY <1>2, <1>4, <2>3 DEF Added
  <2>. QED  BY <1>1, <1>2, <1>4, <2>1, <2>2, <2>4, <2>5 DEF SchedulesKept
<1>. QED  BY <1>3, <1>4

LEMMA StartAdded ==
  ASSUME SchedulesKept, DbShape, UNCHANGED owned, at = 23, at' = 24, AddColumn(Sched, "start_at", Blank)
  PROVE  SchedulesKept'
<1>. USE Ends
<1>1. There(Sched) /\ {"id", "enabled", "target"} \subseteq db[Sched].cols
  BY DEF SchedulesKept
<1>2. IF "start_at" \notin db[Sched].cols
      THEN db'[Sched].cols = db[Sched].cols \cup {"start_at"} /\ db'[Sched].rows = Added(db[Sched].rows, "start_at", Blank)
      ELSE db'[Sched] = db[Sched]
  BY <1>1, Adding DEF Sched, Tables
<1>3. CASE "start_at" \in db[Sched].cols
  <2>1. There(Sched)'
    BY <1>1, <1>2, <1>3 DEF There
  <2>. QED  BY <1>1, <1>2, <1>3, <2>1 DEF SchedulesKept
<1>4. CASE "start_at" \notin db[Sched].cols
  <2>1. There(Sched)'
    BY <1>2, <1>4 DEF There
  <2>3. ASSUME NEW r \in db[Sched].rows
        PROVE  LET q == Put(r, "start_at", Blank)
               IN  DOMAIN q = db'[Sched].cols /\ StillCron(q) /\ q["id"] = r["id"]
    <3>1. DOMAIN r = db[Sched].cols /\ StillCron(r)
      BY <1>4 DEF SchedulesKept, Moved
    <3>. DEFINE q == Put(r, "start_at", Blank)
    <3>2. DOMAIN q = DOMAIN r \cup {"start_at"} /\ q["start_at"] = Blank /\ \A x \in DOMAIN r : x # "start_at" => q[x] = r[x]
      BY DEF Put
    <3>. HIDE DEF q
    <3>3. StillCron(q) /\ q["id"] = r["id"]
      BY <1>1, <1>4, <3>1, <3>2 DEF StillCron
    <3>4. DOMAIN q = db'[Sched].cols
      BY <1>2, <1>4, <3>1, <3>2
    <3>. QED  BY <3>3, <3>4 DEF q
  <2>4. Ids(db'[Sched].rows) = Ids(db[Sched].rows)
    BY <1>2, <1>4, <2>3 DEF Ids, Added
  <2>5. \A q \in db'[Sched].rows : DOMAIN q = db'[Sched].cols /\ StillCron(q)
    BY <1>2, <1>4, <2>3 DEF Added
  <2>. QED  BY <1>1, <1>2, <1>4, <2>1, <2>4, <2>5 DEF SchedulesKept
<1>. QED  BY <1>3, <1>4

LEMMA RecurrenceMoves ==
  ASSUME SchedulesKept, DbShape, UNCHANGED owned, Recurrence
  PROVE  SchedulesKept'
<1>. USE Ends
<1>0. at = 24 /\ (at' = at \/ at' = at + 1)
  <2>1. Step("recurrence") /\ (at' = at \/ at' = at + 1)
    BY DoesMoves DEF Recurrence
  <2>. QED  BY <2>1, SchemaSequence
<1>1. There(Sched) /\ {"id", "enabled", "target", "start_at"} \subseteq db[Sched].cols
  BY <1>0 DEF SchedulesKept
<1>2. CASE at' = at
  <2>1. PICK r \in db[Sched].rows :
          /\ {"cron", "categories"} \subseteq db[Sched].cols /\ r["start_at"] = Blank
          /\ db' = [db EXCEPT ![Sched] = Table(db[Sched].cols, (db[Sched].rows \ {r}) \cup {AsDaily(r)})]
    BY <1>0, <1>2, DoesMoves DEF Recurrence, Sched
  <2>. DEFINE q == AsDaily(r)
              rows == (db[Sched].rows \ {r}) \cup {q}
  <2>2. db'[Sched].cols = db[Sched].cols /\ db'[Sched].rows = rows
    <3>1. Sched \in Tables /\ db' = [db EXCEPT ![Sched] = Table(db[Sched].cols, rows)]
      BY <2>1 DEF Sched, Tables
    <3>. HIDE DEF q, rows
    <3>. QED  BY <3>1, ChangeTable
  <2>3. DOMAIN r = db[Sched].cols /\ StillCron(r)
    BY <2>1 DEF SchedulesKept, Moved
  <2>4. DOMAIN q = DOMAIN r /\ Moved(q) /\ q["id"] = r["id"]
    BY <1>1, <2>3, NowIsSet DEF StillCron, Moved, AsDaily
  <2>. HIDE DEF q
  <2>5. Ids(rows) = Ids(db[Sched].rows)
    BY <2>4 DEF Ids
  <2>6. \A x \in rows : DOMAIN x = db[Sched].cols /\ (Moved(x) \/ StillCron(x))
    BY <2>3, <2>4 DEF SchedulesKept
  <2>7. There(Sched)'
    BY <1>1, <2>2 DEF There
  <2>. QED  BY <1>0, <1>1, <1>2, <2>2, <2>5, <2>6, <2>7 DEF SchedulesKept
<1>3. CASE at' = at + 1
  <2>1. db' = db /\ ({"cron", "categories"} \subseteq db[Sched].cols => \A r \in db[Sched].rows : r["start_at"] # Blank)
    BY <1>0, <1>3 DEF Recurrence, Sched
  <2>2. \A r \in db[Sched].rows : Moved(r)
    BY <1>1, <2>1 DEF SchedulesKept, StillCron
  <2>3. There(Sched)'
    BY <1>1, <2>1 DEF There
  <2>. QED  BY <1>0, <1>1, <1>3, <2>1, <2>2, <2>3 DEF SchedulesKept
<1>. QED  BY <1>0, <1>2, <1>3

LEMMA ColumnDropped ==
  ASSUME SchedulesKept, DbShape, UNCHANGED owned, at \in 25..26, at' = at + 1,
         NEW gone \in {"categories", "cron"}, DropColumn(Sched, gone)
  PROVE  SchedulesKept'
<1>. USE Ends
<1>1. /\ There(Sched) /\ {"id", "enabled", "target", "start_at"} \subseteq db[Sched].cols
      /\ \A r \in db[Sched].rows : DOMAIN r = db[Sched].cols /\ Moved(r)
  BY DEF SchedulesKept
<1>2. db'[Sched].cols = db[Sched].cols \ {gone} /\ db'[Sched].rows = Dropped(db[Sched].rows, gone)
  BY Dropping DEF Sched, Tables
<1>3. ASSUME NEW r \in db[Sched].rows
      PROVE  LET q == WithoutColumn(r, gone)
             IN  DOMAIN q = db'[Sched].cols /\ Moved(q) /\ q["id"] = r["id"]
  BY <1>1, <1>2 DEF Moved, WithoutColumn
<1>4. Ids(db'[Sched].rows) = Ids(db[Sched].rows)
  BY <1>2, <1>3 DEF Ids, Dropped
<1>5. \A q \in db'[Sched].rows : DOMAIN q = db'[Sched].cols /\ Moved(q)
  BY <1>2, <1>3 DEF Dropped
<1>6. {"id", "enabled", "target", "start_at"} \subseteq db'[Sched].cols /\ There(Sched)'
  BY <1>1, <1>2 DEF There
<1>. QED  BY <1>4, <1>5, <1>6 DEF SchedulesKept

LEMMA SchedulesStepped ==
  ASSUME SchedulesKept, DbShape, UNCHANGED owned, SchedulesStep
  PROVE  SchedulesKept'
<1>. USE SchemaSequence
<1>1. CASE AddRecurrence
  <2>1. CASE Does("addTarget") /\ AddColumn("schedules", "target", "all")
    <3>1. at = 22 /\ at' = 23
      BY <2>1, DoesMoves
    <3>. QED  BY <2>1, <3>1, TargetAdded DEF Sched
  <2>2. CASE Does("addRecurrence") /\ AddColumn("schedules", "start_at", Blank)
    <3>1. at = 23 /\ at' = 24
      BY <2>2, DoesMoves
    <3>. QED  BY <2>2, <3>1, StartAdded DEF Sched
  <2>. QED  BY <1>1, <2>1, <2>2 DEF AddRecurrence
<1>2. CASE DropCron
  <2>1. CASE Does("dropCategories") /\ DropColumn("schedules", "categories")
    <3>1. at = 25 /\ at' = 26
      BY <2>1, DoesMoves
    <3>. QED  BY <2>1, <3>1, ColumnDropped DEF Sched
  <2>2. CASE Does("dropCron") /\ DropColumn("schedules", "cron")
    <3>1. at = 26 /\ at' = 27
      BY <2>2, DoesMoves
    <3>. QED  BY <2>2, <3>1, ColumnDropped DEF Sched
  <2>. QED  BY <1>2, <2>1, <2>2 DEF DropCron
<1>. QED  BY <1>1, <1>2, RecurrenceMoves DEF SchedulesStep

-----------------------------------------------------------------------------
(* Rules *)

\* What a rule of any release says, by the columns it has.
KindOf(r) == IF "type" \in DOMAIN r THEN r["type"] ELSE IF "source" \in DOMAIN r THEN r["source"] ELSE "custom"
ConditionsOf(r) == IF "conditions" \in DOMAIN r THEN r["conditions"] ELSE r["rules"]
GroupsOf(r) ==
    IF "condition_groups" \in DOMAIN r THEN r["condition_groups"]
    ELSE IF "rule_groups" \in DOMAIN r THEN r["rule_groups"] ELSE Blank
KqlOf(r) == IF "raw_kql" \in DOMAIN r THEN r["raw_kql"] ELSE NoKql

RunsAs(r) ==
    IF KqlOf(r) # NoKql THEN KqlOf(r)
    ELSE IF r["id"] = "graph" THEN ConditionsOf(r) ELSE {<<r["filter"], ConditionsOf(r), GroupsOf(r)>>}
Meaning(r) == <<r["id"], KindOf(r), RunsAs(r)>>
Meanings(rows) == {Meaning(r) : r \in rows}

Basic(cols) == {"id", "filter"} \subseteq cols /\ {"conditions", "rules"} \cap cols # {}

\* The columns a start has brought to their present name.
Columns ==
    /\ at \in 16..Back => "raw_kql" \in db["rules"].cols
    /\ at \in 17..Back => "type" \in db["rules"].cols \/ "source" \notin db["rules"].cols
    /\ at \in 18..Back => "type" \in db["rules"].cols
    /\ at \in 19..Back => "condition_groups" \in db["rules"].cols \/ "rule_groups" \notin db["rules"].cols
    /\ at \in 20..Back => "condition_groups" \in db["rules"].cols
    /\ at \in 21..Back => "conditions" \in db["rules"].cols

RulesKept ==
    /\ \A t \in {"policies", "rules"} :
          /\ \A r \in db[t].rows : DOMAIN r = db[t].cols
          /\ IF There(t) THEN Basic(db[t].cols) ELSE db[t].rows = {}
    /\ There("policies") => ~There("rules")
    /\ Meanings(db["policies"].rows \cup db["rules"].rows) = owned.rules
    /\ at \in 2..Back => ~There("policies")
    /\ at \in 3..Back => There("rules")
    /\ Columns

LEMMA RulesElsewhere ==
  ASSUME RulesKept, UNCHANGED owned, db'["policies"] = db["policies"], db'["rules"] = db["rules"],
         Onward({2, 3, 16, 17, 18, 19, 20, 21})
  PROVE  RulesKept'
<1>1. \A t \in {"policies", "rules"} : There(t)' <=> There(t)
  BY DEF There
<1>2. \A n \in {2, 3, 16, 17, 18, 19, 20, 21} : at' \in n..Back => at \in n..Back
  BY DEF Onward
<1>3. Back' = Back
  BY DEF Back, Serving
<1>4. Columns'
  BY <1>2, <1>3 DEF Columns, RulesKept
<1>. QED  BY <1>1, <1>2, <1>3, <1>4 DEF RulesKept

LEMMA RulesCreated ==
  ASSUME RulesKept, DbShape, UNCHANGED owned, CreateTables
  PROVE  RulesKept'
<1>. USE Ends
<1>1. /\ at = 2 /\ at' = 3
      /\ db'["rules"] = IF There("rules") THEN db["rules"] ELSE Table({"id", "filter", "conditions"}, {})
      /\ db'["policies"] = IF There("policies") THEN db["policies"] ELSE Table({}, {})
  BY CreatingTables DEF Created, Tables
<1>2. ~There("policies") /\ db["policies"].rows = {}
  BY <1>1 DEF RulesKept
<1>3. db'["policies"].rows = {} /\ ~There("policies")'
  BY <1>1, <1>2, TableFields DEF There
<1>4. db'["rules"].rows = db["rules"].rows /\ There("rules")' /\ Basic(db'["rules"].cols)
      /\ \A r \in db'["rules"].rows : DOMAIN r = db'["rules"].cols
  <2>1. CASE There("rules")
    <3>1. db'["rules"] = db["rules"]
      BY <1>1, <2>1
    <3>2. Basic(db["rules"].cols) /\ \A r \in db["rules"].rows : DOMAIN r = db["rules"].cols
      BY <2>1 DEF RulesKept
    <3>. QED  BY <2>1, <3>1, <3>2 DEF There
  <2>2. CASE ~There("rules")
    <3>1. db'["rules"].cols = {"id", "filter", "conditions"} /\ db'["rules"].rows = {} /\ db["rules"].rows = {}
      BY <1>1, <2>2, TableFields DEF RulesKept
    <3>. QED  BY <3>1 DEF There, Basic
  <2>. QED  BY <2>1, <2>2
<1>5. Columns'
  BY <1>1 DEF Columns
<1>6. Meanings(db'["policies"].rows \cup db'["rules"].rows) = owned.rules
  BY <1>2, <1>3, <1>4 DEF RulesKept
<1>. QED  BY <1>1, <1>3, <1>4, <1>5, <1>6 DEF RulesKept

LEMMA PoliciesRenamed ==
  ASSUME RulesKept, DbShape, UNCHANGED owned, RenamePolicies
  PROVE  RulesKept'
<1>. USE Ends
<1>1. at = 1 /\ at' = 2
  BY SchemaSequence, DoesMoves DEF RenamePolicies
<1>2. IF There("policies") /\ ~There("rules") THEN db'["rules"] = db["policies"] /\ db'["policies"] = NoTable
      ELSE db' = db
  BY RenamingTable DEF RenamePolicies, Tables
<1>3. CASE There("policies")
  <2>1. db'["rules"] = db["policies"] /\ db'["policies"].rows = {} /\ db'["policies"].cols = {} /\ db["rules"].rows = {}
    BY <1>2, <1>3, TableFields DEF RulesKept
  <2>2. There("rules")' /\ ~There("policies")'
    BY <1>3, <2>1 DEF There
  <2>3. db'["policies"].rows \cup db'["rules"].rows = db["policies"].rows \cup db["rules"].rows
    BY <2>1
  <2>4. Columns'
    BY <1>1 DEF Columns
  <2>5. Basic(db'["rules"].cols) /\ \A r \in db'["rules"].rows : DOMAIN r = db'["rules"].cols
    BY <1>3, <2>1 DEF RulesKept
  <2>. QED  BY <1>1, <2>1, <2>2, <2>3, <2>4, <2>5 DEF RulesKept
<1>4. CASE ~There("policies")
  <2>1. db' = db
    BY <1>2, <1>4
  <2>2. \A t \in {"policies", "rules"} : There(t)' <=> There(t)
    BY <2>1 DEF There
  <2>3. Columns'
    BY <1>1 DEF Columns
  <2>4. ~There("policies")'
    BY <1>4, <2>2
  <2>. QED  BY <1>1, <2>1, <2>2, <2>3, <2>4 DEF RulesKept
<1>. QED  BY <1>3, <1>4

\* The rules' rows written anew, each saying what it said.
LEMMA RulesRewritten ==
  ASSUME RulesKept, DbShape, UNCHANGED owned, at \in 15..21, at' \in {at, at + 1}, Only("rules"),
         Basic(db'["rules"].cols), \A r \in db'["rules"].rows : DOMAIN r = db'["rules"].cols,
         Meanings(db'["rules"].rows) = Meanings(db["rules"].rows), Columns'
  PROVE  RulesKept'
<1>. USE Ends
<1>1. db'["policies"] = db["policies"] /\ ~There("policies") /\ db["policies"].rows = {}
  BY DEF Only, Tables, RulesKept
<1>2. There("rules")' /\ ~There("policies")' /\ db'["policies"].rows = {}
  BY <1>1 DEF There, Basic
<1>3. Meanings(db["rules"].rows) = owned.rules
  <2>1. {} \cup db["rules"].rows = db["rules"].rows
    OBVIOUS
  <2>. QED  BY <1>1, <2>1 DEF RulesKept
<1>4. Meanings(db'["policies"].rows \cup db'["rules"].rows) = owned.rules
  <2>1. db'["policies"].rows \cup db'["rules"].rows = db'["rules"].rows
    BY <1>2
  <2>. QED  BY <1>3, <2>1
<1>. QED  BY <1>2, <1>4 DEF RulesKept

LEMMA SameMeaning ==
  ASSUME NEW q, NEW r, q["id"] = r["id"], q["filter"] = r["filter"], KindOf(q) = KindOf(r),
         ConditionsOf(q) = ConditionsOf(r), GroupsOf(q) = GroupsOf(r), KqlOf(q) = KqlOf(r)
  PROVE  Meaning(q) = Meaning(r)
BY DEF Meaning, RunsAs

RuleColumns == {"id", "filter", "type", "source", "conditions", "rules", "condition_groups", "rule_groups", "raw_kql"}

\* A column given its default in a row that had no value under either name.
LEMMA PutMeaning ==
  ASSUME NEW r, {"id", "filter"} \subseteq DOMAIN r, NEW c, NEW v, c \notin DOMAIN r,
         \/ c = "raw_kql" /\ v = NoKql
         \/ c = "type" /\ v = "custom" /\ "source" \notin DOMAIN r
         \/ c = "condition_groups" /\ v = Blank /\ "rule_groups" \notin DOMAIN r,
         {"conditions", "rules"} \cap DOMAIN r # {}
  PROVE  DOMAIN Put(r, c, v) = DOMAIN r \cup {c} /\ Meaning(Put(r, c, v)) = Meaning(r)
<1>. DEFINE q == Put(r, c, v)
<1>1. DOMAIN q = DOMAIN r \cup {c} /\ q[c] = v /\ \A x \in DOMAIN r : q[x] = r[x]
  BY DEF Put
<1>. HIDE DEF q
<1>2. q["id"] = r["id"] /\ q["filter"] = r["filter"]
  BY <1>1
<1>3. KindOf(q) = KindOf(r)
  BY <1>1 DEF KindOf
<1>4. ConditionsOf(q) = ConditionsOf(r)
  BY <1>1 DEF ConditionsOf
<1>5. GroupsOf(q) = GroupsOf(r)
  BY <1>1 DEF GroupsOf
<1>6. KqlOf(q) = KqlOf(r)
  BY <1>1 DEF KqlOf
<1>7. Meaning(q) = Meaning(r)
  BY <1>2, <1>3, <1>4, <1>5, <1>6, SameMeaning
<1>. QED  BY <1>1, <1>7 DEF q

\* A column whose data has a new name.
NewName(from, to) ==
    \/ from = "source" /\ to = "type"
    \/ from = "rule_groups" /\ to = "condition_groups"
    \/ from = "rules" /\ to = "conditions"

LEMMA RenamedMeaning ==
  ASSUME NEW r, {"id", "filter"} \subseteq DOMAIN r, NEW from, NEW to, from \in DOMAIN r, to \notin DOMAIN r,
         NewName(from, to),
         {"conditions", "rules"} \cap DOMAIN r # {}
  PROVE  DOMAIN Renamed(r, from, to) = (DOMAIN r \ {from}) \cup {to} /\ Meaning(Renamed(r, from, to)) = Meaning(r)
<1>. DEFINE q == Renamed(r, from, to)
<1>1. /\ DOMAIN q = (DOMAIN r \ {from}) \cup {to} /\ q[to] = r[from]
      /\ \A x \in DOMAIN r : x # from => q[x] = r[x]
  BY DEF Renamed
<1>. HIDE DEF q
<1>2. q["id"] = r["id"] /\ q["filter"] = r["filter"]
  BY <1>1 DEF NewName
<1>3. KindOf(q) = KindOf(r)
  BY <1>1 DEF KindOf, NewName
<1>4. ConditionsOf(q) = ConditionsOf(r)
  BY <1>1 DEF ConditionsOf, NewName
<1>5. GroupsOf(q) = GroupsOf(r)
  BY <1>1 DEF GroupsOf, NewName
<1>6. KqlOf(q) = KqlOf(r)
  BY <1>1 DEF KqlOf, NewName
<1>7. Meaning(q) = Meaning(r)
  BY <1>2, <1>3, <1>4, <1>5, <1>6, SameMeaning
<1>. QED  BY <1>1, <1>7 DEF q
\* A statement that changes rules' columns and leaves each row's meaning.
LEMMA RuleColumnAdded ==
  ASSUME RulesKept, DbShape, UNCHANGED owned, at \in 15..19, at' = at + 1, NEW c, NEW v, AddColumn("rules", c, v),
         \/ c = "raw_kql" /\ v = NoKql
         \/ c = "type" /\ v = "custom" /\ ("type" \notin db["rules"].cols => "source" \notin db["rules"].cols)
         \/ /\ c = "condition_groups" /\ v = Blank
            /\ "condition_groups" \notin db["rules"].cols => "rule_groups" \notin db["rules"].cols
  PROVE  /\ Only("rules") /\ db'["rules"].cols = db["rules"].cols \cup {c}
         /\ Basic(db'["rules"].cols) /\ \A r \in db'["rules"].rows : DOMAIN r = db'["rules"].cols
         /\ Meanings(db'["rules"].rows) = Meanings(db["rules"].rows)
<1>. USE Ends
<1>0. "rules" \in Tables
  BY DEF Tables
<1>1. There("rules") /\ Basic(db["rules"].cols) /\ \A r \in db["rules"].rows : DOMAIN r = db["rules"].cols
  BY DEF RulesKept
<1>2. /\ Only("rules")
      /\ IF c \notin db["rules"].cols
         THEN db'["rules"].cols = db["rules"].cols \cup {c} /\ db'["rules"].rows = Added(db["rules"].rows, c, v)
         ELSE db'["rules"] = db["rules"]
  BY <1>0, <1>1, Adding
<1>3. CASE c \in db["rules"].cols
  BY <1>1, <1>2, <1>3
<1>4. CASE c \notin db["rules"].cols
  <2>1. ASSUME NEW r \in db["rules"].rows
        PROVE  DOMAIN Put(r, c, v) = db["rules"].cols \cup {c} /\ Meaning(Put(r, c, v)) = Meaning(r)
    <3>1. DOMAIN r = db["rules"].cols
      BY <1>1
    <3>2. {"id", "filter"} \subseteq DOMAIN r /\ {"conditions", "rules"} \cap DOMAIN r # {} /\ c \notin DOMAIN r
      BY <1>1, <1>4, <3>1 DEF Basic
    <3>3. \/ c = "raw_kql" /\ v = NoKql
          \/ c = "type" /\ v = "custom" /\ "source" \notin DOMAIN r
          \/ c = "condition_groups" /\ v = Blank /\ "rule_groups" \notin DOMAIN r
      BY <1>4, <3>1
    <3>4. DOMAIN Put(r, c, v) = DOMAIN r \cup {c} /\ Meaning(Put(r, c, v)) = Meaning(r)
      BY <3>2, <3>3, PutMeaning
    <3>. QED  BY <3>1, <3>4
  <2>2. Meanings(db'["rules"].rows) = Meanings(db["rules"].rows)
    BY <1>2, <1>4, <2>1 DEF Meanings, Added
  <2>3. \A r \in db'["rules"].rows : DOMAIN r = db'["rules"].cols
    <3>1. /\ db'["rules"].cols = db["rules"].cols \cup {c}
          /\ db'["rules"].rows = {Put(r, c, v) : r \in db["rules"].rows}
      BY <1>2, <1>4 DEF Added
    <3>. SUFFICES ASSUME NEW q \in db'["rules"].rows PROVE DOMAIN q = db["rules"].cols \cup {c}
      BY <3>1
    <3>2. PICK r \in db["rules"].rows : q = Put(r, c, v)
      BY <3>1
    <3>. QED  BY <2>1, <3>2
  <2>4. Basic(db'["rules"].cols)
    BY <1>1, <1>2, <1>4 DEF Basic
  <2>. QED  BY <1>2, <1>4, <2>2, <2>3, <2>4
<1>. QED  BY <1>3, <1>4

LEMMA RuleColumnRenamed ==
  ASSUME RulesKept, DbShape, UNCHANGED owned, at \in 15..20, at' = at + 1, NEW from, NEW to, RenameColumn("rules", from, to),
         NewName(from, to)
  PROVE  /\ Only("rules")
         /\ db'["rules"].cols = IF from \in db["rules"].cols /\ to \notin db["rules"].cols
                               THEN (db["rules"].cols \ {from}) \cup {to} ELSE db["rules"].cols
         /\ Basic(db'["rules"].cols) /\ \A r \in db'["rules"].rows : DOMAIN r = db'["rules"].cols
         /\ Meanings(db'["rules"].rows) = Meanings(db["rules"].rows)
<1>. USE Ends
<1>0. "rules" \in Tables
  BY DEF Tables
<1>1. There("rules") /\ Basic(db["rules"].cols) /\ \A r \in db["rules"].rows : DOMAIN r = db["rules"].cols
  BY DEF RulesKept
<1>2. /\ Only("rules")
      /\ IF from \in db["rules"].cols /\ to \notin db["rules"].cols
         THEN db'["rules"].cols = (db["rules"].cols \ {from}) \cup {to} /\ db'["rules"].rows = RenamedIn(db["rules"].rows, from, to)
         ELSE db'["rules"] = db["rules"]
  BY <1>0, RenamingColumn
<1>3. CASE ~(from \in db["rules"].cols /\ to \notin db["rules"].cols)
  BY <1>1, <1>2, <1>3
<1>4. CASE from \in db["rules"].cols /\ to \notin db["rules"].cols
  <2>1. ASSUME NEW r \in db["rules"].rows
        PROVE  /\ DOMAIN Renamed(r, from, to) = (db["rules"].cols \ {from}) \cup {to}
               /\ Meaning(Renamed(r, from, to)) = Meaning(r)
    <3>1. DOMAIN r = db["rules"].cols
      BY <1>1
    <3>2. {"id", "filter"} \subseteq DOMAIN r /\ {"conditions", "rules"} \cap DOMAIN r # {} /\ from \in DOMAIN r /\ to \notin DOMAIN r
      BY <1>1, <1>4, <3>1 DEF Basic
    <3>3. DOMAIN Renamed(r, from, to) = (DOMAIN r \ {from}) \cup {to} /\ Meaning(Renamed(r, from, to)) = Meaning(r)
      BY <3>2, RenamedMeaning
    <3>. QED  BY <3>1, <3>3
  <2>2. Meanings(db'["rules"].rows) = Meanings(db["rules"].rows)
    BY <1>2, <1>4, <2>1 DEF Meanings, RenamedIn
  <2>3. ASSUME NEW q \in db'["rules"].rows PROVE DOMAIN q = db'["rules"].cols
    <3>1. PICK r \in db["rules"].rows : q = Renamed(r, from, to)
      BY <1>2, <1>4 DEF RenamedIn
    <3>. QED  BY <1>2, <1>4, <2>1, <3>1
  <2>4. Basic(db'["rules"].cols)
    BY <1>1, <1>2, <1>4 DEF Basic, NewName
  <2>. QED  BY <1>2, <1>4, <2>2, <2>3, <2>4
<1>. QED  BY <1>3, <1>4

\* A rule whose conditions were compiled runs the query they compiled to.
LEMMA CompiledMeaning ==
  ASSUME NEW r, {"id", "filter", "type", "raw_kql", "conditions", "condition_groups"} \subseteq DOMAIN r,
         r["raw_kql"] = NoKql, r["id"] # "graph"
  PROVE  DOMAIN AsKql(r) = DOMAIN r /\ Meaning(AsKql(r)) = Meaning(r)
<1>. DEFINE q == AsKql(r)
<1>1. /\ DOMAIN q = DOMAIN r /\ q["id"] = r["id"] /\ q["type"] = r["type"]
      /\ q["raw_kql"] = {Compiled(r)}
  BY DEF AsKql
<1>. HIDE DEF q
<1>2. KindOf(q) = KindOf(r)
  BY <1>1 DEF KindOf
<1>3. RunsAs(q) = RunsAs(r)
  <2>1. KqlOf(q) = {Compiled(r)} /\ KqlOf(q) # NoKql
    BY <1>1 DEF KqlOf, NoKql
  <2>2. RunsAs(q) = {Compiled(r)}
    BY <2>1 DEF RunsAs
  <2>3. KqlOf(r) = NoKql
    BY DEF KqlOf
  <2>4. RunsAs(r) = {Compiled(r)}
    BY <2>3 DEF RunsAs, ConditionsOf, GroupsOf, Compiled
  <2>. QED  BY <2>2, <2>4
<1>4. Meaning(q) = Meaning(r)
  BY <1>1, <1>2, <1>3 DEF Meaning
<1>. QED  BY <1>1, <1>4 DEF q

LEMMA RulesCompiled ==
  ASSUME RulesKept, DbShape, UNCHANGED owned, Compile
  PROVE  RulesKept'
<1>. USE Ends
<1>0. at = 21 /\ (at' = at \/ at' = at + 1)
  <2>1. Step("compile") /\ (at' = at \/ at' = at + 1)
    BY DoesMoves DEF Compile
  <2>. QED  BY <2>1, SchemaSequence
<1>1. /\ {"id", "filter", "type", "raw_kql", "conditions", "condition_groups"} \subseteq db["rules"].cols
      /\ Basic(db["rules"].cols) /\ \A r \in db["rules"].rows : DOMAIN r = db["rules"].cols
  <2>1. There("rules") /\ Columns
    BY <1>0 DEF RulesKept
  <2>2. Basic(db["rules"].cols) /\ \A r \in db["rules"].rows : DOMAIN r = db["rules"].cols
    BY <2>1 DEF RulesKept
  <2>3. {"type", "raw_kql", "conditions", "condition_groups"} \subseteq db["rules"].cols
    BY <1>0, <2>1 DEF Columns
  <2>. QED  BY <2>2, <2>3 DEF Basic
<1>2. CASE db' = db
  <2>1. Onward({2, 3, 16, 17, 18, 19, 20, 21})
    BY <1>0 DEF Onward
  <2>. QED  BY <1>2, <2>1, RulesElsewhere
<1>3. CASE db' # db
  <2>1. PICK r \in LegacyConditionRows :
           db' = [db EXCEPT !["rules"] = Table(db["rules"].cols, (db["rules"].rows \ {r}) \cup {AsKql(r)})]
    BY <1>3 DEF Compile
  <2>. DEFINE rows == (db["rules"].rows \ {r}) \cup {AsKql(r)}
  <2>2. Only("rules") /\ db'["rules"].cols = db["rules"].cols /\ db'["rules"].rows = rows
    <3>1. "rules" \in Tables /\ db' = [db EXCEPT !["rules"] = Table(db["rules"].cols, rows)]
      BY <2>1 DEF Tables
    <3>. HIDE DEF rows
    <3>. QED  BY <3>1, ChangeTable
  <2>3. r \in db["rules"].rows /\ r["raw_kql"] = NoKql /\ r["id"] # "graph"
    BY DEF LegacyConditionRows
  <2>4. DOMAIN AsKql(r) = DOMAIN r /\ Meaning(AsKql(r)) = Meaning(r)
    BY <1>1, <2>3, CompiledMeaning
  <2>5. Meanings(rows) = Meanings(db["rules"].rows)
    BY <2>3, <2>4 DEF Meanings
  <2>6. \A x \in rows : DOMAIN x = db["rules"].cols
    BY <1>1, <2>3, <2>4
  <2>7. Columns'
    <3>1. Columns /\ Back' = Back
      BY DEF RulesKept, Back, Serving
    <3>. QED  BY <1>0, <2>2, <3>1 DEF Columns
  <2>. HIDE DEF rows
  <2>8. Basic(db'["rules"].cols) /\ Meanings(db'["rules"].rows) = Meanings(db["rules"].rows)
        /\ \A x \in db'["rules"].rows : DOMAIN x = db'["rules"].cols
    BY <1>1, <2>2, <2>5, <2>6
  <2>9. at \in 15..21 /\ at' \in {at, at + 1}
    BY <1>0
  <2>. QED  BY <2>2, <2>7, <2>8, <2>9, RulesRewritten
<1>. QED  BY <1>2, <1>3

LEMMA RulesStepped ==
  ASSUME RulesKept, DbShape, UNCHANGED owned, RulesStep
  PROVE  RulesKept'
<1>. USE Ends, SchemaSequence
<1>0. Columns
  BY DEF RulesKept
<1>1. CASE AddRawKql
  <2>1. at = 15 /\ at' = 16 /\ AddColumn("rules", "raw_kql", NoKql)
    BY <1>1, DoesMoves DEF AddRawKql
  <2>2. /\ Only("rules") /\ db'["rules"].cols = db["rules"].cols \cup {"raw_kql"}
        /\ Basic(db'["rules"].cols) /\ \A r \in db'["rules"].rows : DOMAIN r = db'["rules"].cols
        /\ Meanings(db'["rules"].rows) = Meanings(db["rules"].rows)
    BY <2>1, RuleColumnAdded
  <2>3. Columns'
    BY <1>0, <2>1, <2>2 DEF Columns
  <2>. QED  BY <2>1, <2>2, <2>3, RulesRewritten
<1>2. CASE RenameType
  <2>1. at = 16 /\ at' = 17 /\ RenameColumn("rules", "source", "type")
    BY <1>2, DoesMoves DEF RenameType
  <2>2. /\ Only("rules")
        /\ db'["rules"].cols = IF "source" \in db["rules"].cols /\ "type" \notin db["rules"].cols
                              THEN (db["rules"].cols \ {"source"}) \cup {"type"} ELSE db["rules"].cols
        /\ Basic(db'["rules"].cols) /\ \A r \in db'["rules"].rows : DOMAIN r = db'["rules"].cols
        /\ Meanings(db'["rules"].rows) = Meanings(db["rules"].rows)
    BY <2>1, RuleColumnRenamed DEF NewName
  <2>3. Columns'
    BY <1>0, <2>1, <2>2 DEF Columns
  <2>. QED  BY <2>1, <2>2, <2>3, RulesRewritten
<1>3. CASE AddType
  <2>1. at = 17 /\ at' = 18 /\ AddColumn("rules", "type", "custom")
        /\ ("type" \notin db["rules"].cols => "source" \notin db["rules"].cols)
    BY <1>0, <1>3, DoesMoves DEF AddType, Columns
  <2>2. /\ Only("rules") /\ db'["rules"].cols = db["rules"].cols \cup {"type"}
        /\ Basic(db'["rules"].cols) /\ \A r \in db'["rules"].rows : DOMAIN r = db'["rules"].cols
        /\ Meanings(db'["rules"].rows) = Meanings(db["rules"].rows)
    BY <2>1, RuleColumnAdded
  <2>3. Columns'
    BY <1>0, <2>1, <2>2 DEF Columns
  <2>. QED  BY <2>1, <2>2, <2>3, RulesRewritten
<1>4. CASE RenameGroups
  <2>1. at = 18 /\ at' = 19 /\ RenameColumn("rules", "rule_groups", "condition_groups")
    BY <1>4, DoesMoves DEF RenameGroups
  <2>2. /\ Only("rules")
        /\ db'["rules"].cols = IF "rule_groups" \in db["rules"].cols /\ "condition_groups" \notin db["rules"].cols
                              THEN (db["rules"].cols \ {"rule_groups"}) \cup {"condition_groups"} ELSE db["rules"].cols
        /\ Basic(db'["rules"].cols) /\ \A r \in db'["rules"].rows : DOMAIN r = db'["rules"].cols
        /\ Meanings(db'["rules"].rows) = Meanings(db["rules"].rows)
    <3>1. PICK from, to : from = "rule_groups" /\ to = "condition_groups"
      OBVIOUS
    <3>2. NewName(from, to) /\ at \in 15..20 /\ at' = at + 1 /\ RenameColumn("rules", from, to)
      BY <2>1, <3>1 DEF NewName
    <3>3. /\ Only("rules")
          /\ db'["rules"].cols = IF from \in db["rules"].cols /\ to \notin db["rules"].cols
                                THEN (db["rules"].cols \ {from}) \cup {to} ELSE db["rules"].cols
          /\ Basic(db'["rules"].cols) /\ \A r \in db'["rules"].rows : DOMAIN r = db'["rules"].cols
          /\ Meanings(db'["rules"].rows) = Meanings(db["rules"].rows)
      BY <3>2, RuleColumnRenamed
    <3>. QED  BY <3>1, <3>3
  <2>3. Columns'
    BY <1>0, <2>1, <2>2 DEF Columns
  <2>. QED  BY <2>1, <2>2, <2>3, RulesRewritten
<1>5. CASE AddGroups
  <2>1. at = 19 /\ at' = 20 /\ AddColumn("rules", "condition_groups", Blank)
        /\ ("condition_groups" \notin db["rules"].cols => "rule_groups" \notin db["rules"].cols)
    BY <1>0, <1>5, DoesMoves DEF AddGroups, Columns
  <2>2. /\ Only("rules") /\ db'["rules"].cols = db["rules"].cols \cup {"condition_groups"}
        /\ Basic(db'["rules"].cols) /\ \A r \in db'["rules"].rows : DOMAIN r = db'["rules"].cols
        /\ Meanings(db'["rules"].rows) = Meanings(db["rules"].rows)
    BY <2>1, RuleColumnAdded
  <2>3. Columns'
    BY <1>0, <2>1, <2>2 DEF Columns
  <2>. QED  BY <2>1, <2>2, <2>3, RulesRewritten
<1>6. CASE RenameConditions
  <2>1. at = 20 /\ at' = 21 /\ RenameColumn("rules", "rules", "conditions")
    BY <1>6, DoesMoves DEF RenameConditions
  <2>2. /\ Only("rules")
        /\ db'["rules"].cols = IF "rules" \in db["rules"].cols /\ "conditions" \notin db["rules"].cols
                              THEN (db["rules"].cols \ {"rules"}) \cup {"conditions"} ELSE db["rules"].cols
        /\ Basic(db'["rules"].cols) /\ \A r \in db'["rules"].rows : DOMAIN r = db'["rules"].cols
        /\ Meanings(db'["rules"].rows) = Meanings(db["rules"].rows)
    <3>1. PICK from, to : from = "rules" /\ to = "conditions"
      OBVIOUS
    <3>2. NewName(from, to) /\ at \in 15..20 /\ at' = at + 1 /\ RenameColumn("rules", from, to)
      BY <2>1, <3>1 DEF NewName
    <3>3. /\ Only("rules")
          /\ db'["rules"].cols = IF from \in db["rules"].cols /\ to \notin db["rules"].cols
                                THEN (db["rules"].cols \ {from}) \cup {to} ELSE db["rules"].cols
          /\ Basic(db'["rules"].cols) /\ \A r \in db'["rules"].rows : DOMAIN r = db'["rules"].cols
          /\ Meanings(db'["rules"].rows) = Meanings(db["rules"].rows)
      BY <3>2, RuleColumnRenamed
    <3>. QED  BY <3>1, <3>3
  <2>3. "conditions" \in db'["rules"].cols
    BY <2>2 DEF Basic
  <2>4. Columns'
    BY <1>0, <2>1, <2>2, <2>3 DEF Columns
  <2>. QED  BY <2>1, <2>2, <2>4, RulesRewritten
<1>. QED  BY <1>1, <1>2, <1>3, <1>4, <1>5, <1>6, PoliciesRenamed, RulesCompiled DEF RulesStep
-----------------------------------------------------------------------------
(* Everything the file held *)

KeptInv ==
    /\ DbShape /\ at \in 0..Back
    /\ RulesKept /\ DaysKept /\ FindingsKept /\ SuppressionsKept /\ SchedulesKept

\* What a schema step does not reach stays as it was: each family has its own steps.
LEMMA KeptByRules ==
  ASSUME KeptInv, UNCHANGED owned, RulesStep
  PROVE  KeptInv'
<1>. USE Ends
<1>1. /\ DbShape /\ at \in 0..Back
      /\ RulesKept /\ DaysKept /\ FindingsKept /\ SuppressionsKept /\ SchedulesKept
  BY DEF KeptInv
<1>2. Reaches({"policies", "rules"}) /\ (at = 1 \/ at \in 15..21) /\ at' \in at..(at + 1)
  BY <1>1, RulesReach
<1>3. RulesKept'
  BY <1>1, RulesStepped
<1>4. DaysKept'
  <2>1. db'[OldTrend] = db[OldTrend] /\ db'[StagedTrend] = db[StagedTrend] /\ db'[Trend] = db[Trend]
    BY <1>2 DEF Reaches, Tables, OldTrend, StagedTrend, Trend
  <2>2. Onward({3, 4, 8, 9})
    BY <1>2 DEF Onward
  <2>. QED  BY <1>1, <2>1, <2>2, DaysElsewhere
<1>5. FindingsKept'
  <2>1. db'["findings"] = db["findings"] /\ db'["findings_new"] = db["findings_new"]
    BY <1>2 DEF Reaches, Tables
  <2>2. Onward({3, 10})
    BY <1>2 DEF Onward
  <2>. QED  BY <1>1, <2>1, <2>2, FindingsElsewhere
<1>6. SuppressionsKept'
  <2>1. db'["suppressions"] = db["suppressions"] /\ db'["suppressions_new"] = db["suppressions_new"]
    BY <1>2 DEF Reaches, Tables
  <2>2. Onward({3, 13})
    BY <1>2 DEF Onward
  <2>. QED  BY <1>1, <2>1, <2>2, SuppressionsElsewhere
<1>7. SchedulesKept'
  <2>1. db'[Sched] = db[Sched]
    BY <1>2 DEF Reaches, Tables, Sched
  <2>2. Onward({3, 23, 24, 25})
    BY <1>2 DEF Onward
  <2>. QED  BY <1>1, <2>1, <2>2, SchedulesElsewhere
<1>8. DbShape' /\ at' \in 0..Back
  BY <1>1, <1>2 DEF Reaches
<1>. QED  BY <1>3, <1>4, <1>5, <1>6, <1>7, <1>8 DEF KeptInv

LEMMA KeptByDays ==
  ASSUME KeptInv, UNCHANGED owned, DaysStep
  PROVE  KeptInv'
<1>. USE Ends
<1>1. /\ DbShape /\ at \in 0..Back
      /\ RulesKept /\ DaysKept /\ FindingsKept /\ SuppressionsKept /\ SchedulesKept
  BY DEF KeptInv
<1>2. Reaches({"compliance_snapshots", "compliance_snapshots_new", "posture_snapshots"}) /\ at \in 3..8 /\ at' \in at..(at + 1)
  BY <1>1, DaysReach
<1>3. RulesKept'
  <2>1. db'["policies"] = db["policies"] /\ db'["rules"] = db["rules"]
    BY <1>2 DEF Reaches, Tables
  <2>2. Onward({2, 3, 16, 17, 18, 19, 20, 21})
    BY <1>2 DEF Onward
  <2>. QED  BY <1>1, <2>1, <2>2, RulesElsewhere
<1>4. DaysKept'
  BY <1>1, DaysRebuilt, DaysRenamed DEF DaysStep
<1>5. FindingsKept'
  <2>1. db'["findings"] = db["findings"] /\ db'["findings_new"] = db["findings_new"]
    BY <1>2 DEF Reaches, Tables
  <2>2. Onward({3, 10})
    BY <1>2 DEF Onward
  <2>. QED  BY <1>1, <2>1, <2>2, FindingsElsewhere
<1>6. SuppressionsKept'
  <2>1. db'["suppressions"] = db["suppressions"] /\ db'["suppressions_new"] = db["suppressions_new"]
    BY <1>2 DEF Reaches, Tables
  <2>2. Onward({3, 13})
    BY <1>2 DEF Onward
  <2>. QED  BY <1>1, <2>1, <2>2, SuppressionsElsewhere
<1>7. SchedulesKept'
  <2>1. db'[Sched] = db[Sched]
    BY <1>2 DEF Reaches, Tables, Sched
  <2>2. Onward({3, 23, 24, 25})
    BY <1>2 DEF Onward
  <2>. QED  BY <1>1, <2>1, <2>2, SchedulesElsewhere
<1>8. DbShape' /\ at' \in 0..Back
  BY <1>1, <1>2 DEF Reaches
<1>. QED  BY <1>3, <1>4, <1>5, <1>6, <1>7, <1>8 DEF KeptInv

LEMMA KeptByFindings ==
  ASSUME KeptInv, UNCHANGED owned, FindingsStep
  PROVE  KeptInv'
<1>. USE Ends
<1>1. /\ DbShape /\ at \in 0..Back
      /\ RulesKept /\ DaysKept /\ FindingsKept /\ SuppressionsKept /\ SchedulesKept
  BY DEF KeptInv
<1>2. Reaches({"findings", "findings_new"}) /\ at \in 9..11 /\ at' \in at..(at + 1)
  BY <1>1, FindingsReach
<1>3. RulesKept'
  <2>1. db'["policies"] = db["policies"] /\ db'["rules"] = db["rules"]
    BY <1>2 DEF Reaches, Tables
  <2>2. Onward({2, 3, 16, 17, 18, 19, 20, 21})
    BY <1>2 DEF Onward
  <2>. QED  BY <1>1, <2>1, <2>2, RulesElsewhere
<1>4. DaysKept'
  <2>1. db'[OldTrend] = db[OldTrend] /\ db'[StagedTrend] = db[StagedTrend] /\ db'[Trend] = db[Trend]
    BY <1>2 DEF Reaches, Tables, OldTrend, StagedTrend, Trend
  <2>2. Onward({3, 4, 8, 9})
    BY <1>2 DEF Onward
  <2>. QED  BY <1>1, <2>1, <2>2, DaysElsewhere
<1>5. FindingsKept'
  BY <1>1, FindingsStepped
<1>6. SuppressionsKept'
  <2>1. db'["suppressions"] = db["suppressions"] /\ db'["suppressions_new"] = db["suppressions_new"]
    BY <1>2 DEF Reaches, Tables
  <2>2. Onward({3, 13})
    BY <1>2 DEF Onward
  <2>. QED  BY <1>1, <2>1, <2>2, SuppressionsElsewhere
<1>7. SchedulesKept'
  <2>1. db'[Sched] = db[Sched]
    BY <1>2 DEF Reaches, Tables, Sched
  <2>2. Onward({3, 23, 24, 25})
    BY <1>2 DEF Onward
  <2>. QED  BY <1>1, <2>1, <2>2, SchedulesElsewhere
<1>8. DbShape' /\ at' \in 0..Back
  BY <1>1, <1>2 DEF Reaches
<1>. QED  BY <1>3, <1>4, <1>5, <1>6, <1>7, <1>8 DEF KeptInv

LEMMA KeptBySuppressions ==
  ASSUME KeptInv, UNCHANGED owned, SuppressionsStep
  PROVE  KeptInv'
<1>. USE Ends
<1>1. /\ DbShape /\ at \in 0..Back
      /\ RulesKept /\ DaysKept /\ FindingsKept /\ SuppressionsKept /\ SchedulesKept
  BY DEF KeptInv
<1>2. Reaches({"suppressions", "suppressions_new"}) /\ at \in 12..14 /\ at' \in at..(at + 1)
  BY <1>1, SuppressionsReach
<1>3. RulesKept'
  <2>1. db'["policies"] = db["policies"] /\ db'["rules"] = db["rules"]
    BY <1>2 DEF Reaches, Tables
  <2>2. Onward({2, 3, 16, 17, 18, 19, 20, 21})
    BY <1>2 DEF Onward
  <2>. QED  BY <1>1, <2>1, <2>2, RulesElsewhere
<1>4. DaysKept'
  <2>1. db'[OldTrend] = db[OldTrend] /\ db'[StagedTrend] = db[StagedTrend] /\ db'[Trend] = db[Trend]
    BY <1>2 DEF Reaches, Tables, OldTrend, StagedTrend, Trend
  <2>2. Onward({3, 4, 8, 9})
    BY <1>2 DEF Onward
  <2>. QED  BY <1>1, <2>1, <2>2, DaysElsewhere
<1>5. FindingsKept'
  <2>1. db'["findings"] = db["findings"] /\ db'["findings_new"] = db["findings_new"]
    BY <1>2 DEF Reaches, Tables
  <2>2. Onward({3, 10})
    BY <1>2 DEF Onward
  <2>. QED  BY <1>1, <2>1, <2>2, FindingsElsewhere
<1>6. SuppressionsKept'
  BY <1>1, SuppressionsStepped
<1>7. SchedulesKept'
  <2>1. db'[Sched] = db[Sched]
    BY <1>2 DEF Reaches, Tables, Sched
  <2>2. Onward({3, 23, 24, 25})
    BY <1>2 DEF Onward
  <2>. QED  BY <1>1, <2>1, <2>2, SchedulesElsewhere
<1>8. DbShape' /\ at' \in 0..Back
  BY <1>1, <1>2 DEF Reaches
<1>. QED  BY <1>3, <1>4, <1>5, <1>6, <1>7, <1>8 DEF KeptInv

LEMMA KeptBySchedules ==
  ASSUME KeptInv, UNCHANGED owned, SchedulesStep
  PROVE  KeptInv'
<1>. USE Ends
<1>1. /\ DbShape /\ at \in 0..Back
      /\ RulesKept /\ DaysKept /\ FindingsKept /\ SuppressionsKept /\ SchedulesKept
  BY DEF KeptInv
<1>2. Reaches({"schedules"}) /\ at \in 22..26 /\ at' \in at..(at + 1)
  BY <1>1, SchedulesReach
<1>3. RulesKept'
  <2>1. db'["policies"] = db["policies"] /\ db'["rules"] = db["rules"]
    BY <1>2 DEF Reaches, Tables
  <2>2. Onward({2, 3, 16, 17, 18, 19, 20, 21})
    BY <1>2 DEF Onward
  <2>. QED  BY <1>1, <2>1, <2>2, RulesElsewhere
<1>4. DaysKept'
  <2>1. db'[OldTrend] = db[OldTrend] /\ db'[StagedTrend] = db[StagedTrend] /\ db'[Trend] = db[Trend]
    BY <1>2 DEF Reaches, Tables, OldTrend, StagedTrend, Trend
  <2>2. Onward({3, 4, 8, 9})
    BY <1>2 DEF Onward
  <2>. QED  BY <1>1, <2>1, <2>2, DaysElsewhere
<1>5. FindingsKept'
  <2>1. db'["findings"] = db["findings"] /\ db'["findings_new"] = db["findings_new"]
    BY <1>2 DEF Reaches, Tables
  <2>2. Onward({3, 10})
    BY <1>2 DEF Onward
  <2>. QED  BY <1>1, <2>1, <2>2, FindingsElsewhere
<1>6. SuppressionsKept'
  <2>1. db'["suppressions"] = db["suppressions"] /\ db'["suppressions_new"] = db["suppressions_new"]
    BY <1>2 DEF Reaches, Tables
  <2>2. Onward({3, 13})
    BY <1>2 DEF Onward
  <2>. QED  BY <1>1, <2>1, <2>2, SuppressionsElsewhere
<1>7. SchedulesKept'
  BY <1>1, SchedulesStepped
<1>8. DbShape' /\ at' \in 0..Back
  BY <1>1, <1>2 DEF Reaches
<1>. QED  BY <1>3, <1>4, <1>5, <1>6, <1>7, <1>8 DEF KeptInv

LEMMA KeptByCreate ==
  ASSUME KeptInv, UNCHANGED owned, CreateTables
  PROVE  KeptInv'
<1>1. DbShape' /\ at' = 3
  BY CreatingTables DEF KeptInv
<1>. QED  BY <1>1, Ends, RulesCreated, DaysCreated, FindingsCreated, SuppressionsCreated, SchedulesCreated DEF KeptInv

\* No other step writes these tables, and the schema's steps are behind it or begin again.
LEMMA KeptElsewhere ==
  ASSUME KeptInv, UNCHANGED <<db, owned>>, at' \in {0, 1, at} \/ (at \in 27..Back /\ at' \in 0..Back)
  PROVE  KeptInv'
<1>. USE Ends
<1>1. /\ DbShape /\ at \in 0..Back
      /\ RulesKept /\ DaysKept /\ FindingsKept /\ SuppressionsKept /\ SchedulesKept
  BY DEF KeptInv
<1>2. \A n \in 2..26 : at' \in n..Back => at \in n..Back
  BY <1>1
<1>3. /\ Onward({2, 3, 16, 17, 18, 19, 20, 21}) /\ Onward({3, 4, 8, 9}) /\ Onward({3, 10})
      /\ Onward({3, 13}) /\ Onward({3, 23, 24, 25})
  BY <1>2 DEF Onward
<1>4. RulesKept' /\ DaysKept'
  BY <1>1, <1>3, RulesElsewhere, DaysElsewhere
<1>5. FindingsKept' /\ SuppressionsKept' /\ SchedulesKept'
  BY <1>1, <1>3, FindingsElsewhere, SuppressionsElsewhere, SchedulesElsewhere
<1>6. DbShape' /\ at' \in 0..Back
  BY <1>1 DEF DbShape
<1>. QED  BY <1>4, <1>5, <1>6 DEF KeptInv

LEMMA FindingMoves ==
  ASSUME FindingStep
  PROVE  at \in 27..40 /\ at' \in at..(at + 1)
<1>. DEFINE Moves(s) == (FStep(s) /\ at' = at) \/ FDoes(s)
<1>1. \A s : Moves(s) => at \in 27..40 /\ at' \in at..(at + 1)
  BY FindingAt DEF FDoes, SchemaSteps
<1>2. (DropStandIn \/ RenameRule \/ RemapFindings \/ RemapSuppressions \/ RemapRecords \/ RenameReferences)
      => \E s : Moves(s)
  BY DEF DropStandIn, RenameRule, RemapFindings, RemapSuppressions, RemapRecords, RenameReferences
<1>3. (RekeyFingerprintCase \/ CopyFindingRows \/ ConvertScanBlobs \/ EmptyScanBlobs) => \E s : Moves(s)
  BY DEF RekeyFingerprintCase, CopyFindingRows, ConvertScanBlobs, EmptyScanBlobs, OwnTransaction
<1>4. (SeedRule \/ BackfillCategory \/ BackfillFindings \/ BackfillSnapshots) => \E s : Moves(s)
  BY DEF SeedRule, BackfillCategory, BackfillFindings, BackfillSnapshots, OwnTransaction
<1>. QED  BY <1>1, <1>2, <1>3, <1>4 DEF FindingStep

LEMMA KeptNext ==
  ASSUME KeptInv, [UpgradeNext]_upgradeVars
  PROVE  KeptInv'
<1>. USE Ends
<1>1. CASE UNCHANGED upgradeVars
  BY <1>1, KeptElsewhere DEF upgradeVars
<1>2. CASE Boot \/ Crash \/ Restart \/ CrashInRemap
  BY <1>2, KeptElsewhere DEF Boot, Crash, Restart, CrashInRemap
<1>3. CASE Serve
  <2>1. at \in {Serving, Back} /\ at' \in {Serving, Back} /\ UNCHANGED <<db, owned>>
    BY <1>3 DEF Serve, ScanFinds, ScanFindsNothing, GoBack, PreviousScan, PreviousDeletes
  <2>. QED  BY <2>1, KeptElsewhere
<1>4. CASE SchemaStep /\ UNCHANGED owned
  BY <1>4, SchemaParts, KeptByRules, KeptByDays, KeptByFindings, KeptBySuppressions, KeptBySchedules, KeptByCreate
<1>5. CASE FindingStep /\ UNCHANGED <<db, owned>>
  BY <1>5, FindingMoves, KeptElsewhere
<1>. QED  BY <1>1, <1>2, <1>3, <1>4, <1>5 DEF UpgradeNext, Upgrade
-----------------------------------------------------------------------------
(* The shapes an older release left *)

LEMMA VintageParts ==
  ASSUME NEW v \in Vintages
  PROVE  /\ v.rules \in RuleShapes /\ v.snapshots \in SnapshotShapes
         /\ v.findings \in NullableShapes("f", {"kind"}) /\ v.suppressions \in NullableShapes("s", {})
         /\ v.schedules \in {NoTable, CronSchedules}
<1>. DEFINE Parts(w) == /\ w.rules \in RuleShapes /\ w.snapshots \in SnapshotShapes
                        /\ w.findings \in NullableShapes("f", {"kind"}) /\ w.suppressions \in NullableShapes("s", {})
                        /\ w.schedules \in {NoTable, CronSchedules}
            Names == {"rules", "snapshots", "findings", "suppressions", "schedules"}
<1>1. PICK u \in {Oldest, Latest} :
        \/ \E x \in RuleShapes : v = [u EXCEPT !.rules = x]
        \/ \E x \in SnapshotShapes : v = [u EXCEPT !.snapshots = x]
        \/ \E x \in NullableShapes("f", {"kind"}) : v = [u EXCEPT !.findings = x]
        \/ \E x \in NullableShapes("s", {}) : v = [u EXCEPT !.suppressions = x]
        \/ \E x \in {NoTable, CronSchedules} : v = [u EXCEPT !.schedules = x]
  BY DEF Vintages
<1>2. DOMAIN u = Names
  BY DEF Oldest, Latest
<1>3. Parts(u)
  <2>1. Oldest.rules \in RuleShapes /\ Latest.rules \in RuleShapes
    BY DEF Oldest, Latest, RuleShapes
  <2>2. Oldest.snapshots \in SnapshotShapes /\ Latest.snapshots \in SnapshotShapes
    BY DEF Oldest, Latest, SnapshotShapes
  <2>3. Oldest.findings \in NullableShapes("f", {"kind"}) /\ Latest.findings \in NullableShapes("f", {"kind"})
    BY DEF Oldest, Latest, NullableShapes
  <2>4. Oldest.suppressions \in NullableShapes("s", {}) /\ Latest.suppressions \in NullableShapes("s", {})
    BY DEF Oldest, Latest, NullableShapes
  <2>5. Oldest.schedules \in {NoTable, CronSchedules} /\ Latest.schedules \in {NoTable, CronSchedules}
    BY DEF Oldest, Latest
  <2>. QED  BY <2>1, <2>2, <2>3, <2>4, <2>5
<1>. QED  BY <1>1, <1>2, <1>3

LEMMA FileTables ==
  ASSUME NEW v \in Vintages, db = FileOf(v)
  PROVE  /\ db = [t \in Tables |-> db[t]]
         /\ v.rules[1] \in {"policies", "rules"}
         /\ \A t \in {"policies", "rules"} : db[t] = IF t = v.rules[1] THEN As(v.rules[2], v.rules[3]) ELSE NoTable
         /\ db["schedules"] = v.schedules
         /\ db[OldTrend] = v.snapshots[1] /\ db[StagedTrend] = v.snapshots[2] /\ db[Trend] = v.snapshots[3]
         /\ db["findings"] = v.findings[1] /\ db["findings_new"] = v.findings[2]
         /\ db["suppressions"] = v.suppressions[1] /\ db["suppressions_new"] = v.suppressions[2]
<1>1. v.rules[1] \in {"policies", "rules"}
  BY VintageParts DEF RuleShapes
<1>2. db = [t \in Tables |-> db[t]]
  BY DEF FileOf
<1>3. \A t \in {"policies", "rules"} : db[t] = IF t = v.rules[1] THEN As(v.rules[2], v.rules[3]) ELSE NoTable
  BY <1>1 DEF FileOf, Tables
<1>4. db["schedules"] = v.schedules
  BY <1>1 DEF FileOf, Tables
<1>5. db[OldTrend] = v.snapshots[1] /\ db[StagedTrend] = v.snapshots[2] /\ db[Trend] = v.snapshots[3]
  BY <1>1 DEF FileOf, Tables, OldTrend, StagedTrend, Trend
<1>6. db["findings"] = v.findings[1] /\ db["findings_new"] = v.findings[2]
  BY <1>1 DEF FileOf, Tables
<1>7. db["suppressions"] = v.suppressions[1] /\ db["suppressions_new"] = v.suppressions[2]
  BY <1>1 DEF FileOf, Tables
<1>. QED  BY <1>1, <1>2, <1>3, <1>4, <1>5, <1>6, <1>7

WithIds(table) == \A r \in table.rows : "id" \in DOMAIN r

LEMMA KeptTable ==
  \A t, cols : /\ Kept(t, cols).cols = {"id"} \cup cols /\ WithIds(Kept(t, cols))
               /\ Ids(Kept(t, cols).rows) = {t} /\ Kept(t, cols) = Table(Kept(t, cols).cols, Kept(t, cols).rows)
<1>. TAKE t, cols
<1>. DEFINE r == [c \in {"id"} \cup cols |-> IF c = "id" THEN t ELSE "state"]
<1>1. r["id"] = t /\ "id" \in DOMAIN r
  OBVIOUS
<1>2. Kept(t, cols) = Table({"id"} \cup cols, {r})
  BY DEF Kept
<1>. HIDE DEF r
<1>3. Kept(t, cols).cols = {"id"} \cup cols /\ Kept(t, cols).rows = {r}
  BY <1>2, TableFields
<1>. QED  BY <1>1, <1>2, <1>3 DEF WithIds, Ids

LEMMA NullablePair ==
  ASSUME NEW t, NEW kind, NEW p \in NullableShapes(t, kind), NEW live, NEW staged,
         db[live] = p[1], db[staged] = p[2], NEW new, at = 0, NEW reclaim \in Nat
  PROVE  Rebuildable(live, staged, new, {t}, reclaim)
         /\ db[live] = Table(db[live].cols, db[live].rows) /\ db[staged] = Table(db[staged].cols, db[staged].rows)
<1>1. PICK one, two : one = Kept(t, {NotNull}) /\ two = Kept(t, kind)
  OBVIOUS
<1>2. \A k \in {one, two} : "id" \in k.cols /\ WithIds(k) /\ Ids(k.rows) = {t} /\ k = Table(k.cols, k.rows)
  <2>1. "id" \in one.cols /\ WithIds(one) /\ Ids(one.rows) = {t} /\ one = Table(one.cols, one.rows)
    BY <1>1, KeptTable, Zenon
  <2>2. "id" \in two.cols /\ WithIds(two) /\ Ids(two.rows) = {t} /\ two = Table(two.cols, two.rows)
    BY <1>1, KeptTable, Zenon
  <2>. QED  BY <2>1, <2>2
<1>3. p \in {<<one, NoTable>>, <<two, NoTable>>, <<one, two>>, <<NoTable, two>>}
  BY <1>1 DEF NullableShapes
<1>4. NoTable.cols = {} /\ NoTable.rows = {} /\ NoTable = Table({}, {})
  BY TableFields
<1>5. \/ db[live] \in {one, two} /\ db[staged] \in {NoTable, two}
      \/ db[live] = NoTable /\ db[staged] = two
  <2>1. CASE p = <<one, NoTable>>
    BY <2>1
  <2>2. CASE p = <<two, NoTable>>
    BY <2>2
  <2>3. CASE p = <<one, two>>
    BY <2>3
  <2>4. CASE p = <<NoTable, two>>
    BY <2>4
  <2>. QED  BY <1>3, <2>1, <2>2, <2>3, <2>4
<1>6. at \notin (reclaim + 1)..Back
  OBVIOUS
<1>. QED  BY <1>2, <1>4, <1>5, <1>6 DEF Rebuildable, HasIds, There, WithIds

LEMMA NoneIn == Ids({}) = {}
BY DEF Ids

LEMMA NullableInit ==
  ASSUME NEW v \in Vintages, db = FileOf(v), at = 0, owned.findings = {"f"}, owned.suppressions = {"s"}
  PROVE  FindingsKept /\ SuppressionsKept
         /\ \A t \in {"findings", "findings_new", "suppressions", "suppressions_new"} : db[t] = Table(db[t].cols, db[t].rows)
<1>1. v.findings \in NullableShapes("f", {"kind"}) /\ v.suppressions \in NullableShapes("s", {})
  BY VintageParts
<1>2. /\ db["findings"] = v.findings[1] /\ db["findings_new"] = v.findings[2]
      /\ db["suppressions"] = v.suppressions[1] /\ db["suppressions_new"] = v.suppressions[2]
  BY FileTables
<1>3. PICK k, t, p, n, l, m : k = {"kind"} /\ t = "f" /\ p = v.findings /\ n = 9 /\ l = "findings" /\ m = "findings_new"
  OBVIOUS
<1>4. /\ Rebuildable(l, m, k, {t}, n)
      /\ db[l] = Table(db[l].cols, db[l].rows) /\ db[m] = Table(db[m].cols, db[m].rows)
  <2>1. p \in NullableShapes(t, k) /\ db[l] = p[1] /\ db[m] = p[2] /\ n \in Nat
    BY <1>1, <1>2, <1>3
  <2>. QED  BY <2>1, NullablePair
<1>5. PICK k2, t2, p2, n2, l2, m2 :
        k2 = {} /\ t2 = "s" /\ p2 = v.suppressions /\ n2 = 12 /\ l2 = "suppressions" /\ m2 = "suppressions_new"
  OBVIOUS
<1>6. /\ Rebuildable(l2, m2, k2, {t2}, n2)
      /\ db[l2] = Table(db[l2].cols, db[l2].rows) /\ db[m2] = Table(db[m2].cols, db[m2].rows)
  <2>1. p2 \in NullableShapes(t2, k2) /\ db[l2] = p2[1] /\ db[m2] = p2[2] /\ n2 \in Nat
    BY <1>1, <1>2, <1>5
  <2>. QED  BY <2>1, NullablePair
<1>7. at \notin 3..Back
  OBVIOUS
<1>8. Rebuildable("findings", "findings_new", {"kind"}, owned.findings, 9)
  BY <1>3, <1>4
<1>9. Rebuildable("suppressions", "suppressions_new", {}, owned.suppressions, 12)
  BY <1>5, <1>6
<1>. QED  BY <1>3, <1>4, <1>5, <1>6, <1>7, <1>8, <1>9 DEF FindingsKept, SuppressionsKept
LEMMA TrendTables ==
    /\ PerDay.cols = {"id", "compliance_pct"} /\ WithIds(PerDay) /\ Ids(PerDay.rows) = Days
    /\ PerSubscription.cols = {"id", "compliance_pct", "subscription_id"}
    /\ WithIds(PerSubscription) /\ Ids(PerSubscription.rows) = Days
    /\ Posture.cols = {"id", "posture_pct", "subscription_id"} /\ WithIds(Posture) /\ Ids(Posture.rows) = Days
    /\ \A k \in {PerDay, PerSubscription, Posture} : k = Table(k.cols, k.rows)
<1>1. PerDay.cols = {"id", "compliance_pct"} /\ PerDay.rows = {[id |-> d, compliance_pct |-> "pct"] : d \in Days}
      /\ PerDay = Table(PerDay.cols, PerDay.rows)
  BY DEF PerDay, Table
<1>2. /\ PerSubscription.cols = {"id", "compliance_pct", "subscription_id"}
      /\ PerSubscription.rows = {[id |-> d, compliance_pct |-> "pct", subscription_id |-> Blank] : d \in Days}
      /\ PerSubscription = Table(PerSubscription.cols, PerSubscription.rows)
  BY DEF PerSubscription, Table
<1>3. /\ Posture.cols = {"id", "posture_pct", "subscription_id"}
      /\ Posture.rows = {[id |-> d, posture_pct |-> "pct", subscription_id |-> Blank] : d \in Days}
      /\ Posture = Table(Posture.cols, Posture.rows)
  BY DEF Posture, Table
<1>. HIDE DEF PerDay, PerSubscription, Posture
<1>4. WithIds(PerDay) /\ Ids(PerDay.rows) = Days
  <2>1. \A r \in PerDay.rows : "id" \in DOMAIN r /\ r["id"] \in Days
    BY <1>1
  <2>2. ASSUME NEW d \in Days PROVE \E r \in PerDay.rows : r["id"] = d
    <3>1. [id |-> d, compliance_pct |-> "pct"] \in PerDay.rows
      BY <1>1
    <3>2. [id |-> d, compliance_pct |-> "pct"]["id"] = d
      OBVIOUS
    <3>. QED  BY <3>1, <3>2
  <2>. QED  BY <2>1, <2>2 DEF WithIds, Ids
<1>5. WithIds(PerSubscription) /\ Ids(PerSubscription.rows) = Days
  <2>1. \A r \in PerSubscription.rows : "id" \in DOMAIN r /\ r["id"] \in Days
    BY <1>2
  <2>2. ASSUME NEW d \in Days PROVE \E r \in PerSubscription.rows : r["id"] = d
    <3>1. [id |-> d, compliance_pct |-> "pct", subscription_id |-> Blank] \in PerSubscription.rows
      BY <1>2
    <3>2. [id |-> d, compliance_pct |-> "pct", subscription_id |-> Blank]["id"] = d
      OBVIOUS
    <3>. QED  BY <3>1, <3>2
  <2>. QED  BY <2>1, <2>2 DEF WithIds, Ids
<1>6. WithIds(Posture) /\ Ids(Posture.rows) = Days
  <2>1. \A r \in Posture.rows : "id" \in DOMAIN r /\ r["id"] \in Days
    BY <1>3
  <2>2. ASSUME NEW d \in Days PROVE \E r \in Posture.rows : r["id"] = d
    <3>1. [id |-> d, posture_pct |-> "pct", subscription_id |-> Blank] \in Posture.rows
      BY <1>3
    <3>2. [id |-> d, posture_pct |-> "pct", subscription_id |-> Blank]["id"] = d
      OBVIOUS
    <3>. QED  BY <3>1, <3>2
  <2>. QED  BY <2>1, <2>2 DEF WithIds, Ids
<1>. QED  BY <1>1, <1>2, <1>3, <1>4, <1>5, <1>6

LEMMA DaysInit ==
  ASSUME NEW v \in Vintages, db = FileOf(v), at = 0, owned.days = Days
  PROVE  DaysKept /\ \A t \in {OldTrend, StagedTrend, Trend} : db[t] = Table(db[t].cols, db[t].rows)
<1>. DEFINE shell == Table(PerSubscription.cols, {})
<1>1. v.snapshots \in SnapshotShapes
  BY VintageParts
<1>2. /\ db[OldTrend] = v.snapshots[1] /\ db[StagedTrend] = v.snapshots[2] /\ db[Trend] = v.snapshots[3]
  BY FileTables
<1>3. /\ NoTable.cols = {} /\ NoTable.rows = {} /\ NoTable = Table({}, {})
      /\ shell.cols = {"id", "compliance_pct", "subscription_id"} /\ shell.rows = {} /\ shell = Table(shell.cols, shell.rows)
  BY TableFields, TrendTables
<1>4. PICK S : S = v.snapshots
  OBVIOUS
<1>5. S \in {<<PerDay, NoTable, NoTable>>, <<PerSubscription, NoTable, NoTable>>,
             <<PerDay, PerSubscription, NoTable>>, <<NoTable, PerSubscription, NoTable>>,
             <<shell, PerSubscription, NoTable>>, <<NoTable, NoTable, Posture>>, <<shell, NoTable, Posture>>}
  BY <1>1, <1>4 DEF SnapshotShapes
<1>. HIDE DEF shell
<1>6. /\ S[1] \in {PerDay, PerSubscription, NoTable, shell} /\ S[2] \in {NoTable, PerSubscription} /\ S[3] \in {NoTable, Posture}
      /\ S[3] = NoTable => S[1] \in {PerDay, PerSubscription} \/ S[2] = PerSubscription
  <2>1. CASE S = <<PerDay, NoTable, NoTable>>
    BY <2>1
  <2>2. CASE S = <<PerSubscription, NoTable, NoTable>>
    BY <2>2
  <2>3. CASE S = <<PerDay, PerSubscription, NoTable>>
    BY <2>3
  <2>4. CASE S = <<NoTable, PerSubscription, NoTable>>
    BY <2>4
  <2>5. CASE S = <<shell, PerSubscription, NoTable>>
    BY <2>5
  <2>6. CASE S = <<NoTable, NoTable, Posture>>
    <3>1. Posture # NoTable
      BY TrendTables, <1>3
    <3>. QED  BY <2>6, <3>1
  <2>7. CASE S = <<shell, NoTable, Posture>>
    <3>1. Posture # NoTable
      BY TrendTables, <1>3
    <3>. QED  BY <2>7, <3>1
  <2>. QED  BY <1>5, <2>1, <2>2, <2>3, <2>4, <2>5, <2>6, <2>7
<1>7. /\ db[OldTrend] \in {PerDay, PerSubscription, NoTable, shell} /\ db[StagedTrend] \in {NoTable, PerSubscription}
      /\ db[Trend] \in {NoTable, Posture}
      /\ db[Trend] = NoTable => db[OldTrend] \in {PerDay, PerSubscription} \/ db[StagedTrend] = PerSubscription
  BY <1>2, <1>4, <1>6
<1>8. \A t \in {OldTrend, StagedTrend, Trend} : db[t] = Table(db[t].cols, db[t].rows)
  BY <1>3, <1>7, TrendTables
<1>9. HasIds(OldTrend) /\ HasIds(StagedTrend) /\ HasIds(Trend)
  BY <1>3, <1>7, TrendTables DEF HasIds, WithIds
<1>10. at \notin 3..Back /\ at \notin 4..Back /\ at \notin 8..Back /\ at \notin 9..Back /\ at \notin (3 + 1)..Back
  OBVIOUS
<1>11. CASE There(Trend)
  <2>1. db[Trend] = Posture
    BY <1>3, <1>7, <1>11 DEF There
  <2>2. Ids(db[Trend].rows) = Days /\ Pct \cap db[Trend].cols # {}
    BY <2>1, TrendTables DEF Pct
  <2>. QED  BY <1>8, <1>9, <1>10, <1>11, <2>2 DEF DaysKept
<1>12. CASE ~There(Trend)
  <2>1. db[OldTrend] \in {PerDay, PerSubscription} \/ db[StagedTrend] = PerSubscription
    BY <1>7, <1>12, TrendTables DEF There
  <2>2. IF There(OldTrend) THEN "id" \in db[OldTrend].cols ELSE db[OldTrend].rows = {}
    BY <1>3, <1>7, TrendTables DEF There
  <2>3. There(StagedTrend) => Ids(db[StagedTrend].rows) = Days
    BY <1>3, <1>7, TrendTables DEF There
  <2>4. There(StagedTrend) => \/ Ids(db[OldTrend].rows) = Days
                              \/ db[OldTrend].rows = {} /\ (~There(OldTrend) \/ {"subscription_id"} \subseteq db[OldTrend].cols)
    <3>1. CASE db[OldTrend] \in {PerDay, PerSubscription}
      BY <3>1, TrendTables
    <3>2. CASE db[OldTrend] \in {NoTable, shell}
      BY <1>3, <3>2 DEF There
    <3>. QED  BY <1>7, <3>1, <3>2
  <2>5. ~There(StagedTrend) => Ids(db[OldTrend].rows) = Days
    BY <1>3, <2>1, TrendTables DEF There
  <2>6. There(OldTrend) => "compliance_pct" \in db[OldTrend].cols
    BY <1>3, <1>7, TrendTables DEF There
  <2>7. Rebuildable(OldTrend, StagedTrend, {"subscription_id"}, owned.days, 3)
    BY <1>9, <1>10, <2>2, <2>3, <2>4, <2>5 DEF Rebuildable
  <2>. QED  BY <1>8, <1>9, <1>10, <1>12, <2>6, <2>7 DEF DaysKept
<1>. QED  BY <1>11, <1>12

LEMMA SchedulesInit ==
  ASSUME NEW v \in Vintages, db = FileOf(v), at = 0, owned.schedules = Ids(v.schedules.rows)
  PROVE  SchedulesKept /\ db[Sched] = Table(db[Sched].cols, db[Sched].rows)
<1>1. db[Sched] = v.schedules /\ v.schedules \in {NoTable, CronSchedules}
  BY FileTables, VintageParts DEF Sched
<1>2. at \notin 3..Back /\ at \notin 23..Back /\ at \notin 24..Back /\ at \notin 25..Back
  OBVIOUS
<1>3. CASE v.schedules = NoTable
  <2>1. db[Sched].cols = {} /\ db[Sched].rows = {} /\ db[Sched] = Table({}, {})
    BY <1>1, <1>3, TableFields
  <2>. QED  BY <1>1, <1>2, <2>1 DEF SchedulesKept, There
<1>4. CASE v.schedules = CronSchedules
  <2>1. db[Sched].cols = {"id", "categories", "cron", "enabled"} /\ db[Sched] = Table(db[Sched].cols, db[Sched].rows)
        /\ db[Sched].rows = {[id |-> s, categories |-> s, cron |-> "daily", enabled |-> TRUE] : s \in {"s1", "s2"}}
    BY <1>1, <1>4, TableFields DEF CronSchedules
  <2>2. \A r \in db[Sched].rows : DOMAIN r = db[Sched].cols /\ StillCron(r)
    BY <2>1 DEF StillCron
  <2>3. There(Sched)
    BY <2>1 DEF There
  <2>. QED  BY <1>1, <1>2, <2>1, <2>2, <2>3 DEF SchedulesKept
<1>. QED  BY <1>1, <1>3, <1>4
\* A rule of an older release, by the columns it has there.
LEMMA OldColumns ==
  ASSUME NEW r, NEW q, q["id"] = r["id"], q["filter"] = r["filter"], KindOf(q) = r["type"],
         ConditionsOf(q) = r["conditions"], GroupsOf(q) = r["condition_groups"], KqlOf(q) = r["raw_kql"]
  PROVE  Meaning(q) = <<r["id"], r["type"], Query(r)>>
BY DEF Meaning, RunsAs, Query, Compiled

Image(r, names) == [c \in DOMAIN names |-> r[names[c]]]
Images(rows, names) == {Image(r, names) : r \in rows}

LEMMA NamesOf ==
    /\ LET n == EarlyNames
       IN  /\ DOMAIN n = {"id", "filter", "rules"} /\ n["id"] = "id" /\ n["filter"] = "filter" /\ n["rules"] = "conditions"
    /\ LET n == LegacyNames
       IN  /\ DOMAIN n = {"id", "filter", "rules", "rule_groups", "source"}
           /\ n["id"] = "id" /\ n["filter"] = "filter" /\ n["rules"] = "conditions"
           /\ n["rule_groups"] = "condition_groups" /\ n["source"] = "type"
    /\ LET n == Put(LegacyNames, "raw_kql", "raw_kql")
       IN  /\ DOMAIN n = {"id", "filter", "rules", "rule_groups", "source", "raw_kql"}
           /\ n["id"] = "id" /\ n["filter"] = "filter" /\ n["rules"] = "conditions"
           /\ n["rule_groups"] = "condition_groups" /\ n["source"] = "type" /\ n["raw_kql"] = "raw_kql"
    /\ LET n == TodayNames
       IN  /\ DOMAIN n = {"id", "filter", "conditions", "condition_groups", "raw_kql", "type"}
           /\ \A c \in DOMAIN n : n[c] = c
<1>0. PICK N1 : N1 = Named({"id", "filter"})
  OBVIOUS
<1>1. DOMAIN N1 = {"id", "filter"} /\ N1["id"] = "id" /\ N1["filter"] = "filter"
  BY <1>0 DEF Named
<1>2. PICK N2 : N2 = EarlyNames
  OBVIOUS
<1>3. DOMAIN N2 = {"id", "filter", "rules"} /\ N2["id"] = "id" /\ N2["filter"] = "filter" /\ N2["rules"] = "conditions"
  BY <1>0, <1>1, <1>2 DEF EarlyNames, Put
<1>4. PICK N3 : N3 = Put(N2, "rule_groups", "condition_groups")
  OBVIOUS
<1>5. /\ DOMAIN N3 = {"id", "filter", "rules", "rule_groups"}
      /\ N3["id"] = "id" /\ N3["filter"] = "filter" /\ N3["rules"] = "conditions" /\ N3["rule_groups"] = "condition_groups"
  BY <1>3, <1>4 DEF Put
<1>6. PICK N4 : N4 = LegacyNames
  OBVIOUS
<1>7. N4 = Put(N3, "source", "type")
  BY <1>2, <1>4, <1>6 DEF LegacyNames
<1>8. /\ DOMAIN N4 = {"id", "filter", "rules", "rule_groups", "source"}
      /\ N4["id"] = "id" /\ N4["filter"] = "filter" /\ N4["rules"] = "conditions"
      /\ N4["rule_groups"] = "condition_groups" /\ N4["source"] = "type"
  BY <1>5, <1>7 DEF Put
<1>9. PICK N5 : N5 = Put(N4, "raw_kql", "raw_kql")
  OBVIOUS
<1>10. /\ DOMAIN N5 = {"id", "filter", "rules", "rule_groups", "source", "raw_kql"}
       /\ N5["id"] = "id" /\ N5["filter"] = "filter" /\ N5["rules"] = "conditions"
       /\ N5["rule_groups"] = "condition_groups" /\ N5["source"] = "type" /\ N5["raw_kql"] = "raw_kql"
  BY <1>8, <1>9 DEF Put
<1>11. /\ DOMAIN TodayNames = {"id", "filter", "conditions", "condition_groups", "raw_kql", "type"}
       /\ \A c \in DOMAIN TodayNames : TodayNames[c] = c
  BY DEF TodayNames, Named
<1>. QED  BY <1>2, <1>3, <1>6, <1>8, <1>9, <1>10, <1>11

LEMMA RuleFields ==
  \A i, f, c, g : /\ Row(i, f, c, g)["id"] = i /\ Row(i, f, c, g)["filter"] = f /\ Row(i, f, c, g)["conditions"] = c
                  /\ Row(i, f, c, g)["condition_groups"] = g /\ Row(i, f, c, g)["raw_kql"] = NoKql
                  /\ Row(i, f, c, g)["type"] = "shipped"
BY DEF Row

EarlyRows == {[r EXCEPT !["condition_groups"] = Blank, !["type"] = "custom"] : r \in Authored}

LEMMA EarlyFields ==
  \A r \in EarlyRows : r["condition_groups"] = Blank /\ r["type"] = "custom" /\ r["raw_kql"] = NoKql
BY DEF EarlyRows, Authored, Row

LEMMA AuthoredFields == \A r \in Authored : r["raw_kql"] = NoKql
BY DEF Authored, Row

\* Each shape a table of rules may have, and what its rows say.
LEMMA RuleShape ==
  ASSUME NEW x \in RuleShapes
  PROVE  /\ x[1] \in {"policies", "rules"}
         /\ \/ x[2] = {} /\ DOMAIN x[3] = {}
            \/ /\ Basic(DOMAIN x[3])
               /\ \A r \in x[2] : Meaning(Image(r, x[3])) = <<r["id"], r["type"], Query(r)>>
<1>. USE NamesOf
<1>1. CASE x = <<"policies", Authored, LegacyNames>>
  <2>1. x[1] = "policies" /\ x[2] = Authored /\ x[3] = LegacyNames
    BY <1>1
  <2>2. PICK N : N = LegacyNames
    OBVIOUS
  <2>3. /\ DOMAIN N = {"id", "filter", "rules", "rule_groups", "source"}
        /\ N["id"] = "id" /\ N["filter"] = "filter" /\ N["rules"] = "conditions"
        /\ N["rule_groups"] = "condition_groups" /\ N["source"] = "type"
    BY <2>2
  <2>4. ASSUME NEW r \in Authored PROVE Meaning(Image(r, N)) = <<r["id"], r["type"], Query(r)>>
    <3>1. PICK q : q = Image(r, N)
      OBVIOUS
    <3>2. /\ DOMAIN q = {"id", "filter", "rules", "rule_groups", "source"}
          /\ q["id"] = r["id"] /\ q["filter"] = r["filter"] /\ q["rules"] = r["conditions"]
          /\ q["rule_groups"] = r["condition_groups"] /\ q["source"] = r["type"]
      BY <2>3, <3>1 DEF Image
    <3>3. /\ KindOf(q) = r["type"] /\ ConditionsOf(q) = r["conditions"]
          /\ GroupsOf(q) = r["condition_groups"] /\ KqlOf(q) = r["raw_kql"]
      BY <3>2, AuthoredFields DEF KindOf, ConditionsOf, GroupsOf, KqlOf
    <3>. QED  BY <3>1, <3>2, <3>3, OldColumns
  <2>5. Basic(DOMAIN N)
    BY <2>3 DEF Basic
  <2>. QED  BY <2>1, <2>2, <2>4, <2>5
<1>2. CASE x = <<"rules", EarlyRows, EarlyNames>>
  <2>1. x[1] = "rules" /\ x[2] = EarlyRows /\ x[3] = EarlyNames
    BY <1>2
  <2>2. PICK N : N = EarlyNames
    OBVIOUS
  <2>3. DOMAIN N = {"id", "filter", "rules"} /\ N["id"] = "id" /\ N["filter"] = "filter" /\ N["rules"] = "conditions"
    BY <2>2
  <2>4. ASSUME NEW r \in EarlyRows PROVE Meaning(Image(r, N)) = <<r["id"], r["type"], Query(r)>>
    <3>1. PICK q : q = Image(r, N)
      OBVIOUS
    <3>2. /\ DOMAIN q = {"id", "filter", "rules"}
          /\ q["id"] = r["id"] /\ q["filter"] = r["filter"] /\ q["rules"] = r["conditions"]
      BY <2>3, <3>1 DEF Image
    <3>3. /\ KindOf(q) = r["type"] /\ ConditionsOf(q) = r["conditions"]
          /\ GroupsOf(q) = r["condition_groups"] /\ KqlOf(q) = r["raw_kql"]
      BY <3>2, EarlyFields DEF KindOf, ConditionsOf, GroupsOf, KqlOf
    <3>. QED  BY <3>1, <3>2, <3>3, OldColumns
  <2>5. Basic(DOMAIN N)
    BY <2>3 DEF Basic
  <2>. QED  BY <2>1, <2>2, <2>4, <2>5
<1>3. CASE x = <<"rules", Authored \cup Written, Put(LegacyNames, "raw_kql", "raw_kql")>>
  <2>1. x[1] = "rules" /\ x[2] = Authored \cup Written /\ x[3] = Put(LegacyNames, "raw_kql", "raw_kql")
    BY <1>3
  <2>2. PICK N : N = Put(LegacyNames, "raw_kql", "raw_kql")
    OBVIOUS
  <2>3. /\ DOMAIN N = {"id", "filter", "rules", "rule_groups", "source", "raw_kql"}
        /\ N["id"] = "id" /\ N["filter"] = "filter" /\ N["rules"] = "conditions"
        /\ N["rule_groups"] = "condition_groups" /\ N["source"] = "type" /\ N["raw_kql"] = "raw_kql"
    BY <2>2
  <2>4. ASSUME NEW r PROVE Meaning(Image(r, N)) = <<r["id"], r["type"], Query(r)>>
    <3>1. PICK q : q = Image(r, N)
      OBVIOUS
    <3>2. /\ DOMAIN q = {"id", "filter", "rules", "rule_groups", "source", "raw_kql"}
          /\ q["id"] = r["id"] /\ q["filter"] = r["filter"] /\ q["rules"] = r["conditions"]
          /\ q["rule_groups"] = r["condition_groups"] /\ q["source"] = r["type"] /\ q["raw_kql"] = r["raw_kql"]
      BY <2>3, <3>1 DEF Image
    <3>3. /\ KindOf(q) = r["type"] /\ ConditionsOf(q) = r["conditions"]
          /\ GroupsOf(q) = r["condition_groups"] /\ KqlOf(q) = r["raw_kql"]
      BY <3>2 DEF KindOf, ConditionsOf, GroupsOf, KqlOf
    <3>. QED  BY <3>1, <3>2, <3>3, OldColumns
  <2>5. Basic(DOMAIN N)
    BY <2>3 DEF Basic
  <2>. QED  BY <2>1, <2>2, <2>4, <2>5
<1>4. CASE x = <<"rules", Authored \cup Written \cup OnGraph, TodayNames>>
  <2>1. x[1] = "rules" /\ x[2] = Authored \cup Written \cup OnGraph /\ x[3] = TodayNames
    BY <1>4
  <2>2. PICK N : N = TodayNames
    OBVIOUS
  <2>3. DOMAIN N = {"id", "filter", "conditions", "condition_groups", "raw_kql", "type"} /\ \A c \in DOMAIN N : N[c] = c
    BY <2>2
  <2>4. ASSUME NEW r PROVE Meaning(Image(r, N)) = <<r["id"], r["type"], Query(r)>>
    <3>1. PICK q : q = Image(r, N)
      OBVIOUS
    <3>2. /\ DOMAIN q = {"id", "filter", "conditions", "condition_groups", "raw_kql", "type"}
          /\ \A c \in DOMAIN q : q[c] = r[c]
      BY <2>3, <3>1 DEF Image
    <3>3. /\ KindOf(q) = r["type"] /\ ConditionsOf(q) = r["conditions"]
          /\ GroupsOf(q) = r["condition_groups"] /\ KqlOf(q) = r["raw_kql"]
      BY <3>2 DEF KindOf, ConditionsOf, GroupsOf, KqlOf
    <3>. QED  BY <3>1, <3>2, <3>3, OldColumns
  <2>5. Basic(DOMAIN N)
    BY <2>3 DEF Basic
  <2>. QED  BY <2>1, <2>2, <2>4, <2>5
<1>5. CASE x = <<"rules", {}, Named({})>>
  <2>1. DOMAIN Named({}) = {}
    BY DEF Named
  <2>. QED  BY <1>5, <2>1
<1>. QED  BY <1>1, <1>2, <1>3, <1>4, <1>5 DEF RuleShapes, EarlyRows

LEMMA RulesInit ==
  ASSUME NEW v \in Vintages, db = FileOf(v), at = 0, owned.rules = RulesOf(v.rules[2])
  PROVE  RulesKept /\ \A t \in {"policies", "rules"} : db[t] = Table(db[t].cols, db[t].rows)
<1>1. PICK x : x = v.rules
  OBVIOUS
<1>2. x \in RuleShapes /\ x[1] \in {"policies", "rules"}
  BY <1>1, VintageParts, RuleShape
<1>3. PICK here, other : here = x[1] /\ {here, other} = {"policies", "rules"} /\ here # other
  BY <1>2
<1>4. db[here] = As(x[2], x[3]) /\ db[other] = NoTable
  BY <1>1, <1>3, FileTables
<1>5. /\ db[here].cols = DOMAIN x[3] /\ db[here].rows = Images(x[2], x[3]) /\ db[here] = Table(db[here].cols, db[here].rows)
      /\ db[other].cols = {} /\ db[other].rows = {} /\ db[other] = Table(db[other].cols, db[other].rows)
  BY <1>4, TableFields DEF As, Images, Image
<1>6. \A r \in db[here].rows : DOMAIN r = db[here].cols
  BY <1>5 DEF Images, Image
<1>7. at \notin 2..Back /\ at \notin 3..Back /\ Columns
  BY DEF Columns
<1>8. ~There(other) /\ (There(here) => Basic(db[here].cols)) /\ (~There(here) => db[here].rows = {})
      /\ Meanings(db[here].rows) = owned.rules
  <2>1. CASE x[2] = {} /\ DOMAIN x[3] = {}
    <3>1. db[here].rows = {} /\ db[here].cols = {}
      BY <1>5, <2>1 DEF Images
    <3>2. owned.rules = {}
      BY <1>1, <2>1 DEF RulesOf
    <3>. QED  BY <1>5, <3>1, <3>2 DEF There, Meanings
  <2>2. CASE Basic(DOMAIN x[3]) /\ \A r \in x[2] : Meaning(Image(r, x[3])) = <<r["id"], r["type"], Query(r)>>
    <3>1. There(here) /\ ~There(other)
      BY <1>5, <2>2 DEF There, Basic
    <3>2. Meanings(Images(x[2], x[3])) = RulesOf(x[2])
      BY <2>2 DEF Meanings, Images, RulesOf
    <3>. QED  BY <1>1, <1>5, <2>2, <3>1, <3>2
  <2>. QED  BY <1>2, <2>1, <2>2, RuleShape
<1>9. Meanings(db["policies"].rows \cup db["rules"].rows) = owned.rules
  <2>1. db["policies"].rows \cup db["rules"].rows = db[here].rows
    BY <1>3, <1>5
  <2>. QED  BY <1>8, <2>1
<1>10. \A t \in {"policies", "rules"} : t = here \/ t = other
  BY <1>3
<1>. QED  BY <1>3, <1>5, <1>6, <1>7, <1>8, <1>9, <1>10 DEF RulesKept

LEMMA NoFileKept ==
  ASSUME db = NoFile, at = 0,
         owned = [rules |-> {}, days |-> {}, findings |-> {}, suppressions |-> {}, schedules |-> {}]
  PROVE  KeptInv
<1>1. /\ db = [t \in Tables |-> db[t]]
      /\ \A t \in Tables : db[t].cols = {} /\ db[t].rows = {} /\ db[t] = Table({}, {}) /\ ~There(t)
  BY TableFields DEF NoFile, There
<1>2. DbShape
  BY <1>1 DEF DbShape
<1>3. \A n \in 2..26 : at \notin n..Back
  OBVIOUS
<1>4. RulesKept
  <2>1. Columns
    BY <1>3 DEF Columns
  <2>2. Meanings({} \cup {}) = owned.rules
    BY DEF Meanings
  <2>. QED  BY <1>1, <1>3, <2>1, <2>2 DEF RulesKept, Tables
<1>5. \A t \in Tables : HasIds(t)
  BY <1>1 DEF HasIds
<1>6. \A l, m \in Tables : \A k : \A n \in {3, 9, 12} : Rebuildable(l, m, k, {}, n)
  BY <1>1, <1>5, NoneIn DEF Rebuildable
<1>7. DaysKept
  <2>1. PICK O : O = owned.days
    OBVIOUS
  <2>2. Rebuildable(OldTrend, StagedTrend, {"subscription_id"}, O, 3)
    BY <1>6, <2>1, DaysTables
  <2>. QED  BY <1>1, <1>3, <1>5, <2>1, <2>2, DaysTables DEF DaysKept
<1>8. FindingsKept /\ SuppressionsKept
  <2>1. Rebuildable("findings", "findings_new", {"kind"}, owned.findings, 9)
    BY <1>6 DEF Tables
  <2>2. Rebuildable("suppressions", "suppressions_new", {}, owned.suppressions, 12)
    BY <1>6 DEF Tables
  <2>. QED  BY <1>3, <2>1, <2>2 DEF FindingsKept, SuppressionsKept
<1>9. SchedulesKept
  <2>1. db[Sched].rows = {} /\ db[Sched].cols = {} /\ ~There(Sched)
    BY <1>1 DEF Sched, Tables
  <2>2. Ids(db[Sched].rows) = owned.schedules
    BY <2>1, NoneIn
  <2>3. at \notin 3..Back /\ at \notin 23..Back /\ at \notin 24..Back /\ at \notin 25..Back
    BY <1>3
  <2>. QED  BY <2>1, <2>2, <2>3 DEF SchedulesKept
<1>10. at \in 0..Back
  BY Ends
<1>. QED  BY <1>2, <1>4, <1>7, <1>8, <1>9, <1>10 DEF KeptInv

LEMMA KeptInit == UpgradeInit => KeptInv
<1>. SUFFICES ASSUME UpgradeInit PROVE KeptInv
  OBVIOUS
<1>0. at = 0
  BY DEF UpgradeInit
<1>1. CASE OldSchema
  <2>1. PICK v \in Vintages :
          /\ db = FileOf(v)
          /\ owned = [rules |-> RulesOf(v.rules[2]), days |-> Days, findings |-> {"f"}, suppressions |-> {"s"},
                      schedules |-> Ids(v.schedules.rows)]
    BY <1>1 DEF OldSchema
  <2>2. /\ owned.rules = RulesOf(v.rules[2]) /\ owned.days = Days /\ owned.findings = {"f"}
        /\ owned.suppressions = {"s"} /\ owned.schedules = Ids(v.schedules.rows)
    BY <2>1
  <2>3. RulesKept /\ \A t \in {"policies", "rules"} : db[t] = Table(db[t].cols, db[t].rows)
    BY <1>0, <2>1, <2>2, RulesInit
  <2>4. DaysKept /\ \A t \in {OldTrend, StagedTrend, Trend} : db[t] = Table(db[t].cols, db[t].rows)
    BY <1>0, <2>1, <2>2, DaysInit
  <2>5. FindingsKept /\ SuppressionsKept
        /\ \A t \in {"findings", "findings_new", "suppressions", "suppressions_new"} : db[t] = Table(db[t].cols, db[t].rows)
    BY <1>0, <2>1, <2>2, NullableInit
  <2>6. SchedulesKept /\ db[Sched] = Table(db[Sched].cols, db[Sched].rows)
    BY <1>0, <2>1, <2>2, SchedulesInit
  <2>7. db = [t \in Tables |-> db[t]]
    BY <2>1, FileTables
  <2>8. DbShape
    BY <2>3, <2>4, <2>5, <2>6, <2>7 DEF DbShape, Tables, OldTrend, StagedTrend, Trend, Sched
  <2>. QED  BY <1>0, <2>3, <2>4, <2>5, <2>6, <2>8, Ends DEF KeptInv
<1>2. CASE OldFindings \/ OldBlobs
  <2>1. /\ db = NoFile
        /\ owned = [rules |-> {}, days |-> {}, findings |-> {}, suppressions |-> {}, schedules |-> {}]
    BY <1>2 DEF OldFindings, OldBlobs
  <2>. QED  BY <1>0, <2>1, NoFileKept
<1>. QED  BY <1>1, <1>2 DEF UpgradeInit

LEMMA KeptAlways == UpgradeSpec => []KeptInv
<1>. QED  BY KeptInit, KeptNext, PTL DEF UpgradeSpec

\* The five families at serving, read by the columns of today.
LEMMA KeptIsServed == KeptInv => NothingStranded
<1>. SUFFICES ASSUME KeptInv, at = Serving PROVE NothingStranded
  BY DEF NothingStranded
<1>. USE Ends
<1>0. \A n \in 2..26 : at \in n..Back
  OBVIOUS
<1>1. RulesOf(db["rules"].rows) = owned.rules
  <2>1. RulesKept /\ ~There("policies") /\ There("rules") /\ Columns
    BY <1>0 DEF KeptInv, RulesKept
  <2>2. db["policies"].rows = {} /\ Basic(db["rules"].cols) /\ \A r \in db["rules"].rows : DOMAIN r = db["rules"].cols
    BY <2>1 DEF RulesKept
  <2>3. Meanings(db["rules"].rows) = owned.rules
    <3>1. {} \cup db["rules"].rows = db["rules"].rows
      OBVIOUS
    <3>. QED  BY <2>1, <2>2, <3>1 DEF RulesKept
  <2>4. {"raw_kql", "type", "condition_groups", "conditions"} \subseteq db["rules"].cols
    BY <1>0, <2>1 DEF Columns
  <2>5. \A r \in db["rules"].rows : Meaning(r) = <<r["id"], r["type"], Query(r)>>
    BY <2>2, <2>4 DEF Meaning, KindOf, ConditionsOf, GroupsOf, KqlOf, RunsAs, Query, Compiled
  <2>. QED  BY <2>3, <2>5 DEF RulesOf, Meanings
<1>2. "posture_pct" \in db["posture_snapshots"].cols /\ Ids(db["posture_snapshots"].rows) = owned.days
  BY <1>0 DEF KeptInv, DaysKept, Trend
<1>3. Ids(db["findings"].rows) = owned.findings /\ Ids(db["suppressions"].rows) = owned.suppressions
  <2>1. Rebuildable("findings", "findings_new", {"kind"}, owned.findings, 9)
    BY DEF KeptInv, FindingsKept
  <2>2. Rebuildable("suppressions", "suppressions_new", {}, owned.suppressions, 12)
    BY DEF KeptInv, SuppressionsKept
  <2>3. at \in (9 + 1)..Back /\ at \in (12 + 1)..Back
    OBVIOUS
  <2>. QED  BY <2>1, <2>2, <2>3 DEF Rebuildable
<1>4. {r["id"] : r \in {x \in db["schedules"].rows : x["target"] = x["id"] /\ ~x["enabled"]}} = owned.schedules
  <2>1. Ids(db[Sched].rows) = owned.schedules /\ \A r \in db[Sched].rows : Moved(r)
    BY <1>0 DEF KeptInv, SchedulesKept
  <2>2. \A r \in db[Sched].rows : r["target"] = r["id"] /\ ~r["enabled"]
    BY <2>1 DEF Moved
  <2>. QED  BY <2>1, <2>2 DEF Ids, Sched
<1>. QED  BY <1>1, <1>2, <1>3, <1>4 DEF NothingStranded

\* Whatever shape an older release left the file in, and wherever earlier starts stopped, a
\* start that reaches serving serves every rule with what it ran, the trend, the findings,
\* the suppressions and the schedules the file held.
THEOREM NothingIsStranded == UpgradeSpec => []NothingStranded
<1>. QED  BY KeptAlways, KeptIsServed, PTL

-----------------------------------------------------------------------------
(* The finding and its rows *)

Finding ==
    [rule : {"old", "new"}, res : Spellings, old : Nat, counted : BOOLEAN, rowsScan : Nat,
     last : Nat, first : Nat, times : Nat, open : BOOLEAN]

\* A stored finding: seen no later than the newest scan, and its rows are where the
\* copy put them unless it is to be copied again.  One under the old id never was.
Sound(d, fp) ==
    LET f == d.fin[fp]
    IN  /\ f \in Finding
        /\ f.last <= Len(d.scans) /\ f.rowsScan <= f.last
        /\ Stale(f) \/ (fp \in DOMAIN d.rows /\ d.rows[fp] = f.old)
        /\ f.rule = "old" => ~f.counted

\* The finding is where the scans look for it, or waits under its first name.
InPlace(d, fp) == fp = Here \/ ("rekeyed" \notin d.marks /\ fp = Legacy(d.fin[fp].rule, d.fin[fp].res))

\* One finding, and what it tells is what the scans saw.
OneTells(d, t, fp) ==
    LET f == d.fin[fp]
    IN  /\ DOMAIN d.fin = {fp} /\ Sound(d, fp) /\ InPlace(d, fp)
        /\ f.first = t.first /\ f.open = t.open /\ f.old = t.rows
        /\ "category" \notin d.marks => f.times = t.times

\* Two spellings of the finding, still to be merged.
TwoTell(d, t, earlier, later) ==
    LET e == d.fin[earlier]
        l == d.fin[later]
    IN  /\ "rekeyed" \notin d.marks
        /\ DOMAIN d.fin = {earlier, later} /\ earlier # later /\ Sound(d, earlier) /\ Sound(d, later)
        /\ e.rule = "new" /\ earlier = Legacy("new", e.res)
        /\ l.rule = "new" /\ later = Legacy("new", l.res)
        /\ e.last < l.last /\ e.first <= l.first
        /\ e.first = t.first /\ l.open = t.open /\ l.old = t.rows
        /\ "category" \notin d.marks => e.times + l.times = t.times

Told(d, t) ==
    \/ \E fp \in Fp : OneTells(d, t, fp)
    \/ \E earlier, later \in Fp : TwoTell(d, t, earlier, later)

NoneTold(d, t) == DOMAIN d.fin = {} /\ t.first = 0 /\ t.rows = 0

\* The history was not replayed, and no scan saw the finding since this release came.
Unread(d, t) == {"findings", "category"} \cap d.marks = {} /\ ~t.cut

IsFull(d, i) == i \in DOMAIN d.scans /\ d.scans[i].blob = "full"

\* All there is of it are the blobs of an older release's two scans.
InBlobs(d, t) ==
    /\ DOMAIN d.fin = {} /\ DOMAIN d.rows = {}
    /\ \A i \in DOMAIN d.scans :
         LET s == d.scans[i]
         IN  /\ s.rule = "new" /\ s.res = "lower" /\ s.fp = Here
             /\ s.blob = "empty" => s.recs = {}
             /\ i > 2 \/ Len(d.scans) = 1 => s.blob = "empty"
    /\ t.first = IF IsFull(d, 1) THEN 1 ELSE IF IsFull(d, 2) THEN 2 ELSE 0
    /\ t.rows = IF IsFull(d, 2) THEN 2 ELSE IF IsFull(d, 1) THEN 1 ELSE 0
    /\ t.open <=> IsFull(d, Len(d.scans))

\* Where the finding is told, and why the history is not replayed over it.
Age(d, t) ==
    /\ IF Unread(d, t) THEN InBlobs(d, t) ELSE NoneTold(d, t) \/ (t.first # 0 /\ Told(d, t))
    /\ t.cut /\ {"findings", "category"} \cap d.marks = {} => HasScanLeftOut(d)

\* Whose rule a finding names by the point a start has reached.
RuleBy(d, p, s) ==
    \A fp \in DOMAIN d.fin :
        /\ p = 29 /\ fp \in s => fp = Here \/ d.fin[fp].rule = "new"
        /\ p \in 30..Back => fp = Here \/ d.fin[fp].rule = "new"
        /\ p \in 33..Back => d.fin[fp].rule = "new"

\* Every finding has its rows, and no rows are left of others.
RowsAgree(d) ==
    /\ DOMAIN d.rows \subseteq DOMAIN d.fin
    /\ \A fp \in DOMAIN d.fin : fp \in DOMAIN d.rows /\ d.rows[fp] = d.fin[fp].old

TruthTyped(t) == t.first \in Nat /\ t.times \in Nat /\ t.rows \in Nat /\ t.open \in BOOLEAN

AgeInv ==
    /\ ScansInv /\ at \in 0..Back /\ TruthTyped(truth)
    /\ at = Back => {"rekeyed", "findings"} \subseteq data.marks
    /\ ~truth.split => /\ Age(data, truth) /\ RuleBy(data, at, seen)
                       /\ at \in 35..41 /\ "copyRows" \notin failed => RowsAgree(data)

-----------------------------------------------------------------------------
(* Steps that change neither findings nor rows *)

\* The same scans as far as a replay reads them.
Alike(d, e) ==
    /\ Len(e.scans) = Len(d.scans) /\ DOMAIN e.scans = DOMAIN d.scans
    /\ "findings" \in d.marks \/
       \A i \in DOMAIN d.scans :
          LET s == d.scans[i]
              r == e.scans[i]
          IN  /\ r.blob = s.blob /\ r.fp = s.fp /\ r.res = s.res /\ r.rule \in {s.rule, "new"}
              /\ s.blob = "empty" => ((r.recs = {}) <=> (s.recs = {}))

SameMarks(d, e) == \A m \in {"rekeyed", "findings", "category"} : m \in e.marks <=> m \in d.marks

LEMMA AlikeBlobs ==
  ASSUME NEW d, NEW e, NEW t, Alike(d, e), "findings" \notin d.marks
  PROVE  /\ \A i : IsFull(e, i) <=> IsFull(d, i)
         /\ HasScanLeftOut(d) => HasScanLeftOut(e)
BY DEF Alike, IsFull, HasScanLeftOut, LeftOut

LEMMA SameTold ==
  ASSUME NEW d, NEW e, NEW t, e.fin = d.fin, e.rows = d.rows, Len(e.scans) = Len(d.scans), Told(d, t),
         \A m \in {"rekeyed", "category"} : m \in e.marks <=> m \in d.marks
  PROVE  Told(e, t)
<1>1. \A fp : (Sound(d, fp) => Sound(e, fp)) /\ (InPlace(d, fp) => InPlace(e, fp))
  BY DEF Sound, InPlace
<1>2. \A fp : OneTells(d, t, fp) => OneTells(e, t, fp)
  BY <1>1 DEF OneTells
<1>3. \A earlier, later : TwoTell(d, t, earlier, later) => TwoTell(e, t, earlier, later)
  BY <1>1 DEF TwoTell
<1>. QED  BY <1>2, <1>3 DEF Told

LEMMA SameAge ==
  ASSUME NEW d, NEW e, NEW t, e.fin = d.fin, e.rows = d.rows, SameMarks(d, e), Alike(d, e), Age(d, t)
  PROVE  Age(e, t)
<1>1. Unread(e, t) <=> Unread(d, t)
  BY DEF Unread, SameMarks
<1>2. CASE Unread(d, t)
  <2>1. InBlobs(d, t) /\ "findings" \notin d.marks
    BY <1>2 DEF Age, Unread
  <2>2. \A i : IsFull(e, i) <=> IsFull(d, i)
    BY <2>1, AlikeBlobs
  <2>3. Len(e.scans) = Len(d.scans) /\ DOMAIN e.scans = DOMAIN d.scans
    BY DEF Alike
  <2>4. \A i \in DOMAIN d.scans :
          LET s == d.scans[i]
              r == e.scans[i]
          IN  /\ r.blob = s.blob /\ r.fp = s.fp /\ r.res = s.res /\ r.rule \in {s.rule, "new"}
              /\ s.blob = "empty" => ((r.recs = {}) <=> (s.recs = {}))
    BY <2>1 DEF Alike
  <2>5. \A i \in DOMAIN e.scans :
          LET s == e.scans[i]
          IN  /\ s.rule = "new" /\ s.res = "lower" /\ s.fp = Here
              /\ s.blob = "empty" => s.recs = {}
              /\ i > 2 \/ Len(e.scans) = 1 => s.blob = "empty"
    BY <2>1, <2>3, <2>4 DEF InBlobs
  <2>6. InBlobs(e, t)
    BY <2>1, <2>2, <2>3, <2>5 DEF InBlobs
  <2>. QED  BY <1>1, <1>2, <2>6 DEF Age, Unread
<1>3. CASE ~Unread(d, t)
  <2>1. NoneTold(e, t) \/ (t.first # 0 /\ Told(e, t))
    BY <1>3, SameTold DEF Age, NoneTold, Alike, SameMarks
  <2>2. t.cut /\ {"findings", "category"} \cap e.marks = {} => HasScanLeftOut(e)
    BY AlikeBlobs DEF Age, SameMarks
  <2>. QED  BY <1>1, <1>3, <2>1, <2>2 DEF Age
<1>. QED  BY <1>2, <1>3

LEMMA RuleKept ==
  ASSUME NEW d, NEW e, e.fin = d.fin, NEW p \in Nat, NEW q \in Nat, NEW s, NEW t, RuleBy(d, p, s),
         q < 29 \/ (q = 29 /\ t = {}) \/ (p \in 30..Back /\ q \in 30..32) \/ (p \in 33..Back /\ q >= 33)
  PROVE  RuleBy(e, q, t)
<1>. USE Ends
<1>1. CASE q < 29 \/ (q = 29 /\ t = {})
  BY <1>1 DEF RuleBy
<1>2. CASE p \in 30..Back /\ q \in 30..32
  BY <1>2 DEF RuleBy
<1>3. CASE p \in 33..Back /\ q >= 33
  BY <1>3 DEF RuleBy
<1>. QED  BY <1>1, <1>2, <1>3

\* A step that leaves the findings and their rows alone.
LEMMA AgeStays ==
  ASSUME AgeInv, ScansInv', UNCHANGED truth, at' \in 0..Back,
         at' = Back => {"rekeyed", "findings"} \subseteq data'.marks,
         data'.fin = data.fin, data'.rows = data.rows, SameMarks(data, data'), Alike(data, data'),
         at' < 29 \/ (at' = 29 /\ seen' = {}) \/ (at \in 30..Back /\ at' \in 30..32) \/ (at \in 33..Back /\ at' >= 33),
         at' \in 35..41 /\ "copyRows" \notin failed' => at \in 35..41 /\ "copyRows" \notin failed
  PROVE  AgeInv'
<1>. USE Ends
<1>1. CASE truth.split
  BY <1>1 DEF AgeInv
<1>2. CASE ~truth.split
  <2>1. Age(data, truth) /\ RuleBy(data, at, seen) /\ at \in Nat /\ at' \in Nat
    BY <1>2 DEF AgeInv
  <2>2. Age(data', truth)
    BY <2>1, SameAge
  <2>3. RuleBy(data', at', seen')
    BY <2>1, RuleKept
  <2>4. at' \in 35..41 /\ "copyRows" \notin failed' => RowsAgree(data')
    BY <1>2 DEF AgeInv, RowsAgree
  <2>. QED  BY <2>2, <2>3, <2>4 DEF AgeInv
<1>. QED  BY <1>1, <1>2

LEMMA SelfAlike ==
  \A d, e : e.scans = d.scans => Alike(d, e)
BY DEF Alike

\* Steps that leave the findings and their rows alone.
LEMMA AgeQuiet ==
  ASSUME AgeInv, ScansInv', UNCHANGED truth,
         DropStandIn \/ RenameRule \/ RemapRecords \/ ConvertScanBlobs \/ EmptyScanBlobs \/ SeedRule \/ BackfillSnapshots
  PROVE  AgeInv'
<1>. USE Ends, FindingSequence
<1>0. Shape(data) /\ ScansInv
  BY DEF AgeInv, ScansInv
<1>1. CASE DropStandIn \/ RenameRule
  <2>1. at \in 27..28 /\ at' = at + 1 /\ seen' = {} /\ failed' = failed
    BY <1>1 DEF DropStandIn, RenameRule, FDoes
  <2>2. data'.fin = data.fin /\ data'.rows = data.rows /\ data'.marks = data.marks /\ data'.scans = data.scans
    BY <1>0, <1>1 DEF DropStandIn, RenameRule, Shape, Fields
  <2>. QED  BY <2>1, <2>2, AgeStays, SelfAlike DEF SameMarks
<1>2. CASE SeedRule \/ BackfillSnapshots
  <2>1. at \in {37, 40} /\ at' = at + 1 /\ failed' = failed
    BY <1>2 DEF SeedRule, BackfillSnapshots, FDoes
  <2>2. /\ data'.fin = data.fin /\ data'.rows = data.rows /\ data'.scans = data.scans
        /\ data'.marks \in {data.marks, data.marks \cup {"snapshots"}}
    BY <1>0, <1>2 DEF SeedRule, BackfillSnapshots, Marked, Shape, Fields
  <2>. QED  BY <2>1, <2>2, AgeStays, SelfAlike DEF SameMarks
<1>3. CASE RemapRecords
  <2>1. at = 31 /\ at' = 32 /\ failed' = failed
    BY <1>3 DEF RemapRecords, FDoes
  <2>2. /\ data'.fin = data.fin /\ data'.rows = data.rows /\ data'.marks = data.marks
        /\ data'.scans = [i \in DOMAIN data.scans |-> Recorded(data.scans[i])]
    BY <1>0, <1>3 DEF RemapRecords, Shape, Fields
  <2>3. Alike(data, data')
    <3>1. Len(data'.scans) = Len(data.scans) /\ DOMAIN data'.scans = DOMAIN data.scans
      BY <2>2, ScanTypes, <1>0 DEF ScansInv
    <3>2. \A s \in Scans : LET r == Recorded(s)
                           IN r.blob = s.blob /\ r.fp = s.fp /\ r.res = s.res /\ r.rule = s.rule /\ ((r.recs = {}) <=> (s.recs = {}))
      <4>. SUFFICES ASSUME NEW s \in Scans
                    PROVE  LET r == Recorded(s)
                           IN r.blob = s.blob /\ r.fp = s.fp /\ r.res = s.res /\ r.rule = s.rule /\ ((r.recs = {}) <=> (s.recs = {}))
        OBVIOUS
      <4>. DEFINE recs == {IF fp[1] = "old" THEN Current("new", fp[2]) ELSE fp : fp \in s.recs}
      <4>1. Recorded(s) = [s EXCEPT !.recs = recs]
        BY Zenon DEF Recorded
      <4>2. (recs = {}) <=> (s.recs = {})
        OBVIOUS
      <4>. HIDE DEF recs
      <4>. QED  BY <4>1, <4>2 DEF Scans
    <3>3. ASSUME NEW i \in DOMAIN data.scans
          PROVE  LET s == data.scans[i]
                     r == data'.scans[i]
                 IN  r.blob = s.blob /\ r.fp = s.fp /\ r.res = s.res /\ r.rule = s.rule /\ ((r.recs = {}) <=> (s.recs = {}))
      <4>1. data.scans[i] \in Scans /\ data'.scans[i] = Recorded(data.scans[i])
        BY <1>0, <2>2, ScanTypes
      <4>. QED  BY <3>2, <4>1
    <3>. QED  BY <3>1, <3>3 DEF Alike
  <2>. QED  BY <2>1, <2>2, <2>3, AgeStays DEF SameMarks
<1>4. CASE ConvertScanBlobs \/ EmptyScanBlobs
  <2>1. at \in 35..36 /\ at' \in at..(at + 1) /\ ("copyRows" \notin failed' => "copyRows" \notin failed)
    BY <1>4 DEF ConvertScanBlobs, EmptyScanBlobs, FDoes
  <2>2. data'.fin = data.fin /\ data'.rows = data.rows /\ data'.marks = data.marks
    BY <1>0, <1>4 DEF ConvertScanBlobs, EmptyScanBlobs, Shape, Fields
  <2>3. Alike(data, data')
    <3>1. CASE data' = data
      BY <3>1, SelfAlike
    <3>2. ASSUME NEW i \in DOMAIN data.scans, NEW r, data' = [data EXCEPT !.scans[i] = r],
                 "findings" \in data.marks \/ (~data.scans[i].has /\ r = Converted(data.scans[i]))
          PROVE  Alike(data, data')
      <4>1. data'.scans = [data.scans EXCEPT ![i] = r]
        BY <1>0, <3>2 DEF Shape, Fields
      <4>2. DOMAIN data'.scans = DOMAIN data.scans /\ Len(data'.scans) = Len(data.scans)
        BY <1>0, <4>1, ScanTypes
      <4>3. ASSUME ~data.scans[i].has, r = Converted(data.scans[i])
            PROVE  LET s == data.scans[i]
                   IN r.blob = s.blob /\ r.fp = s.fp /\ r.res = s.res /\ r.rule = s.rule /\ (s.blob = "empty" => r.recs = s.recs)
        <5>1. data.scans[i] \in Scans /\ data.scans[i].recs = {}
          BY <1>0, <4>3, ScanTypes DEF ScansInv, ScanReadable
        <5>. QED  BY <4>3, <5>1 DEF Converted, Scans
      <4>. QED  BY <3>2, <4>1, <4>2, <4>3 DEF Alike
    <3>3. CASE ConvertScanBlobs
      BY <3>1, <3>2, <3>3 DEF ConvertScanBlobs, Pending
    <3>4. CASE EmptyScanBlobs
      <4>1. ASSUME NEW i \in Emptyable(data), data' = [data EXCEPT !.scans[i].blob = "empty"] PROVE Alike(data, data')
        <5>1. i \in DOMAIN data.scans /\ "findings" \in data.marks
          BY <4>1 DEF Emptyable
        <5>. DEFINE r == [data.scans[i] EXCEPT !.blob = "empty"]
        <5>2. data' = [data EXCEPT !.scans[i] = r]
          BY <4>1
        <5>. HIDE DEF r
        <5>. QED  BY <3>2, <5>1, <5>2
      <4>. QED  BY <3>1, <3>4, <4>1 DEF EmptyScanBlobs
    <3>. QED  BY <1>4, <3>3, <3>4
  <2>. QED  BY <2>1, <2>2, <2>3, AgeStays DEF SameMarks
<1>. QED  BY <1>1, <1>2, <1>3, <1>4

-----------------------------------------------------------------------------
(* The rename of the rule's findings *)

LEMMA RemappedTables ==
  ASSUME NEW d, Shape(d), NEW fp, NEW res, NEW n
  PROVE  LET e == Remapped(d, fp, res, n)
             to == Current("new", res)
             moves == fp \in OldKeys(res) /\ n >= 1 /\ fp \in DOMAIN d.fin /\ to \notin DOMAIN d.fin
         IN  /\ e.fin = IF moves THEN Rekeyed(d.fin, fp, to) ELSE d.fin
             /\ ~(fp \in OldKeys(res) /\ fp \in DOMAIN d.fin /\ to \notin DOMAIN d.fin) => e.rows = d.rows
BY DEF Remapped, Shape, Fields

\* A finding under the rule's old id is the only one, and no rows of it were copied.
LEMMA OldIsOnly ==
  ASSUME NEW d, NEW t, Age(d, t), NEW fp \in DOMAIN d.fin, d.fin[fp].rule = "old"
  PROVE  ~Unread(d, t) /\ t.first # 0 /\ OneTells(d, t, fp)
<1>1. ~Unread(d, t) /\ ~NoneTold(d, t)
  BY DEF Age, InBlobs, NoneTold
<1>2. t.first # 0 /\ Told(d, t)
  BY <1>1 DEF Age
<1>3. \A e, l \in Fp : ~TwoTell(d, t, e, l)
  BY DEF TwoTell
<1>4. PICK k \in Fp : OneTells(d, t, k)
  BY <1>2, <1>3 DEF Told
<1>5. k = fp
  BY <1>4 DEF OneTells
<1>. QED  BY <1>1, <1>2, <1>4, <1>5

LEMMA AgeMoved ==
  ASSUME NEW d, Shape(d), NEW t, Age(d, t), NEW fp \in DOMAIN d.fin, d.fin[fp].rule = "old", NEW n \in 1..4
  PROVE  LET e == Remapped(d, fp, d.fin[fp].res, n)
         IN  Age(e, t) /\ DOMAIN e.fin = {Here}
<1>. DEFINE f == d.fin[fp]
            e == Remapped(d, fp, f.res, n)
<1>1. OneTells(d, t, fp) /\ ~Unread(d, t) /\ t.first # 0
  BY OldIsOnly
<1>2. Keeps(d, e) /\ e.marks = d.marks /\ e.scans = d.scans
  BY RemappedKeeps DEF Keeps
<1>3. OneTells(e, t, Here)
  <2>1. CASE fp = Here
    <3>1. e = d
      BY <2>1, PairNames DEF Remapped
    <3>. QED  BY <1>1, <2>1, <3>1
  <2>2. CASE fp # Here
    <3>1. fp = Legacy("old", f.res) /\ f \in Finding /\ DOMAIN d.fin = {fp} /\ "rekeyed" \notin d.marks
      BY <1>1, <2>2 DEF OneTells, Sound, InPlace
    <3>2. fp \in OldKeys(f.res) /\ Current("new", f.res) = Here
      BY <3>1, PairNames
    <3>3. e.fin = Rekeyed(d.fin, fp, Here)
      BY <2>2, <3>1, <3>2, RemappedTables
    <3>4. DOMAIN e.fin = {Here} /\ e.fin[Here] = f
      BY <2>2, <3>1, <3>3 DEF Rekeyed
    <3>5. Sound(e, Here)
      BY <1>1, <1>2, <3>4 DEF OneTells, Sound, Stale
    <3>. QED  BY <1>1, <1>2, <3>4, <3>5 DEF OneTells, InPlace
  <2>. QED  BY <2>1, <2>2
<1>4. Here \in Fp
  BY DEF Here, Current, Fp
<1>5. ~Unread(e, t) /\ Told(e, t)
  BY <1>1, <1>2, <1>3, <1>4 DEF Unread, Told
<1>6. t.cut /\ {"findings", "category"} \cap e.marks = {} => HasScanLeftOut(e)
  BY <1>2 DEF Age, HasScanLeftOut
<1>. HIDE DEF e
<1>7. Age(e, t) /\ DOMAIN e.fin = {Here}
  BY <1>1, <1>3, <1>5, <1>6 DEF Age, OneTells
<1>. QED  BY <1>7 DEF e

LEMMA AgeRemapped ==
  ASSUME AgeInv, ScansInv', UNCHANGED truth, RemapFindings \/ CrashInRemap
  PROVE  AgeInv'
<1>. USE Ends, FindingSequence
<1>0. Shape(data) /\ ScansInv
  BY DEF AgeInv, ScansInv
<1>1. ASSUME NEW fp \in ToRemap, NEW n \in 1..4, data' = Remapped(data, fp, data.fin[fp].res, n), at = 29,
             at' = 0 \/ (at' = 29 /\ seen' = seen \cup {fp, Here})
      PROVE  AgeInv'
  <2>1. fp \in DOMAIN data.fin /\ data.fin[fp].rule = "old"
    BY DEF ToRemap
  <2>2. ~truth.split => Age(data', truth) /\ DOMAIN data'.fin = {Here}
    <3>. SUFFICES ASSUME ~truth.split PROVE Age(data', truth) /\ DOMAIN data'.fin = {Here}
      OBVIOUS
    <3>1. Age(data, truth)
      BY DEF AgeInv
    <3>2. LET e == Remapped(data, fp, data.fin[fp].res, n) IN Age(e, truth) /\ DOMAIN e.fin = {Here}
      <4>1. Shape(data) /\ n \in 1..4
        BY <1>0
      <4>. QED  BY ONLY <2>1, <3>1, <4>1, AgeMoved
    <3>. QED  BY <1>1, <3>2
  <2>3. ~truth.split => RuleBy(data', at', seen')
    BY <1>1, <2>2 DEF RuleBy
  <2>4. /\ ScansInv' /\ at' \in 0..Back /\ at' # Back /\ at' \notin 35..41 /\ TruthTyped(truth')
        /\ truth' = truth
    BY <1>1 DEF AgeInv
  <2>. QED  BY <2>2, <2>3, <2>4 DEF AgeInv
<1>2. CASE CrashInRemap
  <2>1. PICK fp \in ToRemap, n \in 1..3 : data' = Remapped(data, fp, data.fin[fp].res, n)
    BY <1>2 DEF CrashInRemap
  <2>. QED  BY <1>1, <1>2, <2>1 DEF CrashInRemap
<1>3. CASE RemapFindings /\ at' = at
  <2>1. PICK fp \in ToRemap : /\ data' = Remapped(data, fp, data.fin[fp].res, 4)
                              /\ seen' = seen \cup {fp, Current("new", data.fin[fp].res)}
    BY <1>3 DEF RemapFindings, FDoes, AgeInv
  <2>. QED  BY <1>1, <1>3, <2>1, PairNames DEF RemapFindings, FDoes
<1>4. CASE RemapFindings /\ at' # at
  <2>1. at = 29 /\ at' = 30 /\ ToRemap = {} /\ data' = data
    BY <1>4 DEF RemapFindings, FDoes
  <2>2. ~truth.split => RuleBy(data', at', seen')
    <3>. SUFFICES ASSUME ~truth.split, NEW fp \in DOMAIN data.fin PROVE fp = Here \/ data.fin[fp].rule = "new"
      BY <2>1 DEF RuleBy
    <3>1. Age(data, truth) /\ RuleBy(data, at, seen)
      BY DEF AgeInv
    <3>2. CASE fp \in seen
      BY <2>1, <3>1, <3>2 DEF RuleBy
    <3>3. CASE fp \notin seen
      <4>1. data.fin[fp].rule # "old"
        BY <2>1, <3>3 DEF ToRemap
      <4>2. data.fin[fp].rule \in {"old", "new"}
        BY <3>1 DEF Age, InBlobs, NoneTold, Told, OneTells, TwoTell, Sound, Finding
      <4>. QED  BY <4>1, <4>2
    <3>. QED  BY <3>2, <3>3
  <2>. QED  BY <2>1, <2>2 DEF AgeInv
<1>. QED  BY <1>2, <1>3, <1>4

LEMMA AgeSuppressions ==
  ASSUME AgeInv, ScansInv', UNCHANGED truth, RemapSuppressions
  PROVE  AgeInv'
<1>. USE Ends, FindingSequence
<1>. DEFINE fp == data.sup.fp
            res == data.sup.res
<1>0. Shape(data) /\ at = 30 /\ at' = 31 /\ failed' = failed /\ data' = Remapped(data, fp, res, 4)
  BY DEF AgeInv, ScansInv, RemapSuppressions, FDoes
<1>1. Keeps(data, data') /\ data'.marks = data.marks
  BY <1>0, RemappedKeeps
<1>2. CASE truth.split
  BY <1>0, <1>2 DEF AgeInv
<1>3. CASE ~truth.split
  <2>1. Age(data, truth) /\ RuleBy(data, at, seen)
    BY <1>3 DEF AgeInv
  <2>2. \A x \in DOMAIN data.fin : x \notin OldKeys(res)
    <3>. SUFFICES ASSUME NEW x \in DOMAIN data.fin PROVE x = Here \/ \E r : x = Legacy("new", r)
      BY PairNames
    <3>1. x = Here \/ data.fin[x].rule = "new"
      BY <1>0, <2>1 DEF RuleBy
    <3>2. x = Here \/ x = Legacy(data.fin[x].rule, data.fin[x].res)
      BY <2>1 DEF Age, InBlobs, NoneTold, Told, OneTells, TwoTell, InPlace
    <3>. QED  BY <3>1, <3>2
  <2>3. data'.fin = data.fin /\ data'.rows = data.rows
    BY <1>0, <2>2, RemappedTables
  <2>. QED  BY <1>0, <1>1, <2>3, AgeStays, SelfAlike DEF Keeps, SameMarks
<1>. QED  BY <1>2, <1>3

-----------------------------------------------------------------------------
(* The rename of the rule in the findings and scans *)

LEMMA RenamedTold ==
  ASSUME NEW d, NEW e, NEW t,
         e.rows = d.rows, e.marks = d.marks, Len(e.scans) = Len(d.scans),
         e.fin = [fp \in DOMAIN d.fin |-> [d.fin[fp] EXCEPT !.rule = "new"]],
         \A fp \in DOMAIN d.fin : fp = Here \/ d.fin[fp].rule = "new"
  PROVE  Told(d, t) => Told(e, t)
<1>1. ASSUME NEW fp \in DOMAIN d.fin, Sound(d, fp)
      PROVE  /\ Sound(e, fp) /\ (InPlace(d, fp) => InPlace(e, fp))
             /\ e.fin[fp].rule = "new" /\ e.fin[fp].res = d.fin[fp].res /\ e.fin[fp].last = d.fin[fp].last
             /\ e.fin[fp].first = d.fin[fp].first /\ e.fin[fp].open = d.fin[fp].open
             /\ e.fin[fp].old = d.fin[fp].old /\ e.fin[fp].times = d.fin[fp].times
  <2>. DEFINE f == d.fin[fp]
              g == e.fin[fp]
  <2>1. f \in Finding /\ g = [f EXCEPT !.rule = "new"]
    BY <1>1 DEF Sound
  <2>2. /\ g \in Finding /\ g.rule = "new" /\ g.res = f.res /\ g.last = f.last /\ g.first = f.first
        /\ g.open = f.open /\ g.old = f.old /\ g.times = f.times /\ g.counted = f.counted /\ g.rowsScan = f.rowsScan
    BY <2>1 DEF Finding
  <2>3. Stale(g) <=> Stale(f)
    BY <2>2 DEF Stale
  <2>. HIDE DEF g
  <2>4. Sound(e, fp)
    BY <1>1, <2>2, <2>3 DEF Sound, g
  <2>5. InPlace(d, fp) => InPlace(e, fp)
    BY <2>2 DEF InPlace, g
  <2>. QED  BY <2>2, <2>4, <2>5 DEF g
<1>2. DOMAIN e.fin = DOMAIN d.fin
  OBVIOUS
<1>3. \A fp : OneTells(d, t, fp) => OneTells(e, t, fp)
  BY <1>1, <1>2 DEF OneTells
<1>4. ASSUME NEW earlier, NEW later, TwoTell(d, t, earlier, later) PROVE TwoTell(e, t, earlier, later)
  <2>1. earlier \in DOMAIN d.fin /\ later \in DOMAIN d.fin /\ Sound(d, earlier) /\ Sound(d, later)
    BY <1>4 DEF TwoTell
  <2>. QED  BY <1>1, <1>2, <1>4, <2>1 DEF TwoTell
<1>. QED  BY <1>3, <1>4 DEF Told

LEMMA AgeReferences ==
  ASSUME AgeInv, ScansInv', UNCHANGED truth, RenameReferences
  PROVE  AgeInv'
<1>. USE Ends, FindingSequence
<1>0. Shape(data) /\ ScansInv /\ TruthTyped(truth')
  BY DEF AgeInv, ScansInv
<1>1. at = 32 /\ at' = 33
  BY DEF RenameReferences, FDoes
<1>2. /\ data'.rows = data.rows /\ data'.marks = data.marks
      /\ data'.fin = [fp \in DOMAIN data.fin |-> [data.fin[fp] EXCEPT !.rule = "new"]]
      /\ data'.scans = [i \in DOMAIN data.scans |-> [data.scans[i] EXCEPT !.rule = "new"]]
  BY <1>0 DEF RenameReferences, Shape, Fields
<1>3. Alike(data, data')
  <2>1. Len(data'.scans) = Len(data.scans) /\ DOMAIN data'.scans = DOMAIN data.scans
    BY <1>0, <1>2, ScanTypes DEF ScansInv
  <2>2. ASSUME NEW i \in DOMAIN data.scans
        PROVE  LET s == data.scans[i]
                   r == data'.scans[i]
               IN  r.blob = s.blob /\ r.fp = s.fp /\ r.res = s.res /\ r.rule = "new" /\ r.recs = s.recs
    BY <1>0, <1>2, ScanTypes DEF Scans
  <2>. QED  BY <2>1, <2>2 DEF Alike
<1>4. CASE truth.split
  BY <1>0, <1>4, <1>1 DEF AgeInv
<1>5. CASE ~truth.split
  <2>1. Age(data, truth) /\ RuleBy(data, at, seen)
    BY <1>5 DEF AgeInv
  <2>2. \A fp \in DOMAIN data.fin : fp = Here \/ data.fin[fp].rule = "new"
    BY <1>1, <2>1 DEF RuleBy
  <2>3. Told(data, truth) => Told(data', truth)
    BY <1>2, <1>3, <2>2, RenamedTold DEF Alike
  <2>4. Unread(data', truth) <=> Unread(data, truth)
    BY <1>2 DEF Unread
  <2>5. DOMAIN data'.fin = DOMAIN data.fin
    BY <1>2
  <2>6. Age(data', truth)
    <3>1. CASE Unread(data, truth)
      <4>. DEFINE e == [data EXCEPT !.scans = data'.scans]
      <4>1. e.fin = data.fin /\ e.rows = data.rows /\ e.marks = data.marks /\ e.scans = data'.scans
        BY <1>0 DEF Shape, Fields
      <4>. HIDE DEF e
      <4>2. Alike(data, e)
        BY <1>3, <4>1 DEF Alike
      <4>3. Age(e, truth)
        BY <2>1, <4>1, <4>2, SameAge DEF SameMarks
      <4>4. InBlobs(e, truth)
        BY <3>1, <4>1, <4>3 DEF Age, Unread
      <4>5. InBlobs(data', truth)
        <5>1. DOMAIN data'.fin = {} /\ DOMAIN data'.rows = {}
          BY <1>2, <2>5, <4>1, <4>4 DEF InBlobs
        <5>. QED  BY <4>1, <4>4, <5>1 DEF InBlobs, IsFull
      <4>. QED  BY <2>4, <3>1, <4>5 DEF Age, Unread
    <3>2. CASE ~Unread(data, truth)
      <4>1. NoneTold(data', truth) \/ (truth.first # 0 /\ Told(data', truth))
        BY <2>1, <2>3, <2>5, <3>2 DEF Age, NoneTold
      <4>2. truth.cut /\ {"findings", "category"} \cap data'.marks = {} => HasScanLeftOut(data')
        BY <1>2, <1>3, <2>1, AlikeBlobs DEF Age
      <4>. QED  BY <2>4, <3>2, <4>1, <4>2 DEF Age
    <3>. QED  BY <3>1, <3>2
  <2>7. \A fp \in DOMAIN data'.fin : data'.fin[fp].rule = "new"
    <3>1. \A fp \in DOMAIN data.fin : data.fin[fp] \in Finding
      BY <2>1 DEF Age, InBlobs, NoneTold, Told, OneTells, TwoTell, Sound
    <3>. QED  BY <1>2, <3>1 DEF Finding
  <2>8. RuleBy(data', at', seen')
    BY <1>1, <2>7 DEF RuleBy
  <2>. QED  BY <1>0, <1>5, <1>1, <2>6, <2>8 DEF AgeInv
<1>. QED  BY <1>4, <1>5

-----------------------------------------------------------------------------
(* The rekey *)

Total(f, fps) == FoldFunctionOnSet(+, 0, f, fps)

\* The sum over one finding or two.
LEMMA SumOfTwo ==
  ASSUME NEW f, NEW a, NEW b, f[a] \in Nat, f[b] \in Nat
  PROVE  Total(f, {a, b}) = IF a = b THEN f[a] ELSE f[a] + f[b]
<1>. DEFINE pick(s) == CHOOSE x \in s : TRUE
            it == CHOOSE iter : iter = [s \in SUBSET {a, b} |-> IF s = {} THEN 0 ELSE f[pick(s)] + iter[s \ {pick(s)}]]
            part(x, s) == IF x \in s THEN f[x] ELSE 0
            g == [s \in SUBSET {a, b} |-> part(a, s) + (IF a = b THEN 0 ELSE part(b, s))]
<1>1. Total(f, {a, b}) = it[{a, b}]
  BY DEF Total, FoldFunctionOnSet, MapThenFoldSet
<1>2. ASSUME NEW s \in SUBSET {a, b}
      PROVE  g[s] = IF s = {} THEN 0 ELSE f[pick(s)] + g[s \ {pick(s)}]
  <2>1. CASE s = {}
    BY <2>1
  <2>2. CASE s # {}
    <3>1. pick(s) \in s
      BY <2>2
    <3>. DEFINE p == pick(s)
                u == s \ {p}
    <3>2. u \in SUBSET {a, b} /\ p \in {a, b} /\ p \in s
      BY <3>1
    <3>. HIDE DEF p
    <3>3. g[u] = part(a, u) + (IF a = b THEN 0 ELSE part(b, u)) /\ g[s] = part(a, s) + (IF a = b THEN 0 ELSE part(b, s))
      BY <3>2
    <3>4. g[s] = f[p] + g[u]
      <4>. HIDE DEF g
      <4>. QED  BY <3>2, <3>3
    <3>. HIDE DEF g, pick
    <3>. QED  BY <2>2, <3>4 DEF p
  <2>. HIDE DEF g, pick
  <2>. QED  BY <2>1, <2>2
<1>3. g = [s \in SUBSET {a, b} |-> IF s = {} THEN 0 ELSE f[pick(s)] + g[s \ {pick(s)}]]
  <2>1. g = [s \in SUBSET {a, b} |-> g[s]]
    OBVIOUS
  <2>. HIDE DEF g, pick
  <2>. QED  BY <1>2, <2>1
<1>4. it = [s \in SUBSET {a, b} |-> IF s = {} THEN 0 ELSE f[pick(s)] + it[s \ {pick(s)}]]
  <2>. HIDE DEF g, pick
  <2>. QED  BY <1>3
<1>5. \A s : s # {} => pick(s) \in s
  OBVIOUS
<1>6. \A s \in SUBSET {a, b} : it[s] = IF s = {} THEN 0 ELSE f[pick(s)] + it[s \ {pick(s)}]
  <2>. HIDE DEF it, pick
  <2>. QED  BY <1>4
<1>. HIDE DEF it, pick, g
<1>7. it[{}] = 0
  BY <1>6
<1>8. ASSUME NEW x \in {a, b} PROVE it[{x}] = f[x]
  <2>1. {x} \in SUBSET {a, b} /\ pick({x}) = x /\ {x} \ {x} = {}
    BY <1>5
  <2>. QED  BY <1>6, <1>7, <2>1
<1>9. CASE a = b
  <2>1. {a, b} = {a}
    BY <1>9
  <2>. QED  BY <1>1, <1>8, <1>9, <2>1
<1>10. a # b => it[{a, b}] = f[a] + f[b]
  <2>. SUFFICES ASSUME a # b PROVE it[{a, b}] = f[a] + f[b]
    OBVIOUS
  <2>. DEFINE p == pick({a, b})
  <2>1. p \in {a, b} /\ it[{a, b}] = f[p] + it[{a, b} \ {p}]
    BY <1>5, <1>6
  <2>2. CASE p = a
    <3>1. {a, b} \ {p} = {b}
      BY <2>2
    <3>. QED  BY <1>8, <2>1, <2>2, <3>1
  <2>3. CASE p = b
    <3>1. {a, b} \ {p} = {a}
      BY <2>3
    <3>2. it[{a, b}] = f[b] + f[a]
      BY <1>8, <2>1, <2>3, <3>1
    <3>. HIDE DEF p
    <3>. QED  BY <3>2
  <2>. QED  BY <2>1, <2>2, <2>3
<1>. QED  BY <1>1, <1>9, <1>10

LEMMA MinOfTwo ==
  ASSUME NEW a \in Nat, NEW b \in Nat, a <= b
  PROVE  Min({a, b}) = a
BY DEF Min

\* What the rekey makes of a group of findings.
Firsts(d, group) == {d.fin[x].first : x \in group}
TimesOf(d, group) == [x \in group |-> d.fin[x].times]
Merged(d, group, s) ==
    [d.fin[s] EXCEPT !.first = Min(Firsts(d, group)), !.times = Total(TimesOf(d, group), group)]
Renewed(f, group, s, next, v) == Put(Without(f, ((group \cup {next}) \ {s}) \cup {s}), next, v)

\* One round of the rekey, for the finding and its rows.
LEMMA RekeyTables ==
  ASSUME NEW d, Shape(d), NEW next
  PROVE  LET e == Rekey1(d, next)
             group == Group(d, next)
             s == Survivor(d, group)
             still == group = {} \/ (next \in DOMAIN d.fin /\ next \notin group)
         IN  /\ still => e.fin = d.fin /\ e.rows = d.rows
             /\ ~still => e.fin = Renewed(d.fin, group, s, next, Merged(d, group, s))
             /\ (~still /\ s \in DOMAIN d.rows) => e.rows = Renewed(d.rows, group, s, next, d.rows[s])
<1>. DEFINE e == Rekey1(d, next)
            group == Group(d, next)
            s == Survivor(d, group)
            gone == (group \cup {next}) \ {s}
            still == group = {} \/ (next \in DOMAIN d.fin /\ next \notin group)
            follow(fp) == IF fp \in group THEN next ELSE fp
            lone == \E r \in d.rules : Legacy(r, d.sup.res) = d.sup.fp /\ Current(r, d.sup.res) = next
<1>1. e = IF still THEN IF lone THEN [d EXCEPT !.sup.fp = next] ELSE d
          ELSE [d EXCEPT
                 !.fin = Put(Without(@, gone \cup {s}), next, Merged(d, group, s)),
                 !.rows = IF s \in DOMAIN @ THEN Put(Without(@, gone \cup {s}), next, @[s])
                          ELSE Without(@, gone),
                 !.event = follow(@),
                 !.sup.fp = IF @ \notin group /\ lone THEN next ELSE follow(@),
                 !.list = {follow(fp) : fp \in @}]
  BY DEF Rekey1, Total, Merged, Firsts, TimesOf
<1>. HIDE DEF e, group, s, lone, follow, still
<1>2. CASE still
  BY <1>1, <1>2 DEF Shape, Fields, still, e, group
<1>3. CASE ~still
  <2>. HIDE DEF gone
  <2>1. e.fin = Put(Without(d.fin, gone \cup {s}), next, Merged(d, group, s))
    BY <1>1, <1>3 DEF Shape, Fields
  <2>2. e.rows = IF s \in DOMAIN d.rows THEN Put(Without(d.rows, gone \cup {s}), next, d.rows[s]) ELSE Without(d.rows, gone)
    BY <1>1, <1>3 DEF Shape, Fields
  <2>3. e.fin = Renewed(d.fin, group, s, next, Merged(d, group, s))
    BY <2>1 DEF Renewed, gone
  <2>4. s \in DOMAIN d.rows => e.rows = Renewed(d.rows, group, s, next, d.rows[s])
    BY <2>2 DEF Renewed, gone
  <2>. QED  BY <1>3, <2>3, <2>4 DEF still, e, group, s
<1>. QED  BY <1>2, <1>3

LEMMA SurvivorIs ==
  ASSUME NEW d, NEW a, NEW b, d.fin[a] \in Finding, d.fin[b] \in Finding, a = b \/ d.fin[a].last < d.fin[b].last
  PROVE  Survivor(d, {a, b}) = b
<1>. DEFINE Best(fp) == \A x \in {a, b} :
                \/ d.fin[fp].last > d.fin[x].last
                \/ d.fin[fp].last = d.fin[x].last /\ (d.fin[fp].open \/ ~d.fin[x].open)
<1>1. Survivor(d, {a, b}) = CHOOSE fp \in {a, b} : Best(fp)
  BY DEF Survivor
<1>2. d.fin[a].last \in Nat /\ d.fin[b].last \in Nat /\ d.fin[b].open \in BOOLEAN
  BY DEF Finding
<1>3. Best(b)
  BY <1>2
<1>4. \A fp \in {a, b} : Best(fp) => fp = b
  BY <1>2
<1>. HIDE DEF Best
<1>. QED  BY <1>1, <1>3, <1>4

\* The spellings of a finding merge into one under today's name.
LEMMA MergedTells ==
  ASSUME NEW d, Shape(d), NEW t, NEW a \in DOMAIN d.fin, NEW b \in DOMAIN d.fin,
         DOMAIN d.fin = {a, b}, Group(d, Here) = {a, b}, a = b \/ d.fin[a].last < d.fin[b].last,
         Sound(d, a), Sound(d, b), d.fin[a].first <= d.fin[b].first,
         d.fin[a].first = t.first, d.fin[b].open = t.open, d.fin[b].old = t.rows, d.fin[b].rule = "new",
         "category" \notin d.marks =>
            t.times = IF a = b THEN d.fin[a].times ELSE d.fin[a].times + d.fin[b].times
  PROVE  LET e == Rekey1(d, Here) IN OneTells(e, t, Here) /\ e.fin[Here].rule = "new"
<1>. DEFINE e == Rekey1(d, Here)
            f == d.fin[b]
            g == e.fin[Here]
            times == TimesOf(d, {a, b})
            sum == Total(times, {a, b})
            min == Min(Firsts(d, {a, b}))
<1>1. d.fin[a] \in Finding /\ f \in Finding
  BY DEF Sound
<1>2. Survivor(d, {a, b}) = b
  BY <1>1, SurvivorIs
<1>. DEFINE group == Group(d, Here)
            s == Survivor(d, group)
<1>3. /\ e.fin = Renewed(d.fin, group, s, Here, Merged(d, group, s))
      /\ s \in DOMAIN d.rows => e.rows = Renewed(d.rows, group, s, Here, d.rows[s])
  <2>1. ~(group = {} \/ (Here \in DOMAIN d.fin /\ Here \notin group))
    OBVIOUS
  <2>. QED  BY <2>1, RekeyTables
<1>4. group = {a, b} /\ s = b
  <2>1. group = {a, b}
    OBVIOUS
  <2>. HIDE DEF group
  <2>. QED  BY <1>2, <2>1
<1>. HIDE DEF group, s, e
<1>5. e.fin = Renewed(d.fin, {a, b}, b, Here, Merged(d, {a, b}, b))
  BY <1>3, <1>4
<1>6. b \in DOMAIN d.rows => e.rows = Renewed(d.rows, {a, b}, b, Here, d.rows[b])
  BY <1>3, <1>4
<1>7. sum = IF a = b THEN d.fin[a].times ELSE d.fin[a].times + f.times
  <2>1. times[a] = d.fin[a].times /\ times[b] = f.times
    BY DEF TimesOf
  <2>2. times[a] \in Nat /\ times[b] \in Nat
    BY <1>1, <2>1 DEF Finding
  <2>3. Total(times, {a, b}) = IF a = b THEN times[a] ELSE times[a] + times[b]
    <3>. HIDE DEF times
    <3>. QED  BY ONLY <2>2, SumOfTwo
  <2>. HIDE DEF times
  <2>. QED  BY <2>1, <2>3
<1>8. min = t.first
  <2>1. Firsts(d, {a, b}) = {d.fin[a].first, f.first}
    BY DEF Firsts
  <2>2. d.fin[a].first \in Nat /\ f.first \in Nat
    BY <1>1 DEF Finding
  <2>. QED  BY <2>1, <2>2, MinOfTwo
<1>9. DOMAIN e.fin = {Here} /\ g = [f EXCEPT !.first = min, !.times = sum]
  BY <1>5 DEF Renewed, Put, Without, Restrict, Merged
<1>. HIDE DEF sum, min, times
<1>10. min \in Nat /\ sum \in Nat
  BY <1>1, <1>7, <1>8 DEF Finding
<1>11. /\ g \in Finding /\ g.rule = "new" /\ g.last = f.last /\ g.first = t.first
       /\ g.open = f.open /\ g.old = f.old /\ g.times = sum /\ g.counted = f.counted /\ g.rowsScan = f.rowsScan
  BY <1>1, <1>8, <1>9, <1>10 DEF Finding
<1>12. e.scans = d.scans /\ e.marks = d.marks
  BY Rekey1Keeps DEF Keeps, e
<1>13. b \in DOMAIN d.rows => Here \in DOMAIN e.rows /\ e.rows[Here] = d.rows[b]
  BY <1>6 DEF Put, Renewed
<1>. HIDE DEF g
<1>14. Sound(e, Here)
  <2>1. Stale(g) <=> Stale(f)
    BY <1>11 DEF Stale
  <2>2. Stale(g) \/ (Here \in DOMAIN e.rows /\ e.rows[Here] = g.old)
    BY <1>11, <1>13, <2>1 DEF Sound
  <2>3. g.last <= Len(e.scans) /\ g.rowsScan <= g.last
    BY <1>11, <1>12 DEF Sound
  <2>. QED  BY <1>11, <2>2, <2>3 DEF Sound, g
<1>15. "category" \notin e.marks => g.times = t.times
  BY <1>7, <1>11, <1>12
<1>16. OneTells(e, t, Here)
  BY <1>9, <1>11, <1>14, <1>15 DEF OneTells, InPlace, g
<1>. QED  BY <1>11, <1>16 DEF e, g

LEMMA GroupOf ==
  ASSUME NEW d, \A fp \in DOMAIN d.fin : d.fin[fp].rule = "new"
  PROVE  /\ Group(d, Current("old", "lower")) = {}
         /\ Group(d, Here) = {fp \in DOMAIN d.fin : fp = Legacy("new", d.fin[fp].res)}
<1>1. \A res : Current("new", res) = Here /\ Current("new", res) # Current("old", "lower")
  BY PairNames
<1>. QED  BY <1>1 DEF Group

\* The second round, over a finding of this release's rule.
LEMMA RoundTells ==
  ASSUME NEW d, Shape(d), NEW t, t.first \in Nat, Told(d, t), "rekeyed" \notin d.marks,
         \A fp \in DOMAIN d.fin : d.fin[fp].rule = "new"
  PROVE  LET e == Rekey1(d, Here) IN OneTells(e, t, Here) /\ e.fin[Here].rule = "new"
<1>. DEFINE group == {fp \in DOMAIN d.fin : fp = Legacy("new", d.fin[fp].res)}
<1>0. Group(d, Here) = group
  BY GroupOf
<1>1. ASSUME NEW fp \in Fp, OneTells(d, t, fp), fp = Legacy("new", d.fin[fp].res)
      PROVE  LET e == Rekey1(d, Here) IN OneTells(e, t, Here) /\ e.fin[Here].rule = "new"
  <2>1. group = {fp, fp} /\ DOMAIN d.fin = {fp, fp}
    BY <1>1 DEF OneTells
  <2>2. d.fin[fp].first <= d.fin[fp].first
    BY <1>1 DEF OneTells
  <2>3. Group(d, Here) = {fp, fp}
    BY <1>0, <2>1
  <2>. HIDE DEF group
  <2>. QED  BY <1>1, <2>1, <2>2, <2>3, MergedTells DEF OneTells
<1>2. ASSUME NEW fp \in Fp, OneTells(d, t, fp), fp # Legacy("new", d.fin[fp].res)
      PROVE  LET e == Rekey1(d, Here) IN OneTells(e, t, Here) /\ e.fin[Here].rule = "new"
  <2>. DEFINE e == Rekey1(d, Here)
  <2>1. fp = Here /\ DOMAIN d.fin = {Here}
    BY <1>2 DEF OneTells, InPlace
  <2>2. Group(d, Here) = {}
    BY <1>0, <1>2, <2>1
  <2>3. e.fin = d.fin /\ e.rows = d.rows
    BY <2>2, RekeyTables
  <2>4. e.scans = d.scans /\ e.marks = d.marks
    BY Rekey1Keeps DEF Keeps
  <2>. HIDE DEF e
  <2>5. OneTells(e, t, Here)
    BY <1>2, <2>1, <2>3, <2>4 DEF OneTells, Sound, InPlace
  <2>. QED  BY <2>1, <2>3, <2>5 DEF e
<1>3. ASSUME NEW a \in Fp, NEW b \in Fp, TwoTell(d, t, a, b)
      PROVE  LET e == Rekey1(d, Here) IN OneTells(e, t, Here) /\ e.fin[Here].rule = "new"
  <2>1. DOMAIN d.fin = {a, b} /\ a # b
    BY <1>3 DEF TwoTell
  <2>2. group = {a, b}
    BY <1>3, <2>1 DEF TwoTell
  <2>3. Group(d, Here) = {a, b}
    BY <1>0, <2>2
  <2>4. /\ Sound(d, a) /\ Sound(d, b) /\ d.fin[a].first <= d.fin[b].first
        /\ d.fin[a].first = t.first /\ d.fin[b].open = t.open /\ d.fin[b].old = t.rows /\ d.fin[b].rule = "new"
        /\ d.fin[a].last < d.fin[b].last
        /\ "category" \notin d.marks => t.times = d.fin[a].times + d.fin[b].times
    BY <1>3 DEF TwoTell
  <2>5. a \in DOMAIN d.fin /\ b \in DOMAIN d.fin
    BY <2>1
  <2>. HIDE DEF group
  <2>. QED  BY <2>1, <2>3, <2>4, <2>5, MergedTells
<1>. QED  BY <1>1, <1>2, <1>3 DEF Told

LEMMA RekeyingTells ==
  ASSUME NEW d, Shape(d), NEW t, t.first \in Nat, Age(d, t), "rekeyed" \notin d.marks,
         \A fp \in DOMAIN d.fin : d.fin[fp].rule = "new"
  PROVE  LET e == Rekeying(d) IN Age(e, t) /\ \A fp \in DOMAIN e.fin : e.fin[fp].rule = "new"
<1>. DEFINE one == Rekey1(d, Current("old", "lower"))
            two == Rekey1(one, Here)
            e == Rekeying(d)
<1>. SUFFICES Age(e, t) /\ \A fp \in DOMAIN e.fin : e.fin[fp].rule = "new"
  OBVIOUS
<1>1. Shape(one) /\ one.scans = d.scans /\ one.marks = d.marks /\ one.fin = d.fin /\ one.rows = d.rows
  BY GroupOf, Rekey1Keeps, RekeyTables DEF Keeps
<1>2. Shape(two) /\ two.scans = d.scans /\ two.marks = d.marks
  BY <1>1, Rekey1Keeps DEF Keeps
<1>3. e.fin = two.fin /\ e.rows = two.rows /\ e.scans = d.scans /\ e.marks = d.marks \cup {"rekeyed"}
  <2>1. e = [two EXCEPT !.marks = @ \cup {"rekeyed"}]
    BY DEF Rekeying, Here
  <2>. HIDE DEF e, two
  <2>. QED  BY <1>2, <2>1 DEF Shape, Fields
<1>. HIDE DEF e, two
<1>4. /\ Unread(e, t) <=> Unread(d, t)
      /\ t.cut /\ {"findings", "category"} \cap e.marks = {} => HasScanLeftOut(e)
  BY <1>3 DEF Unread, Age, HasScanLeftOut
<1>5. CASE DOMAIN d.fin = {}
  <2>1. Group(one, Here) = {}
    BY <1>1, <1>5 DEF Group
  <2>2. two.fin = d.fin /\ two.rows = d.rows
    BY <1>1, <2>1, RekeyTables DEF two
  <2>3. ~Told(d, t)
    BY <1>5 DEF Told, OneTells, TwoTell
  <2>4. IF Unread(d, t) THEN InBlobs(d, t) ELSE NoneTold(d, t)
    BY <2>3 DEF Age
  <2>5. IF Unread(e, t) THEN InBlobs(e, t) ELSE NoneTold(e, t)
    BY <1>3, <1>4, <2>2, <2>4 DEF InBlobs, NoneTold, IsFull
  <2>. QED  BY <1>3, <1>4, <1>5, <2>2, <2>5 DEF Age
<1>6. CASE DOMAIN d.fin # {}
  <2>1. ~Unread(d, t) /\ t.first # 0 /\ Told(d, t)
    BY <1>6 DEF Age, InBlobs, NoneTold
  <2>2. Told(one, t)
    BY <1>1, <2>1, SameTold
  <2>3. OneTells(two, t, Here) /\ two.fin[Here].rule = "new"
    BY <1>1, <2>2, RoundTells DEF two
  <2>4. OneTells(e, t, Here)
    BY <1>2, <1>3, <2>3 DEF OneTells, Sound, InPlace
  <2>5. Here \in Fp
    BY DEF Here, Current, Fp
  <2>6. Told(e, t) /\ DOMAIN e.fin = {Here}
    BY <2>4, <2>5 DEF Told, OneTells
  <2>. QED  BY <1>3, <1>4, <2>1, <2>3, <2>6 DEF Age
<1>. QED  BY <1>5, <1>6

LEMMA AgeRekeyed ==
  ASSUME AgeInv, ScansInv', UNCHANGED truth, RekeyFingerprintCase
  PROVE  AgeInv'
<1>. USE Ends, FindingSequence
<1>0. Shape(data) /\ TruthTyped(truth')
  BY DEF AgeInv, ScansInv
<1>1. at = 33 /\ at' = 34 /\ (data' = data \/ data' = Rekeying(data))
  BY DEF RekeyFingerprintCase, OwnTransaction, FDoes
<1>2. CASE data' = data
  <2>1. data'.fin = data.fin /\ data'.rows = data.rows /\ SameMarks(data, data') /\ Alike(data, data')
    BY <1>2, SelfAlike DEF SameMarks
  <2>2. /\ at' \in 0..Back /\ at' # Back /\ at \in 33..Back /\ at' >= 33 /\ at' \notin 35..41
    BY <1>1
  <2>. QED  BY <2>1, <2>2, AgeStays
<1>3. CASE "rekeyed" \in data.marks
  <2>1. data' = data
    BY <1>1, <1>3 DEF Rekeying
  <2>. QED  BY <1>2, <2>1
<1>4. CASE data' = Rekeying(data) /\ "rekeyed" \notin data.marks
  <2>1. ASSUME ~truth.split PROVE Age(data', truth) /\ RuleBy(data', at', seen')
    <3>1. Age(data, truth) /\ RuleBy(data, at, seen) /\ truth.first \in Nat
      BY <2>1 DEF AgeInv, TruthTyped
    <3>2. \A fp \in DOMAIN data.fin : data.fin[fp].rule = "new"
      BY <1>1, <3>1 DEF RuleBy
    <3>3. Age(data', truth) /\ \A fp \in DOMAIN data'.fin : data'.fin[fp].rule = "new"
      BY <1>0, <1>4, <3>1, <3>2, RekeyingTells
    <3>. QED  BY <1>1, <3>3 DEF RuleBy
  <2>2. ScansInv' /\ at' \in 0..Back /\ at' # Back /\ at' \notin 35..41 /\ truth' = truth
    BY <1>1
  <2>. QED  BY <1>0, <2>1, <2>2 DEF AgeInv
<1>. QED  BY <1>1, <1>2, <1>3, <1>4

-----------------------------------------------------------------------------
(* The copy of the rows *)

ToCopy(d) == {fp \in DOMAIN d.fin : "copied" \in d.marks => Stale(d.fin[fp])}

LEMMA CopyTables ==
  ASSUME NEW d, Shape(d)
  PROVE  LET e == CopyingRows(d)
         IN  /\ DOMAIN e.rows = (DOMAIN d.rows \cap DOMAIN d.fin) \cup ToCopy(d)
             /\ \A fp \in DOMAIN e.rows : e.rows[fp] = IF fp \in ToCopy(d) THEN d.fin[fp].old ELSE d.rows[fp]
             /\ DOMAIN e.fin = DOMAIN d.fin
             /\ \A fp \in DOMAIN d.fin : e.fin[fp] = IF fp \in ToCopy(d)
                           THEN [d.fin[fp] EXCEPT !.counted = TRUE, !.rowsScan = d.fin[fp].last]
                           ELSE d.fin[fp]
<1>. DEFINE e == CopyingRows(d)
            plan == {fp \in DOMAIN d.fin : "copied" \in d.marks => Stale(d.fin[fp])}
<1>1. /\ e.rows = [fp \in (DOMAIN d.rows \cap DOMAIN d.fin) \cup plan |-> IF fp \in plan THEN d.fin[fp].old ELSE d.rows[fp]]
      /\ e.fin = [fp \in DOMAIN d.fin |-> IF fp \in plan
                    THEN [d.fin[fp] EXCEPT !.counted = TRUE, !.rowsScan = d.fin[fp].last]
                    ELSE d.fin[fp]]
  BY DEF CopyingRows, Shape, Fields
<1>2. plan = ToCopy(d)
  BY DEF ToCopy
<1>. HIDE DEF e, plan
<1>3. /\ DOMAIN e.rows = (DOMAIN d.rows \cap DOMAIN d.fin) \cup plan
      /\ \A fp \in DOMAIN e.rows : e.rows[fp] = IF fp \in plan THEN d.fin[fp].old ELSE d.rows[fp]
      /\ DOMAIN e.fin = DOMAIN d.fin
      /\ \A fp \in DOMAIN d.fin : e.fin[fp] = IF fp \in plan
                    THEN [d.fin[fp] EXCEPT !.counted = TRUE, !.rowsScan = d.fin[fp].last]
                    ELSE d.fin[fp]
  BY <1>1
<1>. QED  BY <1>2, <1>3 DEF e

LEMMA CopiedFinding ==
  ASSUME NEW d, Shape(d), NEW fp \in DOMAIN d.fin, Sound(d, fp), d.fin[fp].rule = "new"
  PROVE  LET e == CopyingRows(d)
             f == d.fin[fp]
             g == e.fin[fp]
         IN  /\ Sound(e, fp) /\ (InPlace(d, fp) => InPlace(e, fp))
             /\ g.rule = "new" /\ g.res = f.res /\ g.last = f.last /\ g.first = f.first
             /\ g.open = f.open /\ g.old = f.old /\ g.times = f.times
             /\ fp \in DOMAIN e.rows /\ e.rows[fp] = g.old
<1>. DEFINE e == CopyingRows(d)
            f == d.fin[fp]
            g == e.fin[fp]
<1>1. /\ DOMAIN e.rows = (DOMAIN d.rows \cap DOMAIN d.fin) \cup ToCopy(d)
      /\ fp \in DOMAIN e.rows => e.rows[fp] = IF fp \in ToCopy(d) THEN f.old ELSE d.rows[fp]
      /\ g = IF fp \in ToCopy(d) THEN [f EXCEPT !.counted = TRUE, !.rowsScan = f.last] ELSE f
  BY CopyTables
<1>2. e.scans = d.scans /\ e.marks = d.marks \cup {"copied"}
  BY CopyingKeeps DEF Keeps
<1>3. f \in Finding /\ f.last <= Len(d.scans) /\ f.rowsScan <= f.last /\ f.rule = "new"
  BY DEF Sound
<1>4. fp \notin ToCopy(d) => fp \in DOMAIN d.rows /\ d.rows[fp] = f.old
  BY DEF Sound, ToCopy
<1>. HIDE DEF e, g
<1>5. /\ g \in Finding /\ g.rule = "new" /\ g.res = f.res /\ g.last = f.last /\ g.first = f.first
      /\ g.open = f.open /\ g.old = f.old /\ g.times = f.times /\ g.rowsScan <= g.last
  <2>1. CASE fp \in ToCopy(d)
    <3>1. g = [f EXCEPT !.counted = TRUE, !.rowsScan = f.last]
      BY <1>1, <2>1
    <3>2. f.last \in Nat
      BY <1>3 DEF Finding
    <3>. HIDE DEF f
    <3>3. DOMAIN f = {"rule", "res", "old", "counted", "rowsScan", "last", "first", "times", "open"}
      BY <1>3 DEF Finding
    <3>4. g \in Finding
      BY <1>3, <3>1, <3>2 DEF Finding
    <3>5. /\ g.rule = f.rule /\ g.res = f.res /\ g.last = f.last /\ g.first = f.first
          /\ g.open = f.open /\ g.old = f.old /\ g.times = f.times /\ g.rowsScan = f.last
      BY <3>1, <3>3
    <3>. QED  BY <1>3, <3>2, <3>4, <3>5
  <2>2. CASE fp \notin ToCopy(d)
    BY <1>1, <1>3, <2>2
  <2>. QED  BY <2>1, <2>2
<1>6. fp \in DOMAIN e.rows /\ e.rows[fp] = g.old
  <2>. HIDE DEF f
  <2>. QED  BY <1>1, <1>4, <1>5
<1>7. Sound(e, fp) /\ (InPlace(d, fp) => InPlace(e, fp))
  BY <1>2, <1>3, <1>5, <1>6 DEF Sound, InPlace, g
<1>. QED  BY <1>5, <1>6, <1>7 DEF e, g

LEMMA CopiedTells ==
  ASSUME NEW d, Shape(d), NEW t, Age(d, t), \A fp \in DOMAIN d.fin : d.fin[fp].rule = "new"
  PROVE  LET e == CopyingRows(d)
         IN  Age(e, t) /\ RowsAgree(e) /\ \A fp \in DOMAIN e.fin : e.fin[fp].rule = "new"
<1>. DEFINE e == CopyingRows(d)
<1>. SUFFICES Age(e, t) /\ RowsAgree(e) /\ \A fp \in DOMAIN e.fin : e.fin[fp].rule = "new"
  OBVIOUS
<1>1. DOMAIN e.fin = DOMAIN d.fin /\ DOMAIN e.rows = (DOMAIN d.rows \cap DOMAIN d.fin) \cup ToCopy(d)
  BY CopyTables
<1>2. e.scans = d.scans /\ e.marks = d.marks \cup {"copied"}
  BY CopyingKeeps DEF Keeps
<1>3. \A fp \in DOMAIN d.fin : Sound(d, fp)
  BY DEF Age, InBlobs, NoneTold, Told, OneTells, TwoTell
<1>4. ASSUME NEW fp \in DOMAIN d.fin
      PROVE  LET f == d.fin[fp]
                 g == e.fin[fp]
             IN  /\ Sound(e, fp) /\ (InPlace(d, fp) => InPlace(e, fp))
                 /\ g.rule = "new" /\ g.res = f.res /\ g.last = f.last /\ g.first = f.first
                 /\ g.open = f.open /\ g.old = f.old /\ g.times = f.times
                 /\ fp \in DOMAIN e.rows /\ e.rows[fp] = g.old
  BY <1>3, CopiedFinding
<1>. HIDE DEF e
<1>5. RowsAgree(e)
  BY <1>1, <1>4 DEF RowsAgree, ToCopy
<1>6. /\ Unread(e, t) <=> Unread(d, t)
      /\ t.cut /\ {"findings", "category"} \cap e.marks = {} => HasScanLeftOut(e)
  BY <1>2 DEF Unread, Age, HasScanLeftOut
<1>7. \A fp : OneTells(d, t, fp) => OneTells(e, t, fp)
  BY <1>1, <1>2, <1>4 DEF OneTells
<1>8. ASSUME NEW a, NEW b, TwoTell(d, t, a, b) PROVE TwoTell(e, t, a, b)
  <2>1. a \in DOMAIN d.fin /\ b \in DOMAIN d.fin
    BY <1>8 DEF TwoTell
  <2>. QED  BY <1>1, <1>2, <1>4, <1>8, <2>1 DEF TwoTell
<1>9. Told(d, t) => Told(e, t)
  BY <1>7, <1>8 DEF Told
<1>10. CASE Unread(d, t)
  <2>1. InBlobs(d, t)
    BY <1>10 DEF Age
  <2>2. ToCopy(d) = {}
    BY <2>1 DEF InBlobs, ToCopy
  <2>3. DOMAIN e.fin = {} /\ DOMAIN e.rows = {}
    BY <1>1, <2>1, <2>2 DEF InBlobs
  <2>4. InBlobs(e, t)
    BY <1>2, <2>1, <2>3 DEF InBlobs, IsFull
  <2>. QED  BY <1>4, <1>5, <1>6, <1>10, <2>3, <2>4 DEF Age
<1>11. CASE ~Unread(d, t)
  BY <1>1, <1>4, <1>5, <1>6, <1>9, <1>11 DEF Age, NoneTold
<1>. QED  BY <1>10, <1>11

LEMMA AgeCopied ==
  ASSUME AgeInv, ScansInv', UNCHANGED truth, CopyFindingRows
  PROVE  AgeInv'
<1>. USE Ends, FindingSequence
<1>0. Shape(data) /\ TruthTyped(truth')
  BY DEF AgeInv, ScansInv
<1>1. /\ at = 34 /\ at' = 35
      /\ data' = CopyingRows(data) \/ (data' = data /\ failed' = failed \cup {"copyRows"})
  BY DEF CopyFindingRows, OwnTransaction, FDoes
<1>2. CASE data' = data /\ failed' = failed \cup {"copyRows"}
  <2>1. data'.fin = data.fin /\ data'.rows = data.rows /\ SameMarks(data, data') /\ Alike(data, data')
    BY <1>2, SelfAlike DEF SameMarks
  <2>2. at' \in 0..Back /\ at' # Back /\ at \in 33..Back /\ at' >= 33 /\ "copyRows" \in failed'
    BY <1>1, <1>2
  <2>. QED  BY <2>1, <2>2, AgeStays
<1>3. CASE data' = CopyingRows(data)
  <2>1. ASSUME ~truth.split PROVE Age(data', truth) /\ RuleBy(data', at', seen') /\ RowsAgree(data')
    <3>1. Age(data, truth) /\ RuleBy(data, at, seen)
      BY <2>1 DEF AgeInv
    <3>2. \A fp \in DOMAIN data.fin : data.fin[fp].rule = "new"
      BY <1>1, <3>1 DEF RuleBy
    <3>3. Age(data', truth) /\ RowsAgree(data') /\ \A fp \in DOMAIN data'.fin : data'.fin[fp].rule = "new"
      BY <1>0, <1>3, <3>1, <3>2, CopiedTells
    <3>. QED  BY <1>1, <3>3 DEF RuleBy
  <2>2. ScansInv' /\ at' \in 0..Back /\ at' # Back /\ truth' = truth
    BY <1>1
  <2>. QED  BY <1>0, <2>1, <2>2 DEF AgeInv
<1>. QED  BY <1>1, <1>2, <1>3

-----------------------------------------------------------------------------
(* The replay of the history *)

\* What no step changes is at the end what it was.
LEMMA NothingMoves ==
  ASSUME NEW f, NEW n \in Nat, NEW m \in 0..n, \A i \in (m + 1)..n : f[i - 1] = f[m] => f[i] = f[m]
  PROVE  f[n] = f[m]
<1>. DEFINE moved == {i \in m..n : f[i] # f[m]}
            less == OpToRel(<, Nat)
<1>. SUFFICES ASSUME f[n] # f[m] PROVE FALSE
  OBVIOUS
<1>1. moved \subseteq Nat /\ moved # {}
  BY DEF moved
<1>2. IsWellFoundedOn(less, Nat)
  BY NatLessThanWellFounded
<1>3. \A u, v \in Nat : u < v => <<u, v>> \in less
  BY DEF OpToRel
<1>. HIDE DEF less
<1>4. PICK i \in moved : \A j \in moved : ~(<<j, i>> \in less)
  <2>. HIDE DEF moved
  <2>. QED  BY <1>1, <1>2, WFMin
<1>5. i - 1 \in m..n /\ i - 1 < i /\ i - 1 \in Nat /\ i \in Nat /\ i \in (m + 1)..n
  BY <1>4
<1>6. i - 1 \in moved
  BY <1>4, <1>5
<1>. QED  BY <1>3, <1>4, <1>5, <1>6

\* The blob of an older release's scan that saw the finding.
OldBlob(s) == s.blob = "full" /\ s.rule = "new" /\ s.res = "lower" /\ s.fp = Here

HasFields(d) == d = [x \in Fields |-> d[x]]

\* One stored scan of this release's finding, replayed.
LEMMA ReplayedOne ==
  ASSUME NEW d, HasFields(d), NEW i \in Nat, OldBlob(d.scans[i]),
         DOMAIN d.fin \subseteq {Here}, DOMAIN d.rows \subseteq {Here},
         NEW first, first = IF Here \in DOMAIN d.fin THEN d.fin[Here].first ELSE i,
         NEW times, times = IF Here \in DOMAIN d.fin THEN d.fin[Here].times + 1 ELSE 1
  PROVE  LET e == Replayed(d, i)
         IN  /\ HasFields(e) /\ e.scans = d.scans
             /\ DOMAIN e.fin = {Here} /\ DOMAIN e.rows = {Here} /\ e.rows[Here] = i
             /\ e.fin[Here] = [rule |-> "new", res |-> "lower", old |-> i, counted |-> TRUE, rowsScan |-> i, last |-> i,
                               first |-> first, times |-> times, open |-> TRUE]
<1>. DEFINE e == Replayed(d, i)
            f == [rule |-> "new", res |-> "lower", old |-> i, counted |-> TRUE, rowsScan |-> i, last |-> i,
                  first |-> first, times |-> times, open |-> TRUE]
            closed == [fp \in DOMAIN d.fin |-> [d.fin[fp] EXCEPT !.open = @ /\ d.fin[fp].rule # "new"]]
<1>1. e = [d EXCEPT !.fin = Put(closed, Here, f), !.rows = Put(@, Here, i)]
  BY DEF Replayed, OldBlob
<1>2. DOMAIN closed = DOMAIN d.fin
  OBVIOUS
<1>. HIDE DEF closed, f, e
<1>3. HasFields(e) /\ e.scans = d.scans /\ e.fin = Put(closed, Here, f) /\ e.rows = Put(d.rows, Here, i)
  BY <1>1 DEF Fields, HasFields
<1>4. DOMAIN e.fin = {Here} /\ e.fin[Here] = f /\ DOMAIN e.rows = {Here} /\ e.rows[Here] = i
  BY <1>2, <1>3 DEF Put
<1>. QED  BY <1>3, <1>4 DEF e, f

LEMMA ReplayedNone ==
  \A d, i : d.scans[i].blob # "full" => Replayed(d, i) = d
BY DEF Replayed

\* All of the history is two blobs of an older release, and empty ones.
LEMMA ReplayStart ==
  ASSUME NEW d, NEW n \in Nat, n = Len(d.scans), n >= 2, History(d) = 1..n,
         Replayed(Replayed(d, 1), 2).scans = d.scans,
         \A i \in 3..n : d.scans[i].blob # "full"
  PROVE  Replays(d)[n] = Replayed(Replayed(d, 1), 2)
<1>. DEFINE history == History(d)
            one == Replayed(d, 1)
            two == Replayed(one, 2)
            replay == Replays(d)
            g == [i \in 0..n |-> IF i = 0 THEN d ELSE IF i = 1 THEN one ELSE two]
<1>1. replay = CHOOSE f : f = [i \in 0..n |-> IF i = 0 THEN d
                        ELSE IF i \in history THEN Replayed(f[i - 1], i) ELSE f[i - 1]]
  BY DEF Replays
<1>2. ASSUME NEW i \in 0..n
      PROVE  g[i] = IF i = 0 THEN d ELSE IF i \in history THEN Replayed(g[i - 1], i) ELSE g[i - 1]
  <2>1. CASE i = 0
    BY <2>1
  <2>2. CASE i = 1
    <3>1. g[1] = one /\ g[0] = d /\ 1 \in history
      BY <2>2
    <3>. QED  BY <2>2, <3>1
  <2>3. CASE i = 2
    <3>1. g[2] = two /\ g[1] = one /\ 2 \in history
      BY <2>3
    <3>. QED  BY <2>3, <3>1
  <2>4. CASE i > 2
    <3>1. g[i] = two /\ g[i - 1] = two /\ i \in history /\ i \in 3..n
      BY <2>4
    <3>2. two.scans[i].blob # "full"
      BY <3>1
    <3>3. Replayed(two, i) = two
      BY <3>2, ReplayedNone
    <3>. HIDE DEF g, two
    <3>. QED  BY <2>4, <3>1, <3>3
  <2>. QED  BY <2>1, <2>2, <2>3, <2>4
<1>3. g = [i \in 0..n |-> g[i]]
  OBVIOUS
<1>. HIDE DEF g, history
<1>4. g = [i \in 0..n |-> IF i = 0 THEN d ELSE IF i \in history THEN Replayed(g[i - 1], i) ELSE g[i - 1]]
  BY <1>2, <1>3
<1>5. replay = [i \in 0..n |-> IF i = 0 THEN d ELSE IF i \in history THEN Replayed(replay[i - 1], i) ELSE replay[i - 1]]
  <2>. HIDE DEF replay
  <2>. QED  BY <1>1, <1>4
<1>. HIDE DEF replay
<1>6. \A i \in 0..n : replay[i] = IF i = 0 THEN d ELSE IF i \in history THEN Replayed(replay[i - 1], i) ELSE replay[i - 1]
  BY <1>5
<1>7. history = 1..n
  BY DEF history
<1>8. replay[0] = d
  BY <1>6
<1>9. replay[1] = one
  BY <1>6, <1>7, <1>8
<1>10. replay[2] = two
  BY <1>6, <1>7, <1>9
<1>11. ASSUME NEW i \in 3..n, replay[i - 1] = replay[2] PROVE replay[i] = replay[2]
  <2>1. i \in 0..n /\ i # 0 /\ i \in history
    BY <1>7
  <2>2. replay[i] = Replayed(two, i)
    BY <1>6, <1>10, <1>11, <2>1
  <2>3. two.scans[i].blob # "full"
    OBVIOUS
  <2>. HIDE DEF two
  <2>. QED  BY <1>10, <2>2, <2>3, ReplayedNone
<1>12. 2 \in 0..n /\ 2 + 1 = 3
  OBVIOUS
<1>. HIDE DEF two, one
<1>13. replay[n] = replay[2]
  <2>1. \A i \in (2 + 1)..n : replay[i - 1] = replay[2] => replay[i] = replay[2]
    BY <1>11, <1>12
  <2>. QED  BY ONLY n \in Nat, <1>12, <2>1, NothingMoves
<1>. QED  BY <1>10, <1>13 DEF replay, one, two

\* The tables once the blobs are replayed.
Retold(d, t, r) ==
    LET f == r.fin[Here]
    IN  /\ HasFields(r) /\ r.scans = d.scans
        /\ DOMAIN r.fin = {Here} /\ DOMAIN r.rows = {Here} /\ r.rows[Here] = t.rows
        /\ f \in Finding /\ f.rule = "new" /\ f.first = t.first /\ f.old = t.rows
        /\ f.last = t.rows /\ f.rowsScan = t.rows /\ f.open = TRUE

\* Before the replay of a blob: nothing yet, or the finding from an earlier one.
Before(d, t, i) ==
    \/ DOMAIN d.fin = {} /\ DOMAIN d.rows = {} /\ t.first = i
    \/ DOMAIN d.fin = {Here} /\ DOMAIN d.rows = {Here} /\ d.fin[Here] \in Finding /\ d.fin[Here].first = t.first

LEMMA ReplayedTells ==
  ASSUME NEW d, HasFields(d), NEW e, NEW t, NEW i \in Nat, d.scans = e.scans,
         OldBlob(d.scans[i]), Before(d, t, i), t.rows = i
  PROVE  Retold(e, t, Replayed(d, i))
<1>. DEFINE r == Replayed(d, i)
            was == Here \in DOMAIN d.fin
            first == IF was THEN d.fin[Here].first ELSE i
            times == IF was THEN d.fin[Here].times + 1 ELSE 1
            f == [rule |-> "new", res |-> "lower", old |-> i, counted |-> TRUE, rowsScan |-> i, last |-> i,
                  first |-> first, times |-> times, open |-> TRUE]
<1>1. first = t.first /\ first \in Nat /\ times \in Nat
  BY DEF Finding, Before
<1>2. DOMAIN d.fin \subseteq {Here} /\ DOMAIN d.rows \subseteq {Here}
  BY DEF Before
<1>3. HasFields(r) /\ r.scans = d.scans /\ DOMAIN r.fin = {Here} /\ DOMAIN r.rows = {Here} /\ r.rows[Here] = i /\ r.fin[Here] = f
  <2>1. first = IF Here \in DOMAIN d.fin THEN d.fin[Here].first ELSE i
    OBVIOUS
  <2>2. times = IF Here \in DOMAIN d.fin THEN d.fin[Here].times + 1 ELSE 1
    OBVIOUS
  <2>. HIDE DEF first, times
  <2>. QED  BY <1>2, <2>1, <2>2, ReplayedOne
<1>. HIDE DEF r, first, times
<1>4. f \in Finding
  BY <1>1 DEF Finding, Spellings
<1>. QED  BY <1>1, <1>3, <1>4 DEF Retold, r

LEMMA RebuiltTells ==
  ASSUME NEW d, Shape(d), NEW t, t.open \in BOOLEAN, InBlobs(d, t), Waiting(d) # {}, MayReplay(d)
  PROVE  LET k == Marked(Rebuilt(d), "category")
         IN  OneTells(k, t, Here) /\ RowsAgree(k) /\ k.fin[Here].rule = "new" /\ t.first # 0
<1>. DEFINE n == Len(d.scans)
            one == Replayed(d, 1)
            two == Replayed(one, 2)
            full(i) == d.scans[i].blob = "full"
<1>1. n \in Nat /\ DOMAIN d.scans = 1..n /\ HasFields(d) /\ \A i \in 1..n : d.scans[i].blob \in Blobs
  <2>1. d.scans \in Seq(Scans) /\ HasFields(d)
    BY DEF Shape, HasFields
  <2>2. \A s \in Scans : s.blob \in Blobs
    BY DEF Scans
  <2>. QED  BY <2>1, <2>2
<1>2. /\ \A i \in DOMAIN d.scans : d.scans[i].rule = "new" /\ d.scans[i].res = "lower" /\ d.scans[i].fp = Here
      /\ \A i \in DOMAIN d.scans : i > 2 \/ n = 1 => d.scans[i].blob = "empty"
  BY DEF InBlobs
<1>. HIDE DEF n
<1>3. History(d) = 1..n
  BY <1>1 DEF MayReplay, HasScanLeftOut, History
<1>4. \A i \in 1..n : full(i) \/ d.scans[i].blob = "empty"
  BY <1>1, <1>3 DEF MayReplay, Blobs
<1>5. \A i \in 1..n : (full(i) => OldBlob(d.scans[i])) /\ (i > 2 \/ n = 1 => ~full(i))
  BY <1>1, <1>2 DEF OldBlob
<1>6. n >= 2 /\ (full(1) \/ full(2))
  <2>1. PICK w \in History(d) : d.scans[w].blob # "empty"
    BY DEF Waiting
  <2>2. w \in 1..n /\ full(w) /\ ~(w > 2) /\ n # 1
    BY <1>3, <1>4, <1>5, <2>1
  <2>. HIDE DEF full
  <2>. QED  BY <1>1, <2>2
<1>7. /\ t.first = IF full(1) THEN 1 ELSE IF full(2) THEN 2 ELSE 0
      /\ t.rows = IF full(2) THEN 2 ELSE IF full(1) THEN 1 ELSE 0
      /\ t.open <=> full(n)
      /\ DOMAIN d.fin = {} /\ DOMAIN d.rows = {}
  BY <1>1, <1>6 DEF InBlobs, IsFull, n
<1>8. Retold(d, t, two)
  <2>0. 1 \in 1..n /\ 2 \in 1..n
    BY <1>1, <1>6
  <2>1. CASE ~full(1)
    <3>1. one = d /\ full(2)
      BY <1>6, <2>1, ReplayedNone
    <3>2. Before(d, t, 2) /\ t.rows = 2 /\ OldBlob(d.scans[2])
      BY <1>5, <1>7, <2>0, <2>1, <3>1 DEF Before
    <3>3. Retold(d, t, Replayed(d, 2))
      BY <1>1, <3>2, ReplayedTells
    <3>. QED  BY <3>1, <3>3
  <2>2. CASE full(1) /\ ~full(2)
    <3>1. Before(d, t, 1) /\ t.rows = 1 /\ OldBlob(d.scans[1])
      BY <1>5, <1>7, <2>0, <2>2 DEF Before
    <3>2. Retold(d, t, one)
      BY <1>1, <3>1, ReplayedTells
    <3>3. two = one
      BY <2>2, <3>2, ReplayedNone DEF Retold
    <3>. QED  BY <3>2, <3>3
  <2>3. CASE full(1) /\ full(2)
    <3>. DEFINE u == [first |-> 1, rows |-> 1]
    <3>1. Before(d, u, 1) /\ u.rows = 1 /\ OldBlob(d.scans[1]) /\ u.first = 1
      BY <1>5, <1>7, <2>0, <2>3 DEF Before
    <3>. HIDE DEF u
    <3>2. Retold(d, u, one)
      BY <1>1, <3>1, ReplayedTells
    <3>3. HasFields(one) /\ one.scans = d.scans /\ Before(one, t, 2) /\ t.rows = 2
      BY <1>7, <2>3, <3>1, <3>2 DEF Retold, Before
    <3>4. OldBlob(one.scans[2])
      BY <1>5, <2>0, <2>3, <3>3
    <3>. HIDE DEF one
    <3>. QED  BY <3>3, <3>4, ReplayedTells
  <2>. QED  BY <2>1, <2>2, <2>3
<1>9. Replays(d)[n] = two
  <2>1. two.scans = d.scans
    BY <1>8 DEF Retold
  <2>2. \A i \in 3..n : d.scans[i].blob # "full"
    BY <1>1, <1>5
  <2>3. n = Len(d.scans)
    BY DEF n
  <2>. HIDE DEF full
  <2>. QED  BY ONLY <1>1, <1>3, <1>6, <2>1, <2>2, <2>3, ReplayStart
<1>10. Max(History(d)) = n
  <2>1. \A i \in 1..n : (\A j \in 1..n : i >= j) => i = n
    BY <1>1, <1>6
  <2>2. n \in 1..n /\ \A j \in 1..n : n >= j
    BY <1>1, <1>6
  <2>. QED  BY <1>3, <2>1, <2>2 DEF Max
<1>11. Retold(d, t, Replayed(two, n))
  <2>. HIDE DEF one
  <2>1. two.scans = d.scans
    BY <1>8 DEF Retold
  <2>. HIDE DEF two
  <2>2. CASE ~full(n)
    <3>1. Replayed(two, n) = two
      BY <2>1, <2>2, ReplayedNone
    <3>. QED  BY <1>8, <3>1
  <2>3. CASE full(n)
    <3>1. n \in 1..n /\ 2 \in 1..n
      BY <1>1, <1>6
    <3>2. ~(n > 2)
      BY <1>5, <2>3, <3>1
    <3>3. n = 2
      BY <1>1, <1>6, <3>2
    <3>4. HasFields(two) /\ Before(two, t, n) /\ t.rows = n
      BY <1>7, <1>8, <2>3, <3>3 DEF Retold, Before
    <3>5. OldBlob(two.scans[n])
      BY <1>5, <2>1, <2>3, <3>1
    <3>. QED  BY <1>1, <2>1, <3>4, <3>5, ReplayedTells
  <2>. QED  BY <2>2, <2>3
<1>. DEFINE last == Replayed(two, n)
            e == Rebuilt(d)
            f == e.fin[Here]
            g == last.fin[Here]
<1>12. /\ HasFields(e) /\ e.marks = d.marks
       /\ e.rows = last.rows /\ e.scans = d.scans
       /\ e.fin = IF full(n) THEN last.fin ELSE [fp \in DOMAIN last.fin |-> [last.fin[fp] EXCEPT !.open = FALSE]]
  <2>1. e = [d EXCEPT !.rows = last.rows,
                      !.fin = IF full(n) THEN last.fin
                              ELSE [fp \in DOMAIN last.fin |-> [last.fin[fp] EXCEPT !.open = FALSE]]]
    <3>. HIDE DEF two
    <3>. QED  BY <1>9, <1>10 DEF Rebuilt, n
  <2>. HIDE DEF last, e, full
  <2>. QED  BY <1>1, <2>1 DEF HasFields, Fields
<1>13. Retold(d, t, last)
  BY <1>11
<1>. HIDE DEF two, last, e, full
<1>14. DOMAIN e.fin = {Here} /\ f = IF full(n) THEN g ELSE [g EXCEPT !.open = FALSE]
  BY <1>12, <1>13 DEF Retold
<1>15. /\ f \in Finding /\ f.rule = "new" /\ f.first = t.first /\ f.old = t.rows
       /\ f.last = t.rows /\ f.rowsScan = t.rows /\ (f.open <=> full(n))
  <2>1. /\ g \in Finding /\ g.rule = "new" /\ g.first = t.first /\ g.old = t.rows
        /\ g.last = t.rows /\ g.rowsScan = t.rows /\ g.open = TRUE
    BY <1>13 DEF Retold
  <2>. HIDE DEF f, g
  <2>2. CASE full(n)
    BY <1>14, <2>1, <2>2
  <2>3. CASE ~full(n)
    <3>1. full(n) = FALSE /\ f = [g EXCEPT !.open = FALSE]
      BY <1>14, <2>3 DEF full
    <3>. QED  BY <2>1, <3>1 DEF Finding
  <2>. QED  BY <2>2, <2>3
<1>. HIDE DEF f, g
<1>16. e.rows[Here] = t.rows /\ DOMAIN e.rows = {Here}
  BY <1>12, <1>13 DEF Retold
<1>17. t.rows <= n /\ t.rows \in Nat
  BY <1>1, <1>6, <1>7 DEF full
<1>. DEFINE k == Marked(e, "category")
<1>18. k.fin = e.fin /\ k.rows = e.rows /\ k.scans = d.scans /\ k.marks = d.marks \cup {"category"}
  BY <1>12 DEF Marked, HasFields, Fields
<1>. HIDE DEF k
<1>19. k.fin[Here] = f /\ DOMAIN k.fin = {Here}
  BY <1>14, <1>18 DEF f
<1>20. RowsAgree(k)
  BY <1>15, <1>16, <1>18, <1>19 DEF RowsAgree
<1>21. Sound(k, Here)
  <2>1. k.rows[Here] = f.old /\ Here \in DOMAIN k.rows
    BY <1>15, <1>16, <1>18
  <2>2. f.last <= Len(k.scans) /\ f.rowsScan <= f.last
    BY <1>15, <1>17, <1>18 DEF n
  <2>. QED  BY <1>15, <1>19, <2>1, <2>2 DEF Sound
<1>22. OneTells(k, t, Here)
  <2>1. f.open = t.open
    BY <1>7, <1>15 DEF Finding
  <2>. QED  BY <1>15, <1>18, <1>19, <1>21, <2>1 DEF OneTells, InPlace
<1>23. t.first # 0
  BY <1>6, <1>7
<1>. QED  BY <1>15, <1>20, <1>19, <1>22, <1>23 DEF e, k

LEMMA AgeBackfilled ==
  ASSUME AgeInv, ScansInv', UNCHANGED truth, BackfillCategory
  PROVE  AgeInv'
<1>. USE Ends, FindingSequence
<1>0. Shape(data) /\ TruthTyped(truth')
  BY DEF AgeInv, ScansInv
<1>1. at = 38 /\ at' = 39
  BY DEF BackfillCategory, OwnTransaction, FDoes
<1>2. \/ data' = data /\ ("copyRows" \notin failed' => "copyRows" \notin failed)
      \/ Waiting(data) # {} /\ MayReplay(data) /\ data' = Marked(Rebuilt(data), "category")
  BY DEF BackfillCategory, OwnTransaction
<1>3. CASE data' = data /\ ("copyRows" \notin failed' => "copyRows" \notin failed)
  <2>1. data'.fin = data.fin /\ data'.rows = data.rows /\ SameMarks(data, data') /\ Alike(data, data')
    BY <1>3, SelfAlike DEF SameMarks
  <2>2. at' \in 0..Back /\ at' # Back /\ at \in 33..Back /\ at' >= 33 /\ at \in 35..41
    BY <1>1
  <2>. QED  BY <1>3, <2>1, <2>2, AgeStays
<1>4. CASE Waiting(data) # {} /\ MayReplay(data) /\ data' = Marked(Rebuilt(data), "category")
  <2>1. ASSUME ~truth.split PROVE Age(data', truth) /\ RuleBy(data', at', seen') /\ RowsAgree(data')
    <3>1. Age(data, truth) /\ truth.open \in BOOLEAN
      BY <2>1 DEF AgeInv, TruthTyped
    <3>2. {"findings", "category"} \cap data.marks = {} /\ ~HasScanLeftOut(data)
      BY <1>4 DEF Waiting, MayReplay
    <3>3. Unread(data, truth)
      BY <3>1, <3>2 DEF Age, Unread
    <3>4. InBlobs(data, truth)
      BY <3>1, <3>3 DEF Age
    <3>5. OneTells(data', truth, Here) /\ RowsAgree(data') /\ data'.fin[Here].rule = "new" /\ truth.first # 0
      BY <1>0, <1>4, <3>1, <3>4, RebuiltTells
    <3>6. "category" \in data'.marks
      BY <1>0, <1>4, RebuiltKeeps
    <3>7. Here \in Fp
      BY DEF Here, Current, Fp
    <3>8. Age(data', truth)
      BY <3>5, <3>6, <3>7 DEF Age, Unread, Told
    <3>9. DOMAIN data'.fin = {Here}
      BY <3>5 DEF OneTells
    <3>. QED  BY <1>1, <3>5, <3>8, <3>9 DEF RuleBy
  <2>2. ScansInv' /\ at' \in 0..Back /\ at' # Back /\ truth' = truth
    BY <1>1
  <2>. QED  BY <1>0, <2>1, <2>2 DEF AgeInv
<1>. QED  BY <1>2, <1>3, <1>4

LEMMA AgeMarked ==
  ASSUME AgeInv, ScansInv', UNCHANGED truth, BackfillFindings
  PROVE  AgeInv'
<1>. USE Ends, FindingSequence
<1>0. Shape(data) /\ TruthTyped(truth')
  BY DEF AgeInv, ScansInv
<1>1. at = 39 /\ at' = 40 /\ failed' = failed
  BY DEF BackfillFindings, FDoes
<1>2. data' = data \/ (Waiting(data) = {} /\ data' = Marked(data, "findings"))
  BY DEF BackfillFindings
<1>3. CASE data' = data
  <2>1. data'.fin = data.fin /\ data'.rows = data.rows /\ SameMarks(data, data') /\ Alike(data, data')
    BY <1>3, SelfAlike DEF SameMarks
  <2>2. at' \in 0..Back /\ at' # Back /\ at \in 33..Back /\ at' >= 33 /\ at \in 35..41
    BY <1>1
  <2>. QED  BY <1>1, <2>1, <2>2, AgeStays
<1>4. CASE Waiting(data) = {} /\ data' = Marked(data, "findings")
  <2>1. /\ data'.fin = data.fin /\ data'.rows = data.rows /\ data'.scans = data.scans
        /\ data'.marks = data.marks \cup {"findings"}
    BY <1>0, <1>4 DEF Marked, Shape, Fields
  <2>2. ASSUME ~truth.split PROVE Age(data', truth)
    <3>1. Age(data, truth)
      BY <2>2 DEF AgeInv
    <3>2. CASE Unread(data, truth)
      <4>1. InBlobs(data, truth)
        BY <3>1, <3>2 DEF Age
      <4>2. \A i \in DOMAIN data.scans : data.scans[i].blob # "full"
        BY <1>4, <3>2 DEF Waiting, Unread, History, LeftOut
      <4>3. NoneTold(data', truth)
        BY <2>1, <4>1, <4>2 DEF InBlobs, IsFull, NoneTold
      <4>. QED  BY <2>1, <4>3 DEF Age, Unread
    <3>3. CASE ~Unread(data, truth)
      <4>1. Told(data, truth) => Told(data', truth)
        BY <2>1, SameTold
      <4>2. NoneTold(data, truth) => NoneTold(data', truth)
        BY <2>1 DEF NoneTold
      <4>. QED  BY <2>1, <3>1, <3>3, <4>1, <4>2 DEF Age, Unread
    <3>. QED  BY <3>2, <3>3
  <2>3. ASSUME ~truth.split PROVE RuleBy(data', at', seen') /\ ("copyRows" \notin failed' => RowsAgree(data'))
    <3>1. RuleBy(data, at, seen) /\ ("copyRows" \notin failed => RowsAgree(data))
      BY <1>1, <2>3 DEF AgeInv
    <3>. QED  BY <1>1, <2>1, <3>1 DEF RuleBy, RowsAgree
  <2>4. ScansInv' /\ at' \in 0..Back /\ at' # Back /\ truth' = truth
    BY <1>1
  <2>. QED  BY <1>0, <2>2, <2>3, <2>4 DEF AgeInv
<1>. QED  BY <1>2, <1>3, <1>4

-----------------------------------------------------------------------------
(* While it serves *)

LEMMA OnlyHere ==
  ASSUME NEW d, NEW t, Age(d, t), "rekeyed" \in d.marks
  PROVE  \/ DOMAIN d.fin = {} /\ (t.first = 0 \/ "findings" \notin d.marks)
         \/ ~Unread(d, t) /\ t.first # 0 /\ OneTells(d, t, Here)
<1>1. CASE Unread(d, t)
  BY <1>1 DEF Age, InBlobs, Unread
<1>2. CASE ~Unread(d, t) /\ NoneTold(d, t)
  BY <1>2 DEF NoneTold
<1>3. CASE ~Unread(d, t) /\ ~NoneTold(d, t)
  <2>1. t.first # 0 /\ Told(d, t)
    BY <1>3 DEF Age
  <2>2. \A a, b \in Fp : ~TwoTell(d, t, a, b)
    BY DEF TwoTell
  <2>3. PICK fp \in Fp : OneTells(d, t, fp)
    BY <2>1, <2>2 DEF Told
  <2>4. fp = Here
    BY <2>3 DEF OneTells, InPlace
  <2>. QED  BY <1>3, <2>1, <2>3, <2>4
<1>. QED  BY <1>1, <1>2, <1>3

\* The scan is the first to see the finding, as far as the tables go.
FirstSeen == truth.first = 0 \/ (DOMAIN data.fin = {} /\ "findings" \notin data.marks)

LEMMA SawFields ==
  ASSUME truth = [f \in TruthFields |-> truth[f]], TruthTyped(truth), NEW complete \in BOOLEAN, SawIt(complete),
         Len(data.scans) \in Nat
  PROVE  /\ truth'.first = IF FirstSeen THEN Now ELSE truth.first
         /\ truth'.times = IF FirstSeen THEN 1 ELSE truth.times + 1
         /\ truth'.rows = IF ~FirstSeen /\ truth.open /\ ~complete THEN truth.rows ELSE Now
         /\ truth'.open = TRUE
         /\ truth'.split = (truth.split \/ "rekeyed" \notin data.marks)
         /\ truth'.cut = (truth.cut \/ "findings" \notin data.marks)
         /\ TruthTyped(truth')
<1>1. /\ truth'.first = IF FirstSeen THEN Now ELSE truth.first
      /\ truth'.times = IF FirstSeen THEN 1 ELSE truth.times + 1
      /\ truth'.rows = IF ~FirstSeen /\ truth.open /\ ~complete THEN truth.rows ELSE Now
      /\ truth'.open = TRUE
      /\ truth'.split = (truth.split \/ "rekeyed" \notin data.marks)
      /\ truth'.cut = (truth.cut \/ "findings" \notin data.marks)
  BY DEF SawIt, TruthFields, FirstSeen
<1>2. Now \in Nat
  BY DEF Now
<1>3. TruthTyped(truth')
  <2>1. truth.first \in Nat /\ truth.times \in Nat /\ truth.rows \in Nat
    BY DEF TruthTyped
  <2>2. truth'.first \in Nat /\ truth'.rows \in Nat
    BY <1>1, <1>2, <2>1
  <2>3. truth'.times \in Nat
    BY <1>1, <2>1
  <2>4. truth'.open \in BOOLEAN
    BY <1>1
  <2>. QED  BY <2>2, <2>3, <2>4 DEF TruthTyped
<1>. QED  BY <1>1, <1>3

\* The finding a scan stored, and what it tells.
LEMMA SeenTells ==
  ASSUME NEW e, NEW u, NEW g, DOMAIN e.fin = {Here}, e.fin[Here] = g,
         g \in Finding, g.rule = "new", g.last = Len(e.scans), g.rowsScan <= g.last,
         Stale(g) \/ (Here \in DOMAIN e.rows /\ e.rows[Here] = g.old),
         g.first = u.first, g.open = u.open, g.old = u.rows, "category" \notin e.marks => g.times = u.times,
         u.first # 0, "findings" \notin e.marks => u.cut /\ HasScanLeftOut(e)
  PROVE  Age(e, u)
<1>1. g.last <= Len(e.scans)
  <2>1. g.last \in Nat
    BY DEF Finding
  <2>. QED  BY <2>1
<1>2. Sound(e, Here)
  BY <1>1 DEF Sound
<1>3. OneTells(e, u, Here)
  BY <1>2 DEF OneTells, InPlace
<1>4. Here \in Fp
  BY DEF Here, Current, Fp
<1>. QED  BY <1>3, <1>4 DEF Age, Unread, Told

LEMMA Appended ==
  ASSUME NEW q \in Seq(Scans), NEW s
  PROVE  LET r == Append(q, s)
             n == Len(q)
         IN  /\ n \in Nat /\ Len(r) = n + 1 /\ DOMAIN r = 1..(n + 1) /\ DOMAIN q = 1..n
             /\ r[n + 1] = s /\ \A i \in 1..n : r[i] = q[i]
OBVIOUS

LEMMA AgeFound ==
  ASSUME AgeInv, ScansInv', NEW spelling \in Spellings, NEW complete \in BOOLEAN, ScanFinds(spelling, complete)
  PROVE  AgeInv'
<1>. USE Ends
<1>. DEFINE n == Len(data.scans)
            was == Here \in DOMAIN data.fin
            f == data.fin[Here]
            kept == was /\ f.open /\ ~complete
            g == [rule |-> "new", res |-> IF was THEN f.res ELSE spelling,
                  old |-> IF kept THEN f.old ELSE Now, counted |-> IF kept THEN f.counted ELSE TRUE,
                  rowsScan |-> IF kept THEN KeptFrom(f) ELSE Now, last |-> Now,
                  first |-> IF was THEN f.first ELSE Now, times |-> IF was THEN f.times + 1 ELSE 1,
                  open |-> TRUE]
            s == [Scan("empty", "new", spelling) EXCEPT !.has = TRUE, !.recs = {Here}]
<1>1. /\ Shape(data) /\ data.scans \in Seq(Scans) /\ truth = [x \in TruthFields |-> truth[x]] /\ TruthTyped(truth)
  BY DEF AgeInv, ScansInv, Shape
<1>2. at = 41 /\ at' = 41 /\ UNCHANGED failed /\ SawIt(complete)
  BY DEF ScanFinds
<1>3. /\ data'.marks = data.marks /\ data'.scans = Append(data.scans, s)
      /\ data'.fin = Put(Closed(data.fin, complete), Here, g)
      /\ data'.rows = IF kept THEN data.rows ELSE Put(data.rows, Here, Now)
  <2>1. data' = [data EXCEPT
             !.fin = Put(Closed(@, complete), Here, g),
             !.rows = IF kept THEN @ ELSE Put(@, Here, Now),
             !.scans = Append(@, s)]
    BY DEF ScanFinds
  <2>. HIDE DEF g, s, kept
  <2>. QED  BY <1>1, <2>1 DEF Shape, Fields
<1>4. s.blob = "empty" /\ s.recs # {}
  BY DEF Scan
<1>. HIDE DEF s
<1>5. /\ n \in Nat /\ Now = n + 1 /\ Len(data'.scans) = Now /\ DOMAIN data'.scans = 1..Now /\ data'.scans[Now] = s
  BY <1>1, <1>3, Appended DEF Now
<1>6. HasScanLeftOut(data')
  BY <1>4, <1>5 DEF HasScanLeftOut, LeftOut
<1>. HIDE DEF n
<1>7.    /\ truth'.first = IF FirstSeen THEN Now ELSE truth.first
         /\ truth'.times = IF FirstSeen THEN 1 ELSE truth.times + 1
         /\ truth'.rows = IF ~FirstSeen /\ truth.open /\ ~complete THEN truth.rows ELSE Now
         /\ truth'.open = TRUE
         /\ truth'.split = (truth.split \/ "rekeyed" \notin data.marks)
         /\ truth'.cut = (truth.cut \/ "findings" \notin data.marks)
         /\ TruthTyped(truth')
  BY <1>1, <1>2, <1>5, SawFields DEF n
<1>8. ASSUME ~truth'.split PROVE Age(data', truth') /\ RuleBy(data', at', seen') /\ ("copyRows" \notin failed' => RowsAgree(data'))
  <2>1. Age(data, truth) /\ "rekeyed" \in data.marks /\ ("copyRows" \notin failed => RowsAgree(data))
    <3>1. ~truth.split /\ "rekeyed" \in data.marks
      <4>1. truth'.split = (truth.split \/ "rekeyed" \notin data.marks)
        BY <1>7
      <4>. QED  BY ONLY <4>1, ~truth'.split
    <3>2. at \in 35..41 /\ failed' = failed
      BY <1>2
    <3>. QED  BY <3>1, <3>2 DEF AgeInv
  <2>5. truth'.open = TRUE /\ ("findings" \notin data'.marks => truth'.cut /\ HasScanLeftOut(data'))
    BY <1>3, <1>6, <1>7
  <2>2. DOMAIN data'.fin = (DOMAIN data.fin) \cup {Here} /\ data'.fin[Here] = g
    <3>. HIDE DEF g
    <3>. QED  BY <1>3 DEF Put, Closed
  <2>3. CASE DOMAIN data.fin = {} /\ (truth.first = 0 \/ "findings" \notin data.marks)
    <3>1. ~was /\ ~kept
      BY <2>3
    <3>2. g = [rule |-> "new", res |-> spelling, old |-> Now, counted |-> TRUE, rowsScan |-> Now, last |-> Now,
               first |-> Now, times |-> 1, open |-> TRUE]
      BY <3>1
    <3>. HIDE DEF g, kept, was
    <3>3. g \in Finding /\ g.rule = "new" /\ g.last = Now /\ g.rowsScan = Now /\ g.first = Now /\ g.open = TRUE /\ g.old = Now /\ g.times = 1
      BY <1>5, <3>2 DEF Finding
    <3>4. truth'.first = Now /\ truth'.times = 1 /\ truth'.rows = Now
      BY <1>7, <2>3 DEF FirstSeen
    <3>5. Here \in DOMAIN data'.rows /\ data'.rows[Here] = Now /\ DOMAIN data'.rows = (DOMAIN data.rows) \cup {Here}
      BY <1>3, <3>1 DEF Put
    <3>6. DOMAIN data'.fin = {Here}
      BY <2>2, <2>3
    <3>7. Age(data', truth')
      <4>1. Now \in Nat /\ Now # 0
        BY <1>5
      <4>2. g.last = Len(data'.scans) /\ g.rowsScan <= g.last /\ truth'.first # 0
        BY <1>5, <3>3, <3>4, <4>1
      <4>3. /\ data'.rows[Here] = g.old /\ g.first = truth'.first
            /\ g.open = truth'.open /\ g.old = truth'.rows /\ g.times = truth'.times
        BY <2>5, <3>3, <3>4, <3>5
      <4>. QED  BY <2>2, <2>5, <3>3, <3>5, <3>6, <4>2, <4>3, SeenTells
    <3>8. "copyRows" \notin failed' => RowsAgree(data')
      BY <1>2, <2>1, <2>2, <2>3, <3>3, <3>5, <3>6 DEF RowsAgree
    <3>9. RuleBy(data', at', seen')
      BY <1>2, <2>2, <3>3, <3>6 DEF RuleBy
    <3>. QED  BY <3>7, <3>8, <3>9
  <2>4. CASE ~Unread(data, truth) /\ truth.first # 0 /\ OneTells(data, truth, Here)
    <3>1. /\ DOMAIN data.fin = {Here} /\ f \in Finding /\ f.last <= n /\ f.rowsScan <= f.last
          /\ Stale(f) \/ (Here \in DOMAIN data.rows /\ data.rows[Here] = f.old)
          /\ f.first = truth.first /\ f.open = truth.open /\ f.old = truth.rows
          /\ "category" \notin data.marks => f.times = truth.times
      BY <2>4 DEF OneTells, Sound, n
    <3>2. was /\ (kept <=> f.open /\ ~complete)
      BY <3>1
    <3>3. g = [rule |-> "new", res |-> f.res,
               old |-> IF kept THEN f.old ELSE Now, counted |-> IF kept THEN f.counted ELSE TRUE,
               rowsScan |-> IF kept THEN KeptFrom(f) ELSE Now, last |-> Now,
               first |-> f.first, times |-> f.times + 1, open |-> TRUE]
      BY <3>2
    <3>. HIDE DEF g, was, kept, f
    <3>4. KeptFrom(f) \in Nat /\ KeptFrom(f) <= Now /\ f.last \in Nat /\ f.rowsScan \in Nat
      BY <1>5, <3>1 DEF KeptFrom, Finding
    <3>5. g \in Finding
      <4>1. CASE kept
        <5>1. g = [rule |-> "new", res |-> f.res, old |-> f.old, counted |-> f.counted, rowsScan |-> KeptFrom(f),
                   last |-> Now, first |-> f.first, times |-> f.times + 1, open |-> TRUE]
          BY <3>3, <4>1
        <5>. QED  BY <1>5, <3>1, <3>4, <5>1 DEF Finding
      <4>2. CASE ~kept
        <5>1. g = [rule |-> "new", res |-> f.res, old |-> Now, counted |-> TRUE, rowsScan |-> Now,
                   last |-> Now, first |-> f.first, times |-> f.times + 1, open |-> TRUE]
          BY <3>3, <4>2
        <5>. QED  BY <1>5, <3>1, <5>1 DEF Finding
      <4>. QED  BY <4>1, <4>2
    <3>6. /\ g.rule = "new" /\ g.last = Now /\ g.rowsScan = (IF kept THEN KeptFrom(f) ELSE Now) /\ g.first = f.first
          /\ g.open = TRUE /\ g.old = (IF kept THEN f.old ELSE Now) /\ g.times = f.times + 1
          /\ g.counted = (IF kept THEN f.counted ELSE TRUE)
      BY <3>3
    <3>7. /\ truth'.first = truth.first /\ truth'.times = truth.times + 1
          /\ truth'.rows = IF truth.open /\ ~complete THEN truth.rows ELSE Now
      BY <1>7, <2>4, <3>1 DEF FirstSeen
    <3>8. kept \/ (Here \in DOMAIN data'.rows /\ data'.rows[Here] = Now /\ DOMAIN data'.rows = (DOMAIN data.rows) \cup {Here})
      BY <1>3 DEF Put
    <3>9. kept => data'.rows = data.rows
      BY <1>3
    <3>10. kept /\ Stale(f) => Stale(g)
      BY <1>5, <3>1, <3>4, <3>6 DEF Stale, KeptFrom
    <3>11. Stale(g) \/ (Here \in DOMAIN data'.rows /\ data'.rows[Here] = g.old)
      BY <3>1, <3>6, <3>8, <3>9, <3>10
    <3>12. DOMAIN data'.fin = {Here}
      BY <2>2, <3>1
    <3>13. g.old = truth'.rows
      BY <3>1, <3>2, <3>6, <3>7
    <3>14. g.rowsScan <= g.last
      BY <1>5, <3>4, <3>6
    <3>15. "category" \notin data'.marks => g.times = truth'.times
      BY <1>3, <3>1, <3>6, <3>7
    <3>16. Age(data', truth')
      <4>1. /\ g.last = Len(data'.scans) /\ g.first = truth'.first /\ g.open = truth'.open /\ truth'.first # 0
        BY <1>5, <2>4, <2>5, <3>1, <3>6, <3>7
      <4>. QED  BY <2>2, <2>5, <3>5, <3>6, <3>11, <3>12, <3>13, <3>14, <3>15, <4>1, SeenTells
    <3>17. "copyRows" \notin failed' => RowsAgree(data')
      BY <1>2, <2>1, <2>2, <3>1, <3>6, <3>8, <3>9, <3>12 DEF RowsAgree, f
    <3>18. RuleBy(data', at', seen')
      BY <1>2, <2>2, <3>6, <3>12 DEF RuleBy
    <3>. QED  BY <3>16, <3>17, <3>18
  <2>. QED  BY <2>1, <2>3, <2>4, OnlyHere
<1>. QED  BY <1>2, <1>7, <1>8 DEF AgeInv

Shut(fin) == [fp \in DOMAIN fin |-> [fin[fp] EXCEPT !.open = FALSE]]

LEMMA ShutTold ==
  ASSUME NEW d, NEW e, NEW t, NEW u, e.fin = Shut(d.fin), e.rows = d.rows, e.marks = d.marks,
         Len(d.scans) \in Nat, Len(e.scans) = Len(d.scans) + 1,
         u.first = t.first, u.times = t.times, u.rows = t.rows, u.open = FALSE, Told(d, t)
  PROVE  Told(e, u)
<1>1. /\ DOMAIN e.fin = DOMAIN d.fin
      /\ \A fp \in DOMAIN d.fin : e.fin[fp] = [d.fin[fp] EXCEPT !.open = FALSE]
  BY DEF Shut
<1>2. ASSUME NEW fp \in DOMAIN d.fin, Sound(d, fp)
      PROVE  /\ Sound(e, fp) /\ (InPlace(d, fp) => InPlace(e, fp))
             /\ e.fin[fp].open = FALSE /\ e.fin[fp].first = d.fin[fp].first /\ e.fin[fp].times = d.fin[fp].times
             /\ e.fin[fp].old = d.fin[fp].old /\ e.fin[fp].last = d.fin[fp].last
             /\ e.fin[fp].rule = d.fin[fp].rule /\ e.fin[fp].res = d.fin[fp].res
  <2>. DEFINE f == d.fin[fp]
              g == e.fin[fp]
  <2>1. f \in Finding /\ g = [f EXCEPT !.open = FALSE]
    BY <1>1, <1>2 DEF Sound
  <2>2. /\ f.last <= Len(d.scans) /\ f.rowsScan <= f.last
        /\ Stale(f) \/ (fp \in DOMAIN d.rows /\ d.rows[fp] = f.old)
        /\ f.rule = "old" => ~f.counted
    BY <1>2 DEF Sound
  <2>. HIDE DEF f, g
  <2>3. /\ g \in Finding /\ g.open = FALSE /\ g.first = f.first /\ g.times = f.times /\ g.old = f.old /\ g.last = f.last
        /\ g.rule = f.rule /\ g.res = f.res /\ g.counted = f.counted /\ g.rowsScan = f.rowsScan
    BY <2>1 DEF Finding
  <2>4. f.last \in Nat
    BY <2>1 DEF Finding
  <2>5. /\ g \in Finding /\ g.last <= Len(e.scans) /\ g.rowsScan <= g.last
        /\ Stale(g) \/ (fp \in DOMAIN e.rows /\ e.rows[fp] = g.old)
        /\ g.rule = "old" => ~g.counted
    BY <2>2, <2>3, <2>4 DEF Stale
  <2>6. Sound(e, fp)
    BY <2>5 DEF Sound, g
  <2>7. InPlace(d, fp) => InPlace(e, fp)
    BY <2>3 DEF InPlace, f, g
  <2>. QED  BY <2>3, <2>6, <2>7 DEF f, g
<1>3. ASSUME NEW fp \in Fp, OneTells(d, t, fp) PROVE OneTells(e, u, fp)
  <2>1. /\ DOMAIN d.fin = {fp} /\ Sound(d, fp) /\ InPlace(d, fp)
        /\ d.fin[fp].first = t.first /\ d.fin[fp].old = t.rows
        /\ "category" \notin d.marks => d.fin[fp].times = t.times
    BY <1>3 DEF OneTells
  <2>. QED  BY <1>1, <1>2, <2>1 DEF OneTells
<1>4. ASSUME NEW a \in Fp, NEW b \in Fp, TwoTell(d, t, a, b) PROVE TwoTell(e, u, a, b)
  <2>1. DOMAIN d.fin = {a, b} /\ Sound(d, a) /\ Sound(d, b)
    BY <1>4 DEF TwoTell
  <2>. QED  BY <1>1, <1>2, <1>4, <2>1 DEF TwoTell
<1>. QED  BY <1>3, <1>4 DEF Told

\* A scan that found nothing closes the finding and tells no more of it.
Shuts(d, e, t, u, s) ==
    /\ e.fin = Shut(d.fin) /\ e.rows = d.rows /\ e.marks = d.marks
    /\ d.scans \in Seq(Scans) /\ e.scans = Append(d.scans, s)
    /\ s.blob = "empty" /\ s.recs = {} /\ s.fp = Here /\ s.rule = "new" /\ (s.res = "lower" \/ "findings" \in d.marks)
    /\ u.first = t.first /\ u.times = t.times /\ u.rows = t.rows /\ u.open = FALSE /\ u.cut = t.cut

LEMMA ShutAge ==
  ASSUME NEW d, NEW e, NEW t, NEW u, NEW s, Shuts(d, e, t, u, s), Age(d, t)
  PROVE  Age(e, u)
<1>. USE DEF Shuts
<1>. DEFINE n == Len(d.scans)
<1>1. /\ n \in Nat /\ Len(e.scans) = n + 1 /\ DOMAIN e.scans = 1..(n + 1) /\ DOMAIN d.scans = 1..n
      /\ e.scans[n + 1] = s /\ \A i \in 1..n : e.scans[i] = d.scans[i]
  BY Appended
<1>2. Unread(e, u) <=> Unread(d, t)
  BY DEF Unread
<1>3. DOMAIN e.fin = DOMAIN d.fin
  BY DEF Shut
<1>4. CASE Unread(d, t)
  <2>1. InBlobs(d, t) /\ s.res = "lower"
    BY <1>4 DEF Age, Unread
  <2>. HIDE DEF n
  <2>2. \A i : IsFull(e, i) <=> IsFull(d, i)
    <3>. SUFFICES ASSUME NEW i PROVE IsFull(e, i) <=> IsFull(d, i)
      OBVIOUS
    <3>1. CASE i \in 1..n
      BY <1>1, <3>1 DEF IsFull
    <3>2. CASE i = n + 1
      BY <1>1, <3>2 DEF IsFull
    <3>3. CASE i \notin 1..(n + 1)
      BY <1>1, <3>3 DEF IsFull
    <3>. QED  BY <1>1, <3>1, <3>2, <3>3
  <2>3. ~IsFull(e, Len(e.scans))
    BY <1>1 DEF IsFull
  <2>4. ASSUME NEW i \in DOMAIN e.scans
        PROVE  LET r == e.scans[i]
               IN  /\ r.rule = "new" /\ r.res = "lower" /\ r.fp = Here
                   /\ r.blob = "empty" => r.recs = {}
                   /\ i > 2 \/ Len(e.scans) = 1 => r.blob = "empty"
    <3>1. CASE i = n + 1
      BY <1>1, <2>1, <3>1
    <3>2. CASE i \in 1..n
      <4>1. e.scans[i] = d.scans[i] /\ i \in DOMAIN d.scans /\ Len(e.scans) # 1
        BY <1>1, <3>2
      <4>. QED  BY <2>1, <4>1 DEF InBlobs
    <3>. QED  BY <1>1, <3>1, <3>2
  <2>5. InBlobs(e, u)
    <3>1. /\ u.first = (IF IsFull(e, 1) THEN 1 ELSE IF IsFull(e, 2) THEN 2 ELSE 0)
          /\ u.rows = (IF IsFull(e, 2) THEN 2 ELSE IF IsFull(e, 1) THEN 1 ELSE 0)
      BY <2>1, <2>2 DEF InBlobs
    <3>2. DOMAIN e.fin = {} /\ DOMAIN e.rows = {}
      BY <1>3, <2>1 DEF InBlobs
    <3>. QED  BY <2>3, <2>4, <3>1, <3>2 DEF InBlobs
  <2>. QED  BY <1>2, <1>4, <2>5 DEF Age, Unread
<1>5. CASE ~Unread(d, t)
  <2>1. Told(d, t) => Told(e, u)
    BY <1>1, ShutTold
  <2>2. NoneTold(d, t) => NoneTold(e, u)
    BY <1>3 DEF NoneTold
  <2>3. NoneTold(e, u) \/ (u.first # 0 /\ Told(e, u))
    BY <1>5, <2>1, <2>2 DEF Age
  <2>. HIDE DEF n
  <2>4. HasScanLeftOut(d) => HasScanLeftOut(e)
    BY <1>1 DEF HasScanLeftOut
  <2>. QED  BY <1>2, <1>5, <2>3, <2>4 DEF Age
<1>. QED  BY <1>4, <1>5

LEMMA AgeClosed ==
  ASSUME AgeInv, ScansInv', at' = at, at \in {Serving, Back}, UNCHANGED failed, SawNothing,
         data'.fin = Shut(data.fin), data'.rows = data.rows, data'.marks = data.marks,
         NEW s, data'.scans = Append(data.scans, s),
         s.blob = "empty", s.recs = {}, s.fp = Here, s.rule = "new", s.res = "lower" \/ "findings" \in data.marks
  PROVE  AgeInv'
<1>. USE Ends
<1>1. data.scans \in Seq(Scans) /\ truth = [x \in TruthFields |-> truth[x]] /\ TruthTyped(truth)
  BY DEF AgeInv, ScansInv, Shape
<1>2. /\ truth'.first = truth.first /\ truth'.times = truth.times /\ truth'.rows = truth.rows /\ truth'.open = FALSE
      /\ truth'.cut = truth.cut /\ truth'.split = truth.split
  BY <1>1 DEF SawNothing, TruthFields
<1>3. TruthTyped(truth')
  BY <1>1, <1>2 DEF TruthTyped
<1>4. at' \in 0..Back /\ (at' = Back => {"rekeyed", "findings"} \subseteq data'.marks)
  BY DEF AgeInv
<1>5. ASSUME ~truth'.split
      PROVE  /\ Age(data', truth') /\ RuleBy(data', at', seen')
             /\ at' \in 35..41 /\ "copyRows" \notin failed' => RowsAgree(data')
  <2>1. ~truth.split
    BY <1>2, <1>5
  <2>2. /\ Age(data, truth) /\ RuleBy(data, at, seen)
        /\ at \in 35..41 /\ "copyRows" \notin failed => RowsAgree(data)
    BY <2>1 DEF AgeInv
  <2>3. Age(data', truth')
    <3>1. Shuts(data, data', truth, truth', s)
      BY <1>1, <1>2 DEF Shuts
    <3>. QED  BY <2>2, <3>1, ShutAge
  <2>4. /\ DOMAIN data'.fin = DOMAIN data.fin
        /\ \A fp \in DOMAIN data.fin : data'.fin[fp] = [data.fin[fp] EXCEPT !.open = FALSE]
    BY DEF Shut
  <2>5. CASE DOMAIN data.fin = {}
    BY <2>2, <2>3, <2>4, <2>5 DEF RuleBy, RowsAgree
  <2>6. CASE DOMAIN data.fin # {}
    <3>1. \A fp \in DOMAIN data.fin : data.fin[fp] \in Finding
      <4>1. Told(data, truth)
        BY <2>2, <2>6 DEF Age, InBlobs, NoneTold
      <4>. QED  BY <4>1 DEF Told, OneTells, TwoTell, Sound
    <3>2. \A fp \in DOMAIN data.fin : data'.fin[fp].rule = data.fin[fp].rule /\ data'.fin[fp].old = data.fin[fp].old
      BY <2>4, <3>1 DEF Finding
    <3>3. RuleBy(data', at', seen')
      BY <2>2, <2>4, <3>2 DEF RuleBy
    <3>4. at' \in 35..41 /\ "copyRows" \notin failed' => RowsAgree(data')
      BY <2>2, <2>4, <3>2 DEF RowsAgree
    <3>. QED  BY <2>3, <3>3, <3>4
  <2>. QED  BY <2>5, <2>6
<1>. QED  BY <1>3, <1>4, <1>5 DEF AgeInv

LEMMA AgeUnseen ==
  ASSUME AgeInv, ScansInv', ScanFindsNothing
  PROVE  AgeInv'
<1>. DEFINE s == [Scan("empty", "new", "lower") EXCEPT !.has = TRUE]
<1>1. Shape(data)
  BY DEF AgeInv, ScansInv
<1>2. s.blob = "empty" /\ s.recs = {} /\ s.fp = Here /\ s.rule = "new" /\ s.res = "lower"
  BY DEF Scan, Legacy, Here, Current
<1>3. data' = [data EXCEPT !.fin = Shut(@), !.scans = Append(@, s)]
  BY DEF ScanFindsNothing, Shut
<1>. HIDE DEF s
<1>4. data'.fin = Shut(data.fin) /\ data'.rows = data.rows /\ data'.marks = data.marks /\ data'.scans = Append(data.scans, s)
  BY <1>1, <1>3 DEF Shape, Fields
<1>5. at = Serving /\ at' = at /\ UNCHANGED failed /\ SawNothing
  BY DEF ScanFindsNothing
<1>. QED  BY <1>2, <1>4, <1>5, AgeClosed

LEMMA AgeBack ==
  ASSUME AgeInv, ScansInv', GoBack
  PROVE  AgeInv'
<1>. USE Ends
<1>1. /\ data' = data /\ UNCHANGED truth /\ at = 41 /\ at' = 42 /\ {"rekeyed", "findings"} \subseteq data.marks
  BY DEF GoBack
<1>2. data'.fin = data.fin /\ data'.rows = data.rows /\ SameMarks(data, data') /\ Alike(data, data')
  BY <1>1, SelfAlike DEF SameMarks
<1>. QED  BY <1>1, <1>2, AgeStays

LEMMA AgePreviousUnseen ==
  ASSUME AgeInv, ScansInv', NEW spelling \in Spellings, PreviousScan(spelling, FALSE)
  PROVE  AgeInv'
<1>. USE Ends
<1>. DEFINE s == [Scan("empty", "new", spelling) EXCEPT !.fp = Here]
<1>1. Shape(data) /\ (at = Back => "findings" \in data.marks)
  BY DEF AgeInv, ScansInv
<1>2. s.blob = "empty" /\ s.recs = {} /\ s.fp = Here /\ s.rule = "new"
  BY DEF Scan
<1>3. data' = [data EXCEPT !.fin = Shut(@), !.scans = Append(@, s)]
  BY DEF PreviousScan, Shut
<1>. HIDE DEF s
<1>4. data'.fin = Shut(data.fin) /\ data'.rows = data.rows /\ data'.marks = data.marks /\ data'.scans = Append(data.scans, s)
  BY <1>1, <1>3 DEF Shape, Fields
<1>5. at = Back /\ at' = at /\ UNCHANGED failed /\ SawNothing
  BY DEF PreviousScan
<1>. QED  BY <1>1, <1>2, <1>4, <1>5, AgeClosed

LEMMA AgeDeleted ==
  ASSUME AgeInv, ScansInv', PreviousDeletes
  PROVE  AgeInv'
<1>. USE Ends
<1>1. Shape(data) /\ truth = [x \in TruthFields |-> truth[x]] /\ {"rekeyed", "findings"} \subseteq data.marks /\ at = 42 /\ at' = 42
  BY DEF AgeInv, ScansInv, PreviousDeletes
<1>2. data'.fin = Nothing /\ data'.marks = data.marks
  BY <1>1 DEF PreviousDeletes, Shape, Fields
<1>3. DOMAIN data'.fin = {}
  BY <1>2 DEF Nothing
<1>4. truth'.first = 0 /\ truth'.times = 0 /\ truth'.rows = 0 /\ truth'.open = FALSE
  BY <1>1 DEF PreviousDeletes, TruthFields
<1>5. TruthTyped(truth')
  <2>1. truth'.first \in Nat /\ truth'.times \in Nat /\ truth'.rows \in Nat
    BY <1>4
  <2>2. truth'.open \in BOOLEAN
    BY <1>4
  <2>. QED  BY <2>1, <2>2 DEF TruthTyped
<1>6. Age(data', truth')
  BY <1>1, <1>2, <1>3, <1>4 DEF Age, Unread, NoneTold
<1>7. RuleBy(data', at', seen')
  BY <1>3 DEF RuleBy
<1>8. at' \in 0..Back /\ {"rekeyed", "findings"} \subseteq data'.marks /\ at' \notin 35..41
  BY <1>1, <1>2
<1>. QED  BY <1>5, <1>6, <1>7, <1>8 DEF AgeInv

LEMMA AgePreviousFound ==
  ASSUME AgeInv, ScansInv', NEW spelling \in Spellings, PreviousScan(spelling, TRUE)
  PROVE  AgeInv'
<1>. USE Ends
<1>. DEFINE n == Len(data.scans)
            was == Here \in DOMAIN data.fin
            f == data.fin[Here]
            g == IF was THEN [f EXCEPT !.old = Now, !.last = Now, !.times = @ + 1, !.open = TRUE]
                 ELSE Found("new", spelling, Now, Now, 1, TRUE)
            s == [Scan("full", "new", spelling) EXCEPT !.fp = Here]
<1>1. /\ Shape(data) /\ data.scans \in Seq(Scans) /\ truth = [x \in TruthFields |-> truth[x]] /\ TruthTyped(truth)
  BY DEF AgeInv, ScansInv, Shape
<1>2. at = 42 /\ at' = 42 /\ SawIt(TRUE) /\ {"rekeyed", "findings"} \subseteq data.marks
  BY DEF PreviousScan, AgeInv
<1>3. /\ data'.marks = data.marks /\ data'.scans = Append(data.scans, s)
      /\ data'.fin = Put(Closed(data.fin, TRUE), Here, g) /\ data'.rows = data.rows
  <2>1. data' = [data EXCEPT !.fin = Put(Closed(@, TRUE), Here, g), !.scans = Append(@, s)]
    BY DEF PreviousScan
  <2>. HIDE DEF g, s
  <2>. QED  BY <1>1, <2>1 DEF Shape, Fields
<1>. HIDE DEF s
<1>4. n \in Nat /\ Now = n + 1 /\ Len(data'.scans) = Now
  BY <1>1, <1>3, Appended DEF Now
<1>. HIDE DEF n
<1>5. /\ truth'.first = IF FirstSeen THEN Now ELSE truth.first
      /\ truth'.times = IF FirstSeen THEN 1 ELSE truth.times + 1
      /\ truth'.rows = Now
      /\ truth'.open = TRUE
      /\ truth'.split = (truth.split \/ "rekeyed" \notin data.marks)
      /\ TruthTyped(truth')
  BY <1>1, <1>2, <1>4, SawFields DEF n
<1>6. ASSUME ~truth'.split PROVE Age(data', truth') /\ RuleBy(data', at', seen')
  <2>1. ~truth.split
    <3>1. truth'.split = (truth.split \/ "rekeyed" \notin data.marks)
      BY <1>5
    <3>. QED  BY ONLY <3>1, ~truth'.split
  <2>2. Age(data, truth) /\ Now \in Nat /\ Now # 0
    BY <1>4, <2>1 DEF AgeInv
  <2>3. DOMAIN data'.fin = (DOMAIN data.fin) \cup {Here} /\ data'.fin[Here] = g
    <3>. HIDE DEF g
    <3>. QED  BY <1>3 DEF Put, Closed
  <2>4. CASE DOMAIN data.fin = {} /\ truth.first = 0
    <3>1. ~was
      BY <2>4
    <3>2. g = Found("new", spelling, Now, Now, 1, TRUE)
      BY <3>1
    <3>. HIDE DEF g, was
    <3>3. /\ g \in Finding /\ g.rule = "new" /\ g.last = Now /\ g.rowsScan = 0 /\ g.first = Now /\ g.open = TRUE
          /\ g.old = Now /\ g.times = 1 /\ ~g.counted
      BY <2>2, <3>2 DEF Finding, Found
    <3>4. truth'.first = Now /\ truth'.times = 1 /\ truth'.rows = Now /\ truth'.open = TRUE
      BY <1>5, <2>4 DEF FirstSeen
    <3>5. DOMAIN data'.fin = {Here}
      BY <2>3, <2>4
    <3>6. Stale(g) /\ g.rowsScan <= g.last
      BY <2>2, <3>3 DEF Stale
    <3>7. Age(data', truth')
      BY <1>2, <1>3, <1>4, <2>2, <2>3, <3>3, <3>4, <3>5, <3>6, SeenTells
    <3>8. RuleBy(data', at', seen')
      BY <2>3, <3>3, <3>5 DEF RuleBy
    <3>. QED  BY <3>7, <3>8
  <2>5. CASE ~Unread(data, truth) /\ truth.first # 0 /\ OneTells(data, truth, Here)
    <3>1. /\ DOMAIN data.fin = {Here} /\ f \in Finding /\ f.last <= n /\ f.rowsScan <= f.last
          /\ f.first = truth.first
          /\ "category" \notin data.marks => f.times = truth.times
      BY <2>5 DEF OneTells, Sound, n
    <3>2. RuleBy(data, at, seen)
      BY <2>1 DEF AgeInv
    <3>3. f.rule = "new"
      BY <1>2, <3>1, <3>2 DEF RuleBy
    <3>4. g = [f EXCEPT !.old = Now, !.last = Now, !.times = @ + 1, !.open = TRUE]
      BY <3>1
    <3>. HIDE DEF g, was, f
    <3>5. f.last \in Nat /\ f.rowsScan \in Nat
      BY <3>1 DEF Finding
    <3>6. g \in Finding /\ g.rule = "new" /\ g.last = Now /\ g.rowsScan = f.rowsScan /\ g.first = f.first
          /\ g.open = TRUE /\ g.old = Now /\ g.times = f.times + 1
      <4>1. f.times + 1 \in Nat
        BY <3>1 DEF Finding
      <4>2. /\ f = [rule |-> f.rule, res |-> f.res, old |-> f.old, counted |-> f.counted, rowsScan |-> f.rowsScan,
                    last |-> f.last, first |-> f.first, times |-> f.times, open |-> f.open]
            /\ f.rule = "new" /\ f.res \in Spellings /\ f.counted \in BOOLEAN /\ f.rowsScan \in Nat /\ f.first \in Nat
        BY <3>1, <3>3 DEF Finding
      <4>. DEFINE once == f.times + 1
      <4>3. g = [f EXCEPT !.old = Now, !.last = Now, !.times = once, !.open = TRUE]
        BY <3>4
      <4>. HIDE DEF once
      <4>4. g = [rule |-> "new", res |-> f.res, old |-> Now, counted |-> f.counted, rowsScan |-> f.rowsScan,
                 last |-> Now, first |-> f.first, times |-> once, open |-> TRUE]
        BY <4>2, <4>3
      <4>5. once \in Nat /\ once = f.times + 1
        BY <4>1 DEF once
      <4>. QED  BY <2>2, <4>2, <4>4, <4>5 DEF Finding
    <3>7. Stale(g) /\ g.rowsScan <= g.last
      BY <1>4, <3>1, <3>5, <3>6 DEF Stale
    <3>8. truth'.first = truth.first /\ truth'.times = truth.times + 1 /\ truth'.rows = Now /\ truth'.open = TRUE
      BY <1>5, <2>5, <3>1 DEF FirstSeen
    <3>9. DOMAIN data'.fin = {Here}
      BY <2>3, <3>1
    <3>10. "category" \notin data'.marks => g.times = truth'.times
      BY <1>3, <3>1, <3>6, <3>8
    <3>11. Age(data', truth')
      <4>1. g.first = truth'.first /\ truth'.first # 0 /\ g.open = truth'.open /\ g.old = truth'.rows /\ g.last = Len(data'.scans)
        BY <1>4, <2>5, <3>1, <3>6, <3>8
      <4>. QED  BY <1>2, <1>3, <2>3, <3>6, <3>7, <3>9, <3>10, <4>1, SeenTells
    <3>12. RuleBy(data', at', seen')
      BY <2>3, <3>6, <3>9 DEF RuleBy
    <3>. QED  BY <3>11, <3>12
  <2>. QED  BY <1>2, <2>2, <2>4, <2>5, OnlyHere
<1>7. at' \in 0..Back /\ {"rekeyed", "findings"} \subseteq data'.marks /\ at' \notin 35..41
  BY <1>2, <1>3
<1>. QED  BY <1>5, <1>6, <1>7 DEF AgeInv

LEMMA AgeServes ==
  ASSUME AgeInv, ScansInv', Serve
  PROVE  AgeInv'
BY AgeFound, AgeUnseen, AgeBack, AgePreviousFound, AgePreviousUnseen, AgeDeleted DEF Serve, Spellings

-----------------------------------------------------------------------------
(* What an older release left, and every step *)

LEMMA OldSchemaAged ==
  ASSUME OldSchema, UpgradeInit, ScansInv
  PROVE  AgeInv
<1>. USE Ends
<1>1. /\ data.fin = Nothing /\ data.rows = Nothing /\ data.marks = {} /\ data.scans = <<>>
      /\ truth.first = 0 /\ truth.times = 0 /\ truth.rows = 0 /\ truth.open = FALSE /\ truth.cut = FALSE
  BY DEF OldSchema, Fresh, Truth
<1>2. at = 0
  BY DEF UpgradeInit
<1>3. DOMAIN data.fin = {} /\ DOMAIN data.rows = {}
  BY <1>1 DEF Nothing
<1>4. TruthTyped(truth)
  <2>1. truth.first \in Nat /\ truth.times \in Nat /\ truth.rows \in Nat
    BY <1>1
  <2>2. truth.open \in BOOLEAN
    BY <1>1
  <2>. QED  BY <2>1, <2>2 DEF TruthTyped
<1>5. DOMAIN data.scans = {}
  BY <1>1
<1>6. Age(data, truth)
  <2>1. ~IsFull(data, 1) /\ ~IsFull(data, 2) /\ ~IsFull(data, Len(data.scans))
    BY <1>5 DEF IsFull
  <2>2. InBlobs(data, truth)
    BY <1>1, <1>3, <1>5, <2>1 DEF InBlobs
  <2>. QED  BY <1>1, <2>2 DEF Age, Unread
<1>7. RuleBy(data, at, seen)
  BY <1>3 DEF RuleBy
<1>. QED  BY <1>2, <1>4, <1>6, <1>7 DEF AgeInv

LEMMA PairIsFinite == \A a, b : IsFiniteSet({a, b})
<1>. SUFFICES ASSUME NEW a, NEW b PROVE IsFiniteSet({a, b})
  OBVIOUS
<1>. DEFINE one == {a}
<1>1. IsFiniteSet(one)
  BY FS_Singleton
<1>. HIDE DEF one
<1>2. IsFiniteSet(one \cup {b})
  BY ONLY <1>1, FS_AddElement
<1>3. one \cup {b} = {a, b}
  BY DEF one
<1>. QED  BY <1>2, <1>3

LEMMA OldBlobsAged ==
  ASSUME OldBlobs, UpgradeInit, ScansInv
  PROVE  AgeInv
<1>. USE Ends
<1>1. PICK blobs \in Blobs \X Blobs :
        /\ data = BlobsOnly("new", <<"lower", "lower">>, blobs)
        /\ truth = Truth(OfBlobs(blobs))
  BY DEF OldBlobs
<1>2. at = 0
  BY DEF UpgradeInit
<1>3. data.fin = Nothing /\ data.rows = Nothing /\ data.marks = {}
  BY <1>1 DEF BlobsOnly, TwoScans
<1>4. DOMAIN data.fin = {} /\ DOMAIN data.rows = {}
  BY <1>3 DEF Nothing
<1>5. data.scans = [i \in 1..2 |-> Scan(blobs[i], "new", "lower")]
  <2>1. \A i \in 1..2 : <<"lower", "lower">>[i] = "lower"
    OBVIOUS
  <2>. QED  BY <1>1, <2>1 DEF BlobsOnly, TwoScans
<1>6. DOMAIN data.scans = 1..2 /\ Len(data.scans) = 2
  BY <1>5
<1>7. \A i \in 1..2 : LET s == data.scans[i]
                      IN  s.blob = blobs[i] /\ s.rule = "new" /\ s.res = "lower" /\ s.fp = Here /\ s.recs = {}
  BY <1>5 DEF Scan, Legacy, Here, Current
<1>8. \A i \in 1..2 : IsFull(data, i) <=> blobs[i] = "full"
  BY <1>6, <1>7 DEF IsFull
<1>. DEFINE full == {i \in {1, 2} : blobs[i] = "full"}
<1>9. /\ truth.first = (IF full = {} THEN 0 ELSE Min(full)) /\ truth.times = Cardinality(full)
      /\ truth.rows = (IF full = {} THEN 0 ELSE Max(full)) /\ truth.open = (blobs[2] = "full") /\ truth.cut = FALSE
  BY <1>1 DEF Truth, OfBlobs
<1>10. /\ truth.first = (IF blobs[1] = "full" THEN 1 ELSE IF blobs[2] = "full" THEN 2 ELSE 0)
       /\ truth.rows = (IF blobs[2] = "full" THEN 2 ELSE IF blobs[1] = "full" THEN 1 ELSE 0)
  <2>1. /\ blobs[1] = "full" /\ blobs[2] = "full" => full = {1, 2}
        /\ blobs[1] = "full" /\ blobs[2] # "full" => full = {1}
        /\ blobs[1] # "full" /\ blobs[2] = "full" => full = {2}
        /\ blobs[1] # "full" /\ blobs[2] # "full" => full = {}
    OBVIOUS
  <2>2. Min({1, 2}) = 1 /\ Max({1, 2}) = 2 /\ Min({1}) = 1 /\ Max({1}) = 1 /\ Min({2}) = 2 /\ Max({2}) = 2
    <3>1. Min({1, 2}) = 1 /\ Min({1}) = 1 /\ Min({2}) = 2
      BY DEF Min
    <3>2. Max({1, 2}) = 2 /\ Max({1}) = 1 /\ Max({2}) = 2
      BY DEF Max
    <3>. QED  BY <3>1, <3>2
  <2>. HIDE DEF full
  <2>. QED  BY <1>9, <2>1, <2>2
<1>11. TruthTyped(truth)
  <2>1. Cardinality(full) \in Nat
    <3>1. IsFiniteSet({1, 2})
      BY PairIsFinite
    <3>2. full \subseteq {1, 2}
      OBVIOUS
    <3>. HIDE DEF full
    <3>. QED  BY <3>1, <3>2, FS_Subset, FS_CardinalityType
  <2>. HIDE DEF full
  <2>2. truth.open \in BOOLEAN
    BY <1>9
  <2>3. truth.first \in Nat /\ truth.times \in Nat /\ truth.rows \in Nat
    BY <1>9, <1>10, <2>1
  <2>. QED  BY <2>2, <2>3 DEF TruthTyped
<1>. HIDE DEF full
<1>12. InBlobs(data, truth)
  <2>1. truth.open <=> IsFull(data, Len(data.scans))
    <3>1. IsFull(data, 2) <=> blobs[2] = "full"
      BY <1>8
    <3>. QED  BY <1>6, <1>9, <3>1
  <2>2. \A i \in DOMAIN data.scans :
         LET s == data.scans[i]
         IN  /\ s.rule = "new" /\ s.res = "lower" /\ s.fp = Here
             /\ s.blob = "empty" => s.recs = {}
             /\ i > 2 \/ Len(data.scans) = 1 => s.blob = "empty"
    BY <1>6, <1>7
  <2>. QED  BY <1>4, <1>8, <1>10, <2>1, <2>2 DEF InBlobs
<1>13. Age(data, truth)
  BY <1>3, <1>9, <1>12 DEF Age, Unread
<1>14. RuleBy(data, at, seen)
  BY <1>4 DEF RuleBy
<1>. QED  BY <1>2, <1>11, <1>13, <1>14 DEF AgeInv

LEMMA OldFindingsAged ==
  ASSUME OldFindings, UpgradeInit, ScansInv
  PROVE  AgeInv
<1>. USE Ends
<1>1. PICK rule \in {"old", "new"}, spelled \in Spelled, standIn \in BOOLEAN :
        /\ rule = "old" => spelled[1] = spelled[2]
        /\ data = [TwoScans(rule, spelled) EXCEPT !.rules = @ \cup IF standIn THEN {"new"} ELSE {}]
        /\ truth = Truth([first |-> 1, times |-> 2, rows |-> 2, open |-> TRUE,
                          found |-> [i \in 1..2 |-> TRUE], listed |-> rule = "new"])
  BY DEF OldFindings
<1>2. at = 0
  BY DEF UpgradeInit
<1>3. spelled[1] \in Spellings /\ spelled[2] \in Spellings
  BY SpellingsAreKnown DEF Spellings
<1>. DEFINE earlier == Legacy(rule, spelled[1])
            later == Legacy(rule, spelled[2])
<1>4. /\ data.rows = Nothing /\ data.marks = {"findings", "snapshots"}
      /\ data.fin = IF earlier = later THEN [fp \in {later} |-> Found(rule, spelled[2], 2, 1, 2, TRUE)]
                    ELSE [fp \in {earlier, later} |->
                            IF fp = later THEN Found(rule, spelled[2], 2, 2, 1, TRUE)
                            ELSE Found(rule, spelled[1], 1, 1, 1, FALSE)]
      /\ data.scans = <<Scan("full", rule, spelled[1]), Scan("full", rule, spelled[2])>>
  BY <1>1 DEF TwoScans
<1>5. Len(data.scans) = 2
  BY <1>4
<1>6. truth.first = 1 /\ truth.times = 2 /\ truth.rows = 2 /\ truth.open = TRUE /\ truth.cut = FALSE
  BY <1>1 DEF Truth
<1>7. TruthTyped(truth)
  <2>1. truth.first \in Nat /\ truth.times \in Nat /\ truth.rows \in Nat
    BY <1>6
  <2>2. truth.open \in BOOLEAN
    BY <1>6
  <2>. QED  BY <2>1, <2>2 DEF TruthTyped
<1>8. earlier \in Fp /\ later \in Fp /\ (earlier = later <=> spelled[1] = spelled[2])
  BY <1>3 DEF Legacy, Fp, Spellings
<1>9. ASSUME NEW fp, data.fin[fp] \in Finding, data.fin[fp].last <= 2, ~data.fin[fp].counted, data.fin[fp].rowsScan = 0
      PROVE  Sound(data, fp)
  <2>1. data.fin[fp].last \in Nat
    BY <1>9 DEF Finding
  <2>. QED  BY <1>5, <1>9, <2>1 DEF Sound, Stale
<1>. HIDE DEF earlier, later
<1>10. Told(data, truth)
  <2>1. CASE earlier = later
    <3>. DEFINE f == data.fin[later]
    <3>1. DOMAIN data.fin = {later} /\ f = Found(rule, spelled[2], 2, 1, 2, TRUE)
      BY <1>4, <2>1
    <3>2. /\ f \in Finding /\ f.rule = rule /\ f.res = spelled[2] /\ f.last = 2 /\ ~f.counted /\ f.rowsScan = 0
          /\ f.old = 2 /\ f.first = 1 /\ f.times = 2 /\ f.open = TRUE
      BY <1>3, <3>1 DEF Found, Finding
    <3>3. Sound(data, later)
      BY <1>9, <3>2
    <3>4. InPlace(data, later)
      BY <1>4, <3>2 DEF InPlace, later
    <3>5. OneTells(data, truth, later)
      BY <1>6, <3>1, <3>2, <3>3, <3>4 DEF OneTells
    <3>. QED  BY <1>8, <3>5 DEF Told
  <2>2. CASE earlier # later
    <3>. DEFINE e == data.fin[earlier]
                l == data.fin[later]
    <3>1. /\ DOMAIN data.fin = {earlier, later}
          /\ l = Found(rule, spelled[2], 2, 2, 1, TRUE)
          /\ e = Found(rule, spelled[1], 1, 1, 1, FALSE)
      BY <1>4, <2>2
    <3>2. rule = "new"
      BY <1>1, <1>8, <2>2
    <3>3. /\ e \in Finding /\ e.rule = "new" /\ e.res = spelled[1] /\ e.last = 1 /\ ~e.counted /\ e.rowsScan = 0
          /\ e.first = 1 /\ e.times = 1
      BY <1>3, <3>1, <3>2 DEF Found, Finding
    <3>4. /\ l \in Finding /\ l.rule = "new" /\ l.res = spelled[2] /\ l.last = 2 /\ ~l.counted /\ l.rowsScan = 0
          /\ l.old = 2 /\ l.first = 2 /\ l.times = 1 /\ l.open = TRUE
      BY <1>3, <3>1, <3>2 DEF Found, Finding
    <3>5. Sound(data, earlier)
      BY <1>9, <3>3
    <3>6. Sound(data, later)
      BY <1>9, <3>4
    <3>7. earlier = Legacy("new", e.res) /\ later = Legacy("new", l.res)
      BY <3>2, <3>3, <3>4 DEF earlier, later
    <3>8. "rekeyed" \notin data.marks
      BY <1>4
    <3>. HIDE DEF e, l
    <3>9. /\ e.last < l.last /\ e.first <= l.first /\ e.first = truth.first /\ l.open = truth.open /\ l.old = truth.rows
          /\ e.times + l.times = truth.times
      <4>1. e.last < l.last /\ e.first <= l.first /\ e.times + l.times = truth.times
        BY <1>6, <3>3, <3>4
      <4>2. e.first = truth.first /\ l.old = truth.rows
        BY <1>6, <3>3, <3>4
      <4>3. l.open = truth.open
        BY <1>6, <3>4
      <4>. QED  BY <4>1, <4>2, <4>3
    <3>10. TwoTell(data, truth, earlier, later)
      BY <2>2, <3>1, <3>3, <3>4, <3>5, <3>6, <3>7, <3>8, <3>9 DEF TwoTell, e, l
    <3>. QED  BY <1>8, <3>10 DEF Told
  <2>. QED  BY <2>1, <2>2
<1>11. Age(data, truth)
  BY <1>4, <1>6, <1>10 DEF Age, Unread
<1>12. RuleBy(data, at, seen)
  BY <1>2 DEF RuleBy
<1>. QED  BY <1>2, <1>7, <1>11, <1>12 DEF AgeInv

LEMMA AgeInit == UpgradeInit => AgeInv
BY ScansInit, OldSchemaAged, OldBlobsAged, OldFindingsAged DEF UpgradeInit

LEMMA AgeElsewhere ==
  ASSUME AgeInv, ScansInv', UNCHANGED <<data, truth>>, at' \in 0..27 \/ (at' = at /\ seen' = seen /\ failed' = failed)
  PROVE  AgeInv'
<1>. USE Ends
<1>1. data'.fin = data.fin /\ data'.rows = data.rows /\ SameMarks(data, data') /\ Alike(data, data')
  BY SelfAlike DEF SameMarks
<1>2. CASE at' \in 0..27
  BY <1>1, <1>2, AgeStays
<1>3. CASE at' = at /\ seen' = seen /\ failed' = failed
  BY <1>3 DEF AgeInv
<1>. QED  BY <1>2, <1>3

LEMMA AgeNext ==
  ASSUME AgeInv, [UpgradeNext]_upgradeVars
  PROVE  AgeInv'
<1>. USE Ends
<1>1. ScansInv'
  BY ScansNext DEF AgeInv
<1>2. CASE UNCHANGED upgradeVars
  BY <1>1, <1>2, AgeElsewhere DEF upgradeVars
<1>3. CASE Boot \/ Crash \/ Restart
  BY <1>1, <1>3, AgeElsewhere DEF Boot, Crash, Restart
<1>4. CASE SchemaStep /\ UNCHANGED <<data, truth>>
  BY <1>1, <1>4, AgeElsewhere, SchemaMoves DEF SchemaSteps
<1>5. CASE FindingStep /\ UNCHANGED truth
  BY <1>1, <1>5, AgeQuiet, AgeRemapped, AgeSuppressions, AgeReferences, AgeRekeyed, AgeCopied, AgeBackfilled, AgeMarked DEF FindingStep
<1>6. CASE CrashInRemap
  BY <1>1, <1>6, AgeRemapped DEF CrashInRemap
<1>7. CASE Serve
  BY <1>1, <1>7, AgeServes
<1>. QED  BY <1>2, <1>3, <1>4, <1>5, <1>6, <1>7 DEF UpgradeNext, Upgrade

LEMMA AgeAlways == UpgradeSpec => []AgeInv
<1>. QED  BY AgeInit, AgeNext, PTL DEF UpgradeSpec

\* Where the finding is once its tables can be held to what the scans saw.
LEMMA SettledHere ==
  ASSUME AgeInv, Settled
  PROVE  \/ DOMAIN data.fin = {} /\ truth.first = 0 /\ truth.rows = 0
         \/ truth.first # 0 /\ OneTells(data, truth, Here)
<1>. USE Ends
<1>1. Age(data, truth) /\ ~Unread(data, truth) /\ "rekeyed" \in data.marks
  BY DEF AgeInv, Settled, Unread
<1>2. CASE NoneTold(data, truth)
  BY <1>2 DEF NoneTold
<1>3. CASE ~NoneTold(data, truth)
  <2>1. truth.first # 0 /\ Told(data, truth)
    BY <1>1, <1>3 DEF Age
  <2>2. \A a, b \in Fp : ~TwoTell(data, truth, a, b)
    BY <1>1 DEF TwoTell
  <2>3. PICK fp \in Fp : OneTells(data, truth, fp)
    BY <2>1, <2>2 DEF Told
  <2>4. fp = Here
    BY <1>1, <2>3 DEF OneTells, InPlace
  <2>. QED  BY <2>1, <2>3, <2>4
<1>. QED  BY <1>2, <1>3

\* From any shape an older release left, and whatever stops, roll-backs, scans and spells
\* on the previous release come in between: once a finding is under today's fingerprint
\* and its history was rebuilt, it has the age, the sightings and the status its scans
\* gave it, and is the only one open (fingerprint-rekey.ts, backfillFindings()).
THEOREM AgeIsKept == UpgradeSpec => []AgeKept
<1>1. AgeInv => AgeKept
  <2>. SUFFICES ASSUME AgeInv, Settled, truth.first # 0
                PROVE  /\ Here \in DOMAIN data.fin
                       /\ data.fin[Here].first = truth.first /\ data.fin[Here].open = truth.open
                       /\ "category" \notin data.marks => data.fin[Here].times = truth.times
                       /\ \A fp \in DOMAIN data.fin \ {Here} : ~data.fin[fp].open
    BY Zenon DEF AgeKept
  <2>1. OneTells(data, truth, Here)
    BY SettledHere
  <2>. QED  BY <2>1 DEF OneTells
<1>. QED  BY <1>1, AgeAlways, PTL

\* The rows the dashboard reads are those of the last complete scan, from the table once
\* it was copied and from the old column on the previous release, and none are left of a
\* finding that is gone, unless the copy of this start rolled back (finding-rows-copy.ts).
THEOREM RowsAreServed == UpgradeSpec => []RowsServed
<1>. USE Ends
<1>1. ASSUME AgeInv, Settled, "copyRows" \notin failed
      PROVE  /\ truth.rows # 0 => IF "copied" \in data.marks THEN Here \in DOMAIN data.rows /\ data.rows[Here] = truth.rows
                                  ELSE data.fin[Here].old = truth.rows
             /\ DOMAIN data.rows \subseteq DOMAIN data.fin
  <2>1. RowsAgree(data)
    BY <1>1 DEF AgeInv, Settled
  <2>2. CASE truth.rows = 0
    BY <2>1, <2>2 DEF RowsAgree
  <2>3. CASE truth.rows # 0
    <3>1. OneTells(data, truth, Here)
      BY <1>1, <2>3, SettledHere
    <3>2. DOMAIN data.fin = {Here} /\ data.fin[Here].old = truth.rows
      BY <3>1 DEF OneTells
    <3>. QED  BY <2>1, <3>2 DEF RowsAgree
  <2>. QED  BY <2>2, <2>3
<1>2. ASSUME AgeInv, at = Back, ~truth.split, Here \in DOMAIN data.fin
      PROVE  data.fin[Here].old = truth.rows
  <2>1. Age(data, truth) /\ {"rekeyed", "findings"} \subseteq data.marks
    BY <1>2 DEF AgeInv
  <2>2. OneTells(data, truth, Here)
    BY <1>2, <2>1, OnlyHere
  <2>. QED  BY <2>2 DEF OneTells
<1>3. AgeInv => RowsServed
  BY <1>1, <1>2 DEF RowsServed
<1>. QED  BY <1>3, AgeAlways, PTL
=============================================================================
