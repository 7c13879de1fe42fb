------------------------- MODULE MiniDropRefinement -------------------------
(***************************************************************************)
(* The specifications that MiniDrop implements: LossyQueue and the         *)
(* collection part of Analysis whatever fails and, as long as the database *)
(* takes every update, TaskLifecycle; the same condition keeps live rows   *)
(* under a watcher.                                                        *)
(***************************************************************************)
EXTENDS MiniDropProofs, Handover

(* Lemmas about sequences: what can be lost of a queue in three parts.       *)

LEMMA CutMiddle ==
    ASSUME NEW S, NEW p \in Seq(S), NEW m \in Seq(S), NEW s \in Seq(S)
    PROVE  Lossy!Shortens(p \o s, p \o m \o s)
<1> DEFINE q == p \o m \o s
           i == Len(p)
           j == Len(p) + Len(m)
<1>1. /\ q \in Seq(S) /\ p \o m \in Seq(S) /\ p \o s \in Seq(S)
      /\ Len(p) \in Nat /\ Len(m) \in Nat /\ Len(s) \in Nat
      /\ Len(q) = j + Len(s)
      /\ Len(p \o s) = Len(p) + Len(s)
      /\ \A k \in 1..Len(q) :
            q[k] = IF k <= j THEN (p \o m)[k] ELSE s[k - j]
      /\ \A k \in 1..j : (p \o m)[k] = IF k <= i THEN p[k] ELSE m[k - i]
      /\ \A k \in 1..Len(p \o s) : (p \o s)[k] = IF k <= i THEN p[k] ELSE s[k - i]
  BY ConcatProperties, LenProperties
<1>2. SubSeq(q, 1, i) = p
  <2>1. \A k \in 1..i : q[k] \in S
    BY <1>1, ElementOfSeq
  <2>2. /\ SubSeq(q, 1, i) \in Seq(S)
        /\ Len(SubSeq(q, 1, i)) = i
        /\ \A k \in 1..i : SubSeq(q, 1, i)[k] = q[k]
    BY <1>1, <2>1, SubSeqProperties
  <2>3. \A k \in 1..i : SubSeq(q, 1, i)[k] = p[k]
    BY <1>1, <2>2
  <2> QED
    BY <2>2, <2>3, SeqEqual
<1>3. SubSeq(q, j + 1, Len(q)) = s
  <2>1. \A k \in (j + 1)..Len(q) : q[k] \in S
    BY <1>1, ElementOfSeq
  <2>2. /\ SubSeq(q, j + 1, Len(q)) \in Seq(S)
        /\ Len(SubSeq(q, j + 1, Len(q))) = Len(s)
        /\ \A k \in 1..Len(s) : SubSeq(q, j + 1, Len(q))[k] = q[j + k]
    BY <1>1, <2>1, SubSeqProperties
  <2>3. \A k \in 1..Len(s) : SubSeq(q, j + 1, Len(q))[k] = s[k]
    BY <1>1, <2>2
  <2> QED
    BY <2>2, <2>3, SeqEqual
<1>4. i \in 0..Len(q) /\ j \in i..Len(q)
  BY <1>1
<1> QED
  BY <1>2, <1>3, <1>4 DEF Lossy!Shortens

(* Nothing, the front part or the rear part may be what is lost.             *)
LEMMA CutParts ==
    ASSUME NEW S, NEW p \in Seq(S), NEW s \in Seq(S)
    PROVE  /\ Lossy!Shortens(p, p)
           /\ Lossy!Shortens(s, p \o s)
           /\ Lossy!Shortens(p, p \o s)
<1>1. /\ <<>> \in Seq(S)
      /\ p \o <<>> = p /\ <<>> \o s = s
      /\ p \o s \in Seq(S) /\ <<>> \o p = p
      /\ (p \o s) \o <<>> = p \o s
  BY EmptySeq, ConcatEmptySeq, ConcatProperties
<1>2. Lossy!Shortens(p \o <<>>, p \o <<>> \o <<>>)
  BY <1>1, CutMiddle
<1>3. Lossy!Shortens(<<>> \o s, <<>> \o p \o s)
  BY <1>1, CutMiddle
<1>4. Lossy!Shortens(p \o <<>>, p \o s \o <<>>)
  BY <1>1, CutMiddle
<1> QED
  BY <1>1, <1>2, <1>3, <1>4

LEMMA HeadAndTail ==
    ASSUME NEW S, NEW q \in Seq(S), q # <<>>
    PROVE  <<Head(q)>> \o Tail(q) = q
<1>1. Head(q) = q[1] /\ 1 \in 1..Len(q) /\ Len(q) \in 1..Len(q)
  BY TailType
<1>2. SubSeq(q, 1, Len(q)) = <<q[1]>> \o SubSeq(q, 1 + 1, Len(q))
  BY <1>1, SubSeqRecursiveFirst
<1>3. SubSeq(q, 1, Len(q)) = q /\ Tail(q) = SubSeq(q, 1 + 1, Len(q))
  BY SubSeqFull, TailIsSubSeq
<1> QED
  BY <1>1, <1>2, <1>3, Zenon

(* The head of a queue is the head of its first part.                        *)
LEMMA HeadOfConcat ==
    ASSUME NEW S, NEW p \in Seq(S), NEW s \in Seq(S), p # <<>>
    PROVE  /\ p \o s # <<>>
           /\ Head(p \o s) = Head(p)
           /\ Tail(p \o s) = Tail(p) \o s
<1>1. /\ Len(p) \in Nat \ {0} /\ Len(s) \in Nat
      /\ p \o s \in Seq(S) /\ Len(p \o s) = Len(p) + Len(s)
      /\ \A k \in 1..Len(p \o s) : (p \o s)[k] = IF k <= Len(p) THEN p[k] ELSE s[k - Len(p)]
  BY EmptySeq, ConcatProperties, LenProperties
<1>2. p \o s # <<>>
  BY <1>1
<1>3. /\ Head(p) = p[1] /\ Tail(p) \in Seq(S) /\ Len(Tail(p)) = Len(p) - 1
      /\ \A k \in 1..Len(Tail(p)) : Tail(p)[k] = p[k + 1]
      /\ Head(p \o s) = (p \o s)[1] /\ Tail(p \o s) \in Seq(S)
      /\ Len(Tail(p \o s)) = Len(p \o s) - 1
      /\ \A k \in 1..Len(Tail(p \o s)) : Tail(p \o s)[k] = (p \o s)[k + 1]
  BY <1>1, <1>2, TailType
<1>4. /\ Tail(p) \o s \in Seq(S) /\ Len(Tail(p) \o s) = Len(Tail(p)) + Len(s)
      /\ \A k \in 1..Len(Tail(p) \o s) :
            (Tail(p) \o s)[k] = IF k <= Len(Tail(p)) THEN Tail(p)[k] ELSE s[k - Len(Tail(p))]
  BY <1>1, <1>3, ConcatProperties
<1>5. Tail(p \o s) = Tail(p) \o s
  <2>1. \A k \in 1..Len(Tail(p) \o s) : Tail(p \o s)[k] = (Tail(p) \o s)[k]
    BY <1>1, <1>3, <1>4
  <2>2. Len(Tail(p \o s)) = Len(Tail(p) \o s)
    BY <1>1, <1>3, <1>4
  <2> QED
    BY <1>3, <1>4, <2>1, <2>2, SeqEqual
<1> QED
  BY <1>1, <1>2, <1>3, <1>5

LEMMA AppendOfConcat ==
    ASSUME NEW S, NEW p \in Seq(S), NEW s \in Seq(S), NEW x \in S
    PROVE  p \o Append(s, x) = Append(p \o s, x)
<1>1. Append(s, x) = s \o <<x>> /\ <<x>> \in Seq(S) /\ p \o s \in Seq(S)
  BY AppendIsConcat, ConcatProperties
<1>2. Append(p \o s, x) = (p \o s) \o <<x>>
  BY <1>1, AppendIsConcat
<1>3. (p \o s) \o <<x>> = p \o (s \o <<x>>)
  BY <1>1, ConcatAssociative
<1> QED
  BY <1>1, <1>2, <1>3, Zenon

------------------------------------------------------------------------------
(* MiniDrop implements LossyQueue.                                           *)

QMove == [Lossy!Next]_(Lossy!queueVars)

(* The three parts of the way are sequences of tasks.                        *)
LEMMA OnTheWayType ==
    ASSUME TypeOK, NEW a \in Agents
    PROVE  /\ task_queue[a] \in Seq(Tasks) /\ InReply(a) \in Seq(Tasks)
           /\ tasks[a] \in Seq(Tasks) /\ OnTheWay(a) \in Seq(Tasks)
           /\ task_queue[a] \o InReply(a) \in Seq(Tasks)
           /\ OnTheWay(a) = task_queue[a] \o (InReply(a) \o tasks[a])
<1>1. task_queue[a] \in Seq(Tasks) /\ tasks[a] \in Seq(Tasks) /\ carried[a] \in MaybeTask
  BY DEF TypeOK, AgentTypeOK, DropTypeOK, WireTypeOK
<1>2. InReply(a) \in Seq(Tasks)
  BY <1>1, EmptyType DEF InReply, MaybeTask
<1>3. /\ task_queue[a] \o InReply(a) \in Seq(Tasks)
      /\ (task_queue[a] \o InReply(a)) \o tasks[a] \in Seq(Tasks)
  BY <1>1, <1>2, ConcatProperties
<1>4. (task_queue[a] \o InReply(a)) \o tasks[a] = task_queue[a] \o (InReply(a) \o tasks[a])
  <2>1. \A p, m, s \in Seq(Tasks) : (p \o m) \o s = p \o (m \o s)
    BY ConcatAssociative
  <2> QED
    BY <1>1, <1>2, <2>1, Zenon
<1>5. OnTheWay(a) = (task_queue[a] \o InReply(a)) \o tasks[a]
  BY Zenon DEF OnTheWay
<1> QED
  BY <1>1, <1>2, <1>3, <1>4, <1>5, Zenon

LEMMA OnTheWayTypes == TypeOK => \A a \in Agents : OnTheWay(a) \in Seq(Tasks)
  BY OnTheWayType

LEMMA OnTheWayTypesNext == TypeOK' => (\A a \in Agents : OnTheWay(a) \in Seq(Tasks))'
  BY OnTheWayTypes, PTL

(* A step that moves no task, takes none up and loses some, or none.         *)
LEMMA QLose ==
    ASSUME TypeOK, TypeOK', UNCHANGED <<arrival, runs>>,
           \A a \in Agents : Lossy!Shortens(OnTheWay(a)', OnTheWay(a))
    PROVE  QMove
<1>1. \A a \in Agents : OnTheWay(a)' \in Seq(Tasks)
  BY OnTheWayTypesNext
<1>2. Lossy!Lose
  BY <1>1 DEF Lossy!Lose
<1> QED
  BY <1>2 DEF QMove, Lossy!Next

LEMMA QSame ==
    ASSUME UNCHANGED <<arrival, runs>>, \A a \in Agents : OnTheWay(a)' = OnTheWay(a)
    PROVE  QMove
BY DEF QMove, Lossy!queueVars

LEMMA OnTheWaySame ==
    ASSUME NEW a \in Agents, tasks'[a] = tasks[a], carried'[a] = carried[a],
           task_queue'[a] = task_queue[a]
    PROVE  OnTheWay(a)' = OnTheWay(a)
BY DEF OnTheWay, InReply

(* The way of one agent gets shorter, if it changes at all.                  *)
LEMMA QLoseOne ==
    ASSUME TypeOK, TypeOK', UNCHANGED <<arrival, runs>>, NEW a \in Agents,
           \A b \in Agents \ {a} : /\ tasks'[b] = tasks[b]
                                   /\ carried'[b] = carried[b]
                                   /\ task_queue'[b] = task_queue[b],
           Lossy!Shortens(OnTheWay(a)', OnTheWay(a))
    PROVE  QMove
<1>1. ASSUME NEW b \in Agents \ {a}
      PROVE  Lossy!Shortens(OnTheWay(b)', OnTheWay(b))
  <2>1. OnTheWay(b)' = OnTheWay(b)
    BY OnTheWaySame
  <2>2. OnTheWay(b) \in Seq(Tasks)
    BY OnTheWayType
  <2>3. Lossy!Shortens(OnTheWay(b), OnTheWay(b))
    BY <2>2, CutParts
  <2> QED
    BY <2>1, <2>3, Zenon
<1> QED
  BY <1>1, QLose

(* drop_server queues a task it has never seen: Put.                         *)
LEMMA QPut ==
    ASSUME TypeOK, RowInv, DropOnly, NEW t \in Tasks, DropCreateTask(t)
    PROVE  QMove
<1> DEFINE a == Target[t]
<1>1. /\ UNCHANGED <<runs, task_queue, carried>>
      /\ tasks' = [tasks EXCEPT ![a] = Append(@, t)]
      /\ arrival' = [arrival EXCEPT ![t] = accepted[a] + 1]
      /\ t \in createReq
  BY DEF DropCreateTask, DropOnly, agentVars
<1>2. /\ tasks \in [Agents -> Seq(Tasks)]
      /\ arrival \in [Tasks -> Nat]
      /\ accepted[a] \in Nat
      /\ a \in Agents
  BY WireAssumption DEF TypeOK, DropTypeOK
<1>3. t \notin {u \in Tasks : arrival[u] > 0}
  BY <1>1 DEF RowInv
<1>4. {u \in Tasks : arrival[u] > 0}' = {u \in Tasks : arrival[u] > 0} \cup {t}
  BY <1>1, <1>2
<1>5. \A b \in Agents \ {a} : OnTheWay(b)' = OnTheWay(b)
  BY <1>1, <1>2, OnTheWaySame
<1>6. OnTheWay(a)' = Append(OnTheWay(a), t)
  <2>1. OnTheWay(a)' = (task_queue[a] \o InReply(a)) \o Append(tasks[a], t)
    BY <1>1, <1>2 DEF OnTheWay, InReply
  <2>2. task_queue[a] \o InReply(a) \in Seq(Tasks) /\ tasks[a] \in Seq(Tasks)
    BY <1>2, OnTheWayType
  <2>3. (task_queue[a] \o InReply(a)) \o Append(tasks[a], t)
          = Append((task_queue[a] \o InReply(a)) \o tasks[a], t)
    <3>1. \A p, s \in Seq(Tasks) : p \o Append(s, t) = Append(p \o s, t)
      BY AppendOfConcat
    <3> QED
      BY <2>2, <3>1, Zenon
  <2> QED
    BY <2>1, <2>3, Zenon DEF OnTheWay
<1>7. [b \in Agents |-> OnTheWay(b)]'
        = [[b \in Agents |-> OnTheWay(b)] EXCEPT ![a] = Append(@, t)]
  BY <1>2, <1>5, <1>6
<1>8. Lossy!Put(t)
  BY <1>1, <1>3, <1>4, <1>7 DEF Lossy!Put
<1> QED
  BY <1>8 DEF QMove, Lossy!Next

(* The worker takes up the head of its queue: Take.                          *)
LEMMA QTake ==
    ASSUME TypeOK, AgentOnly, NEW a \in Agents, PopTask(a)
    PROVE  QMove
<1>1. /\ UNCHANGED <<arrival, tasks, carried>>
      /\ task_queue[a] # <<>>
      /\ task_queue' = [task_queue EXCEPT ![a] = Tail(@)]
      /\ runs' = [runs EXCEPT ![Head(task_queue[a])] = @ + 1]
  BY DEF PopTask, AgentOnly, dropVars, wireVars
<1>2. task_queue \in [Agents -> Seq(Tasks)]
  BY DEF TypeOK, AgentTypeOK
<1>3. \A b \in Agents \ {a} : OnTheWay(b)' = OnTheWay(b)
  BY <1>1, <1>2, OnTheWaySame
<1> DEFINE rest == InReply(a) \o tasks[a]
<1>4. /\ task_queue[a] \in Seq(Tasks) /\ rest \in Seq(Tasks)
      /\ OnTheWay(a) = task_queue[a] \o rest
  BY OnTheWayType, ConcatProperties
<1>5. /\ OnTheWay(a) # <<>>
      /\ Head(OnTheWay(a)) = Head(task_queue[a])
      /\ Tail(OnTheWay(a)) = Tail(task_queue[a]) \o rest
  <2>1. \A p, s \in Seq(Tasks) : p # <<>> =>
          p \o s # <<>> /\ Head(p \o s) = Head(p) /\ Tail(p \o s) = Tail(p) \o s
    BY HeadOfConcat
  <2> QED
    BY <1>1, <1>4, <2>1, Zenon
<1>6. OnTheWay(a)' = (Tail(task_queue[a]) \o InReply(a)) \o tasks[a]
  <2>1. task_queue'[a] = Tail(task_queue[a]) /\ tasks'[a] = tasks[a]
    BY <1>1, <1>2
  <2>2. InReply(a)' = InReply(a)
    BY <1>1 DEF InReply
  <2> QED
    BY <2>1, <2>2, Zenon DEF OnTheWay
<1>7. Tail(task_queue[a]) \in Seq(Tasks) /\ InReply(a) \in Seq(Tasks) /\ tasks[a] \in Seq(Tasks)
  <2>1. Tail(task_queue[a]) \in Seq(Tasks)
    BY <1>1, <1>4, TailType
  <2> QED
    BY <2>1, OnTheWayType
<1>8. (Tail(task_queue[a]) \o InReply(a)) \o tasks[a] = Tail(task_queue[a]) \o rest
  <2>1. \A p, m, s \in Seq(Tasks) : (p \o m) \o s = p \o (m \o s)
    BY ConcatAssociative
  <2> QED
    BY <1>7, <2>1, Zenon
<1>9. OnTheWay(a)' = Tail(OnTheWay(a))
  BY <1>5, <1>6, <1>8, Zenon
<1>10. [b \in Agents |-> OnTheWay(b)]'
         = [[b \in Agents |-> OnTheWay(b)] EXCEPT ![a] = Tail(@)]
  BY <1>3, <1>9
<1>11. {u \in Tasks : arrival[u] > 0}' = {u \in Tasks : arrival[u] > 0}
  BY <1>1
<1>12. Lossy!Take(a)
  BY <1>1, <1>5, <1>10, <1>11 DEF Lossy!Take
<1> QED
  BY <1>12 DEF QMove, Lossy!Next

(* A task that moves from one part to the next stays where it is in order.   *)
LEMMA QReply ==
    ASSUME TypeOK, AgentOnly, NEW a \in Agents, HeartbeatReply(a)
    PROVE  QMove
<1>1. /\ UNCHANGED <<arrival, runs, tasks>>
      /\ task_queue' = IF carried[a] = NoTask THEN task_queue
                       ELSE [task_queue EXCEPT ![a] = Append(@, carried[a])]
      /\ carried' = [carried EXCEPT ![a] = NoTask]
  BY DEF HeartbeatReply, AgentOnly, dropVars
<1>2. task_queue \in [Agents -> Seq(Tasks)] /\ carried \in [Agents -> MaybeTask]
  BY DEF TypeOK, AgentTypeOK, WireTypeOK
<1>3. \A b \in Agents \ {a} : OnTheWay(b)' = OnTheWay(b)
  BY <1>1, <1>2, OnTheWaySame
<1>4. InReply(a)' = <<>> /\ tasks'[a] = tasks[a]
  BY <1>1, <1>2 DEF InReply
<1>5. task_queue'[a] = task_queue[a] \o InReply(a) /\ task_queue'[a] \in Seq(Tasks)
  <2>1. CASE carried[a] = NoTask
    <3>1. task_queue'[a] = task_queue[a] /\ InReply(a) = <<>> /\ task_queue[a] \in Seq(Tasks)
      BY <1>1, <1>2, <2>1 DEF InReply
    <3> QED
      BY <3>1, ConcatEmptySeq
  <2>2. CASE carried[a] # NoTask
    <3>1. /\ task_queue'[a] = Append(task_queue[a], carried[a])
          /\ InReply(a) = <<carried[a]>>
          /\ carried[a] \in Tasks /\ task_queue[a] \in Seq(Tasks)
      BY <1>1, <1>2, <2>2 DEF InReply, MaybeTask
    <3>2. Append(task_queue[a], carried[a]) = task_queue[a] \o <<carried[a]>>
          /\ Append(task_queue[a], carried[a]) \in Seq(Tasks)
      BY <3>1, AppendIsConcat, AppendType
    <3> QED
      BY <3>1, <3>2, Zenon
  <2> QED
    BY <2>1, <2>2
<1>6. task_queue'[a] \o <<>> = task_queue'[a]
  BY <1>5, ConcatEmptySeq
<1>7. OnTheWay(a)' = OnTheWay(a)
  <2>1. OnTheWay(a)' = (task_queue'[a] \o InReply(a)') \o tasks'[a]
    BY Zenon DEF OnTheWay
  <2> QED
    BY <1>4, <1>5, <1>6, <2>1, Zenon DEF OnTheWay
<1> QED
  BY <1>1, <1>3, <1>7, QSame

(* The end of a served Do moves the head into the reply.                     *)
LEMMA QDo ==
    ASSUME TypeOK, ReplyInv, DropOnly, NEW a \in Agents, Do(a)
    PROVE  QMove
<1>1. /\ UNCHANGED <<arrival, runs, task_queue>>
      /\ tasks' = [tasks EXCEPT ![a] = AfterPop(a)]
      /\ carried' = [carried EXCEPT ![a] = Popped(a)]
      /\ beat[a] = "sent"
  BY DEF Do, DropOnly, agentVars
<1>2. tasks \in [Agents -> Seq(Tasks)] /\ carried \in [Agents -> MaybeTask]
  BY DEF TypeOK, DropTypeOK, WireTypeOK
<1>3. \A b \in Agents \ {a} : OnTheWay(b)' = OnTheWay(b)
  BY <1>1, <1>2, OnTheWaySame
<1>4. carried[a] = NoTask
  BY <1>1 DEF ReplyInv
<1>5. /\ tasks'[a] = AfterPop(a) /\ carried'[a] = Popped(a)
      /\ task_queue'[a] = task_queue[a] /\ InReply(a) = <<>>
  BY <1>1, <1>2, <1>4 DEF InReply
<1>6. /\ InReply(a)' \in Seq(Tasks) /\ tasks'[a] \in Seq(Tasks)
      /\ InReply(a)' \o tasks'[a] = tasks[a]
  <2>1. CASE tasks[a] = <<>>
    <3>1. InReply(a)' = <<>> /\ tasks'[a] = <<>>
      BY <1>5, <2>1 DEF Popped, AfterPop, InReply
    <3> QED
      BY <2>1, <3>1, EmptyType, ConcatEmptySeq
  <2>2. CASE tasks[a] # <<>>
    <3>1. tasks[a] \in Seq(Tasks) /\ Head(tasks[a]) \in Tasks /\ Tail(tasks[a]) \in Seq(Tasks)
      BY <1>2, <2>2, TailType
    <3>2. InReply(a)' = <<Head(tasks[a])>> /\ tasks'[a] = Tail(tasks[a])
      BY <1>5, <2>2, <3>1, WireAssumption DEF Popped, AfterPop, InReply
    <3>3. <<Head(tasks[a])>> \in Seq(Tasks)
      BY <3>1
    <3>4. <<Head(tasks[a])>> \o Tail(tasks[a]) = tasks[a]
      BY <2>2, <3>1, HeadAndTail
    <3> QED
      BY <3>1, <3>2, <3>3, <3>4, Zenon
  <2> QED
    BY <2>1, <2>2
<1>7. OnTheWay(a)' = OnTheWay(a)
  <2>1. OnTheWay(a)' = (task_queue[a] \o InReply(a)') \o tasks'[a]
    BY <1>5, Zenon DEF OnTheWay
  <2>2. task_queue[a] \in Seq(Tasks)
    BY OnTheWayType
  <2>3. \A p, m, s \in Seq(Tasks) : (p \o m) \o s = p \o (m \o s)
    BY ConcatAssociative
  <2>4. (task_queue[a] \o InReply(a)') \o tasks'[a]
          = task_queue[a] \o (InReply(a)' \o tasks'[a])
    BY <1>6, <2>2, <2>3
  <2>5. task_queue[a] \o <<>> = task_queue[a]
    BY <2>2, ConcatEmptySeq
  <2>6. OnTheWay(a) = task_queue[a] \o tasks[a]
    BY <1>5, <2>5, Zenon DEF OnTheWay
  <2> QED
    BY <1>6, <2>1, <2>4, <2>6, Zenon
<1> QED
  BY <1>1, <1>3, <1>7, QSame

(* What is lost: the reply with a call that fails, the head of drop_server's *)
(* queue with an abandoned Do, a queue with its process.                     *)
LEMMA QAbandon ==
    ASSUME TypeOK, TypeOK', AgentOnly, NEW a \in Agents,
           HeartbeatFailed(a) \/ AgentCrash(a)
    PROVE  QMove
<1>1. /\ UNCHANGED <<arrival, runs, tasks>>
      /\ carried' = [carried EXCEPT ![a] = NoTask]
      /\ task_queue' = task_queue \/ task_queue' = [task_queue EXCEPT ![a] = <<>>]
  BY DEF HeartbeatFailed, AgentCrash, AgentOnly, dropVars, agentVars, Abandon
<1>2. task_queue \in [Agents -> Seq(Tasks)] /\ carried \in [Agents -> MaybeTask]
  BY DEF TypeOK, AgentTypeOK, WireTypeOK
<1>3. \A b \in Agents \ {a} : /\ tasks'[b] = tasks[b] /\ carried'[b] = carried[b]
                              /\ task_queue'[b] = task_queue[b]
  BY <1>1, <1>2
<1>4. /\ task_queue[a] \in Seq(Tasks) /\ InReply(a) \in Seq(Tasks) /\ tasks[a] \in Seq(Tasks)
      /\ task_queue[a] \o InReply(a) \in Seq(Tasks)
  BY OnTheWayType
<1>5. InReply(a)' = <<>> /\ tasks'[a] = tasks[a]
  BY <1>1, <1>2 DEF InReply
<1>6. OnTheWay(a)' = (task_queue'[a] \o InReply(a)') \o tasks'[a]
  BY Zenon DEF OnTheWay
<1>7. CASE task_queue' = task_queue
  <2>1. task_queue[a] \o <<>> = task_queue[a]
    BY <1>4, ConcatEmptySeq
  <2>2. OnTheWay(a)' = task_queue[a] \o tasks[a]
    BY <1>5, <1>6, <1>7, <2>1, Zenon
  <2>3. Lossy!Shortens(task_queue[a] \o tasks[a], task_queue[a] \o InReply(a) \o tasks[a])
    BY <1>4, CutMiddle
  <2>4. Lossy!Shortens(OnTheWay(a)', OnTheWay(a))
    BY <2>2, <2>3, Zenon DEF OnTheWay
  <2> QED
    BY <1>1, <1>3, <2>4, QLoseOne
<1>8. CASE task_queue' = [task_queue EXCEPT ![a] = <<>>]
  <2>1. task_queue'[a] = <<>> /\ <<>> \o <<>> = <<>> /\ <<>> \o tasks[a] = tasks[a]
    BY <1>2, <1>4, <1>8, EmptyType, ConcatEmptySeq
  <2>2. OnTheWay(a)' = tasks[a]
    BY <1>5, <1>6, <2>1, Zenon
  <2>3. \A p, s \in Seq(Tasks) : Lossy!Shortens(s, p \o s)
    BY CutParts
  <2>4. Lossy!Shortens(OnTheWay(a)', OnTheWay(a))
    BY <1>4, <2>2, <2>3, Zenon DEF OnTheWay
  <2> QED
    BY <1>1, <1>3, <2>4, QLoseOne
<1> QED
  BY <1>1, <1>7, <1>8

LEMMA QDoAbandoned ==
    ASSUME TypeOK, TypeOK', DropOnly, NEW a \in Agents, DoAbandoned(a)
    PROVE  QMove
<1>1. /\ UNCHANGED <<arrival, runs, task_queue, carried>>
      /\ tasks' = [tasks EXCEPT ![a] = AfterPop(a)]
  BY DEF DoAbandoned, DropOnly, agentVars
<1>2. tasks \in [Agents -> Seq(Tasks)]
  BY DEF TypeOK, DropTypeOK
<1>3. \A b \in Agents \ {a} : /\ tasks'[b] = tasks[b] /\ carried'[b] = carried[b]
                              /\ task_queue'[b] = task_queue[b]
  BY <1>1, <1>2
<1>4. /\ task_queue[a] \o InReply(a) \in Seq(Tasks) /\ tasks[a] \in Seq(Tasks)
      /\ OnTheWay(a) \in Seq(Tasks)
  BY OnTheWayType
<1>5. CASE tasks[a] = <<>>
  <2>1. tasks'[a] = tasks[a]
    BY <1>1, <1>2, <1>5 DEF AfterPop
  <2>2. OnTheWay(a)' = OnTheWay(a)
    BY <1>1, <2>1, OnTheWaySame
  <2>3. Lossy!Shortens(OnTheWay(a), OnTheWay(a))
    BY <1>4, CutParts
  <2> QED
    BY <1>1, <1>3, <2>2, <2>3, QLoseOne, Zenon
<1>6. CASE tasks[a] # <<>>
  <2> DEFINE p == task_queue[a] \o InReply(a)
             m == <<Head(tasks[a])>>
             s == Tail(tasks[a])
  <2>1. p \in Seq(Tasks) /\ m \in Seq(Tasks) /\ s \in Seq(Tasks) /\ m \o s = tasks[a]
    <3>1. s \in Seq(Tasks) /\ Head(tasks[a]) \in Tasks
      BY <1>4, <1>6, TailType
    <3>2. m \o s = tasks[a]
      BY <1>4, <1>6, HeadAndTail
    <3>3. m \in Seq(Tasks)
      BY <3>1
    <3> QED
      BY <1>4, <3>1, <3>2, <3>3
  <2>2. OnTheWay(a)' = p \o s
    <3>1. /\ tasks'[a] = s /\ task_queue'[a] = task_queue[a]
          /\ InReply(a)' = InReply(a)
      BY <1>1, <1>2, <1>6 DEF AfterPop, InReply
    <3> QED
      BY <3>1, Zenon DEF OnTheWay
  <2>3. OnTheWay(a) = p \o tasks[a]
    BY Zenon DEF OnTheWay
  <2> HIDE DEF p, m, s
  <2>4. Lossy!Shortens(p \o s, (p \o m) \o s) /\ (p \o m) \o s = p \o (m \o s)
    <3>1. Lossy!Shortens(p \o s, (p \o m) \o s)
      BY <2>1, CutMiddle
    <3>2. \A x, y, z \in Seq(Tasks) : (x \o y) \o z = x \o (y \o z)
      BY ConcatAssociative
    <3> QED
      BY <2>1, <3>1, <3>2, Zenon
  <2>5. Lossy!Shortens(OnTheWay(a)', OnTheWay(a))
    BY <2>1, <2>2, <2>3, <2>4, Zenon
  <2> QED
    BY <1>1, <1>3, <2>5, QLoseOne
<1> QED
  BY <1>5, <1>6

LEMMA QServerCrash ==
    ASSUME TypeOK, TypeOK', DropOnly, DropServerCrash
    PROVE  QMove
<1>1. /\ UNCHANGED <<arrival, runs, task_queue, carried>>
      /\ tasks' = [a \in Agents |-> <<>>]
  BY DEF DropServerCrash, DropOnly, agentVars
<1>2. ASSUME NEW a \in Agents
      PROVE  Lossy!Shortens(OnTheWay(a)', OnTheWay(a))
  <2>1. /\ task_queue[a] \o InReply(a) \in Seq(Tasks) /\ tasks[a] \in Seq(Tasks)
    BY OnTheWayType
  <2>2. /\ tasks'[a] = <<>> /\ task_queue'[a] = task_queue[a]
        /\ InReply(a)' = InReply(a)
    BY <1>1 DEF InReply
  <2>3. (task_queue[a] \o InReply(a)) \o <<>> = task_queue[a] \o InReply(a)
    BY <2>1, ConcatEmptySeq
  <2>4. OnTheWay(a)' = task_queue[a] \o InReply(a)
    BY <2>2, <2>3, Zenon DEF OnTheWay
  <2>5. \A p, s \in Seq(Tasks) : Lossy!Shortens(p, p \o s)
    BY CutParts
  <2> QED
    BY <2>1, <2>4, <2>5, Zenon DEF OnTheWay
<1> QED
  BY <1>1, <1>2, QLose

LEMMA QStep ==
    ASSUME TypeOK, TypeOK', RowInv, ReplyInv, [Next]_vars
    PROVE  QMove
<1>1. ASSUME UNCHANGED <<arrival, runs, tasks, carried, task_queue>>
      PROVE  QMove
  BY <1>1, OnTheWaySame, QSame
<1>2. ASSUME ApiOnly,
             \/ ApiserverCrash
             \/ \E t \in Tasks :
                  \/ CreateTask(t) \/ SkipDispatch(t) \/ CallDrop(t)
                  \/ DispatchFailed(t) \/ Dispatched(t) \/ DeleteTask(t)
                  \/ \E old \in Tasks : RetryTask(old, t)
                  \/ TimePasses(t) \/ WatcherTimeout(t) \/ WatcherTick(t)
                  \/ WatcherFetch(t)
      PROVE  UNCHANGED <<arrival, runs, tasks, carried, task_queue>>
  BY <1>2 DEF ApiOnly, dropVars, agentVars, wireVars, ApiserverCrash, CreateTask,
     SkipDispatch, CallDrop, DispatchFailed, Dispatched, DeleteTask, RetryTask,
     TimePasses, WatcherTimeout, WatcherTick, WatcherFetch, WatcherFetched
<1>3. ASSUME NEW t \in Tasks, NEW o \in Outcomes, DropNotifyResult(t, o), DropOnly
      PROVE  UNCHANGED <<arrival, runs, tasks, carried, task_queue>>
  BY <1>3 DEF DropNotifyResult, DropOnly, agentVars
<1>4. ASSUME NEW a \in Agents, AgentOnly,
             \/ StartAgent(a) \/ SendHeartbeat(a) \/ Record(a) \/ PutFile(a)
             \/ NotifyResult(a) \/ NotifyReturn(a)
      PROVE  UNCHANGED <<arrival, runs, tasks, carried, task_queue>>
  BY <1>4 DEF AgentOnly, dropVars, StartAgent, SendHeartbeat, Record, PutFile,
     NotifyResult, NotifyReturn, wireVars, agentVars
<1>5. CASE UNCHANGED vars
  BY <1>1, <1>5 DEF vars, wireVars, dropVars, agentVars
<1>6. CASE Next
  BY <1>1, <1>2, <1>3, <1>4, <1>6, QPut, QTake, QReply, QDo, QAbandon, QDoAbandoned,
     QServerCrash DEF Next
<1> QED
  BY <1>5, <1>6

(* Whatever calls are lost, late or abandoned and whatever crashes, an agent *)
(* gets its tasks from one first-in first-out queue which loses some of them *)
(* and never repeats, reorders or invents one.                               *)
THEOREM ImplementsLossyQueue == Spec => LossyQueueSpec
<1>1. Init => Lossy!Init
  <2> SUFFICES ASSUME Init PROVE Lossy!Init
    OBVIOUS
  <2>1. ASSUME NEW a \in Agents PROVE OnTheWay(a) = <<>>
    <3>1. task_queue[a] = <<>> /\ InReply(a) = <<>> /\ tasks[a] = <<>>
      BY DEF Init, WireInit, DropInit, AgentInit, InReply
    <3>2. <<>> \o <<>> = <<>>
      BY EmptyType, ConcatEmptySeq
    <3> QED
      BY <3>1, <3>2, Zenon DEF OnTheWay
  <2>2. {t \in Tasks : arrival[t] > 0} = {} /\ runs = [t \in Tasks |-> 0]
    BY DEF Init, DropInit, AgentInit
  <2> QED
    BY <2>1, <2>2 DEF Lossy!Init
<1>2. IInv /\ IInv' /\ [Next]_vars => QMove
  BY QStep DEF IInv
<1> QED
  BY <1>1, <1>2, Inductive, PTL DEF Spec, QMove, LossyQueueSpec, Lossy!Spec

------------------------------------------------------------------------------
UpdatesArrive == "db write" \notin Faults

(* The watcher only ever sees a live row in one of the states it may leave.  *)
WatcherInv ==
    \A t \in Tasks :
        Watching(t) /\ ~deleted[t] => status[t] \in {"RUNNING", "UPLOADING"}

RInv == IInv /\ WatcherInv /\ RunningIsWatched

(* What an update does when it arrives: nothing to a deleted row.            *)
LEMMA ArrivedUpdate ==
    ASSUME UpdatesArrive, TypeOK, NEW t \in Tasks, NEW s \in Statuses, UpdateStatus(t, s)
    PROVE  /\ \A u \in Tasks \ {t} : status'[u] = status[u]
           /\ deleted[t] => status' = status
           /\ ~deleted[t] => status' = [status EXCEPT ![t] = s] /\ status'[t] = s
  BY DEF TypeOK, ApiTypeOK, UpdateStatus, UpdatesArrive

(* The handlers.                                                             *)
LEMMA WatchHandler ==
    ASSUME UpdatesArrive, RInv, NEW t \in Tasks,
           \/ CreateTask(t) \/ SkipDispatch(t) \/ CallDrop(t)
           \/ DispatchFailed(t) \/ Dispatched(t) \/ DeleteTask(t)
           \/ \E old \in Tasks : RetryTask(old, t)
    PROVE  WatcherInv' /\ RunningIsWatched'
<1> USE DEF RInv, WatcherInv, RunningIsWatched, Watching
<1>1. TypeOK /\ RowInv
  BY DEF IInv
<1>2. CASE CreateTask(t) \/ \E old \in Tasks : RetryTask(old, t)
  BY <1>1, <1>2 DEF CreateTask, RetryTask, RowInv, TypeOK, ApiTypeOK
<1>3. CASE SkipDispatch(t) \/ CallDrop(t)
  BY <1>3 DEF SkipDispatch, CallDrop
<1>4. CASE DispatchFailed(t)
  BY <1>1, <1>4, ArrivedUpdate DEF DispatchFailed, Statuses, RowInv
<1>5. CASE Dispatched(t)
  BY <1>1, <1>5, ArrivedUpdate DEF Dispatched, Statuses, TypeOK, ApiTypeOK
<1>6. CASE DeleteTask(t)
  BY <1>1, <1>6 DEF DeleteTask, TypeOK, ApiTypeOK
<1>7. QED
  BY <1>2, <1>3, <1>4, <1>5, <1>6

(* The watcher itself.                                                       *)
LEMMA WatchWatcher ==
    ASSUME UpdatesArrive, RInv, NEW t \in Tasks,
           TimePasses(t) \/ WatcherTimeout(t) \/ WatcherTick(t) \/ WatcherFetch(t)
    PROVE  WatcherInv' /\ RunningIsWatched'
<1> USE DEF RInv, WatcherInv, RunningIsWatched, Watching
<1>1. TypeOK /\ watcher \in [Tasks -> WatcherStates]
  BY DEF IInv, TypeOK, ApiTypeOK
<1>2. CASE TimePasses(t)
  BY <1>2 DEF TimePasses
<1>3. CASE WatcherTimeout(t)
  BY <1>1, <1>3, ArrivedUpdate DEF WatcherTimeout, StopWatcher, LeaveLoop, Statuses
<1>4. CASE WatcherTick(t)
  BY <1>1, <1>4, ArrivedUpdate DEF WatcherTick, Statuses
<1>5. CASE WatcherFetch(t)
  <2>1. PICK r \in {"unavailable", FetchData(t)} : WatcherFetched(t, r)
    BY <1>5 DEF WatcherFetch
  <2>2. UNCHANGED deleted
    BY <2>1 DEF WatcherFetched
  <2>3. CASE r \in {"unavailable", "none"}
    BY <1>1, <2>1, <2>3 DEF WatcherFetched
  <2>4. CASE r \in {"ok", "err"}
    BY <1>1, <2>1, <2>2, <2>4, ArrivedUpdate DEF WatcherFetched, StopWatcher, LeaveLoop, Statuses
  <2>5. QED
    BY <2>1, <2>3, <2>4 DEF WatcherFetched
<1>6. QED
  BY <1>2, <1>3, <1>4, <1>5

LEMMA WatchStep ==
    ASSUME UpdatesArrive, RInv, [Next]_vars
    PROVE  WatcherInv' /\ RunningIsWatched'
<1>1. CASE UNCHANGED <<status, deleted, watcher>>
  BY <1>1 DEF RInv, WatcherInv, RunningIsWatched, Watching
<1>2. CASE ApiserverCrash
  BY <1>2 DEF ApiserverCrash, RInv, WatcherInv, RunningIsWatched, Watching
<1>3. CASE Next
  BY <1>1, <1>2, <1>3, WatchHandler, WatchWatcher DEF Next, DropOnly, AgentOnly, apiVars
<1>4. QED
  BY <1>1, <1>3 DEF vars, apiVars

------------------------------------------------------------------------------
(* The refinement.                                                           *)

LMove == [Lifecycle!Next]_<<status, deleted, objects>>

(* A status changes by one of the moves of the life cycle.                   *)
LEMMA RefineMove ==
    ASSUME TypeOK, UNCHANGED <<deleted, objects>>, NEW t \in Tasks, NEW s \in Statuses,
           status' = [status EXCEPT ![t] = s], ~deleted[t],
           \/ status[t] = "PENDING" /\ s \in {"RUNNING", "FAILED"}
           \/ status[t] = "RUNNING" /\ s = "UPLOADING"
           \/ status[t] \in {"RUNNING", "UPLOADING"} /\ s = "FAILED"
           \/ status[t] \in {"RUNNING", "UPLOADING"} /\ s = "DONE" /\ t \in objects
    PROVE  Lifecycle!Next
<1>1. CASE status[t] = "PENDING" /\ s = "RUNNING"
  BY <1>1 DEF Lifecycle!Next, Lifecycle!Start, Lifecycle!Move
<1>2. CASE s = "FAILED"
  BY <1>2 DEF Lifecycle!Next, Lifecycle!Fail, Lifecycle!Move
<1>3. CASE status[t] = "RUNNING" /\ s = "UPLOADING"
  BY <1>3 DEF Lifecycle!Next, Lifecycle!CollectionOver, Lifecycle!Move
<1>4. CASE s = "DONE" /\ t \in objects
  BY <1>4 DEF Lifecycle!Next, Lifecycle!Complete, Lifecycle!Move
<1>5. QED
  BY <1>1, <1>2, <1>3, <1>4

LEMMA RefineHandler ==
    ASSUME UpdatesArrive, RInv, ApiOnly, NEW t \in Tasks,
           \/ CreateTask(t) \/ SkipDispatch(t) \/ CallDrop(t)
           \/ DispatchFailed(t) \/ Dispatched(t) \/ DeleteTask(t)
           \/ \E old \in Tasks : RetryTask(old, t)
    PROVE  LMove
<1>1. TypeOK /\ RowInv /\ UNCHANGED objects
  BY DEF RInv, IInv, ApiOnly, agentVars
<1>2. CASE CreateTask(t) \/ \E old \in Tasks : RetryTask(old, t)
  BY <1>1, <1>2 DEF CreateTask, RetryTask, LMove, Lifecycle!Next, Lifecycle!Create, Lifecycle!Move
<1>3. CASE SkipDispatch(t) \/ CallDrop(t)
  BY <1>1, <1>3 DEF SkipDispatch, CallDrop, LMove
<1>4. CASE DispatchFailed(t)
  <2>1. status[t] = "PENDING" /\ UpdateStatus(t, "FAILED") /\ UNCHANGED deleted
    BY <1>1, <1>4 DEF DispatchFailed, RowInv
  <2>2. QED
    BY <1>1, <2>1, ArrivedUpdate, RefineMove DEF LMove, Statuses
<1>5. CASE Dispatched(t)
  <2>1. status[t] = "PENDING" /\ UpdateStatus(t, "RUNNING") /\ UNCHANGED deleted
    BY <1>1, <1>5 DEF Dispatched, RowInv
  <2>2. QED
    BY <1>1, <2>1, ArrivedUpdate, RefineMove DEF LMove, Statuses
<1>6. CASE DeleteTask(t)
  BY <1>1, <1>6 DEF DeleteTask, LMove, Lifecycle!Next, Lifecycle!Delete
<1>7. QED
  BY <1>2, <1>3, <1>4, <1>5, <1>6

LEMMA RefineWatcher ==
    ASSUME UpdatesArrive, RInv, ApiOnly, NEW t \in Tasks,
           TimePasses(t) \/ WatcherTimeout(t) \/ WatcherTick(t) \/ WatcherFetch(t)
    PROVE  LMove
<1>1. TypeOK /\ UNCHANGED objects
  BY DEF RInv, IInv, ApiOnly, agentVars
<1>2. Watching(t) /\ UNCHANGED deleted
  BY DEF TimePasses, WatcherTimeout, WatcherTick, WatcherFetch, WatcherFetched, Watching
<1>3. ~deleted[t] => status[t] \in {"RUNNING", "UPLOADING"}
  BY <1>2 DEF RInv, WatcherInv
<1>4. ASSUME NEW s \in {"FAILED", "DONE"}, UpdateStatus(t, s), s = "DONE" => t \in objects
      PROVE  LMove
  BY <1>1, <1>2, <1>3, <1>4, ArrivedUpdate, RefineMove DEF LMove, Statuses
<1>5. CASE UNCHANGED status
  BY <1>1, <1>2, <1>5 DEF LMove
<1>6. CASE TimePasses(t)
  BY <1>5, <1>6 DEF TimePasses
<1>7. CASE WatcherTimeout(t)
  BY <1>4, <1>7 DEF WatcherTimeout
<1>8. CASE WatcherTick(t)
  <2>1. UNCHANGED status \/ (status[t] = "RUNNING" /\ UpdateStatus(t, "UPLOADING"))
    BY <1>8 DEF WatcherTick
  <2>2. QED
    BY <1>1, <1>2, <1>5, <2>1, ArrivedUpdate, RefineMove DEF LMove, Statuses
<1>9. CASE WatcherFetch(t)
  <2>1. PICK r \in {"unavailable", results[t]} : WatcherFetched(t, r)
    BY <1>9 DEF WatcherFetch, FetchData
  <2>2. CASE r = "ok"
    <3>1. t \in objects
      BY <2>1, <2>2 DEF RInv, IInv, CollectInv, Evidence, Collected
    <3>2. UpdateStatus(t, "DONE")
      BY <2>1, <2>2 DEF WatcherFetched
    <3>3. QED
      BY <1>4, <3>1, <3>2
  <2>3. CASE r = "err"
    BY <1>4, <2>1, <2>3 DEF WatcherFetched
  <2>4. QED
    BY <1>5, <2>1, <2>2, <2>3 DEF WatcherFetched
<1>10. QED
  BY <1>6, <1>7, <1>8, <1>9

LEMMA RefineAgent ==
    ASSUME RInv, AgentOnly, NEW a \in Agents,
           \/ StartAgent(a) \/ SendHeartbeat(a) \/ HeartbeatFailed(a)
           \/ HeartbeatReply(a) \/ PopTask(a) \/ Record(a) \/ PutFile(a)
           \/ NotifyResult(a) \/ NotifyReturn(a) \/ AgentCrash(a)
    PROVE  LMove
<1>1. UNCHANGED <<status, deleted>>
  BY DEF AgentOnly, apiVars
<1>2. CASE UNCHANGED objects
  BY <1>1, <1>2 DEF LMove
<1>3. CASE PutFile(a)
  <2>1. job[a] \in Tasks
    BY <1>3 DEF RInv, IInv, BusyHasJob, PutFile
  <2>2. runs[job[a]] = 1
    BY <2>1 DEF RInv, IInv, CollectInv, WorkerInv
  <2>3. status[job[a]] # "ABSENT"
    BY <2>1, <2>2 DEF RInv, IInv, RowInv
  <2>4. objects' = objects \/ objects' = objects \cup {job[a]}
    BY <1>3 DEF PutFile
  <2>5. QED
    BY <1>1, <1>2, <2>1, <2>3, <2>4 DEF LMove, Lifecycle!Next, Lifecycle!Store
<1>4. QED
  BY <1>2, <1>3 DEF StartAgent, SendHeartbeat, HeartbeatFailed, HeartbeatReply, PopTask,
     Record, NotifyResult, NotifyReturn, AgentCrash, agentVars

LEMMA RefineStep ==
    ASSUME UpdatesArrive, RInv, [Next]_vars
    PROVE  LMove
<1>1. CASE UNCHANGED <<status, deleted, objects>>
  BY <1>1 DEF LMove
<1>2. CASE ApiserverCrash /\ ApiOnly
  BY <1>1, <1>2 DEF ApiserverCrash, ApiOnly, agentVars
<1>3. ASSUME DropOnly
      PROVE  UNCHANGED <<status, deleted, objects>>
  BY <1>3 DEF DropOnly, apiVars, agentVars
<1>4. CASE Next
  BY <1>1, <1>2, <1>3, <1>4, RefineHandler, RefineWatcher, RefineAgent DEF Next
<1>5. QED
  BY <1>1, <1>4 DEF vars, apiVars, agentVars

LEMMA RefineInvariant ==
    ASSUME UpdatesArrive
    PROVE  Spec => []RInv
<1>1. Init => RInv
  BY IInvInit DEF Init, ApiInit, RInv, WatcherInv, RunningIsWatched, Watching
<1>2. RInv /\ [Next]_vars => RInv'
  BY IInvStep, WatchStep DEF RInv
<1>3. QED
  BY <1>1, <1>2, PTL DEF Spec

(* As long as updates reach the database, no path through the handler or the *)
(* watcher leaves a live unfinished row without its watcher.                 *)
THEOREM RunningStaysWatched ==
    ASSUME UpdatesArrive
    PROVE  Spec => []RunningIsWatched
<1>1. RInv => RunningIsWatched
  BY DEF RInv
<1>2. QED
  BY <1>1, RefineInvariant, PTL

(* As long as updates reach the database, the rows and the storage go        *)
(* through the life cycle of TaskLifecycle and no other.                     *)
THEOREM ImplementsLifecycle ==
    ASSUME UpdatesArrive
    PROVE  Spec => LifecycleSpec
<1>1. Init => Lifecycle!Init
  BY DEF Init, ApiInit, AgentInit, Lifecycle!Init
<1>2. RInv /\ [Next]_vars => LMove
  BY RefineStep
<1>3. QED
  BY <1>1, <1>2, RefineInvariant, PTL DEF Spec, LMove, LifecycleSpec, Lifecycle!Spec
------------------------------------------------------------------------------
(* MiniDrop keeps to what Analysis says of a collection.  What it rests on:  *)
(* a watcher is there as soon as the handler says so, and a row that no      *)
(* handler sends is left alone.                                              *)
HandoverInv ==
    \A t \in Tasks :
        /\ watcher[t] # "none" <=> handler[t] = "dispatched"
        /\ handler[t] \in {"undispatched", "retried"} => status[t] = "PENDING"

AMove == [Analysed!AnalysisNext]_(Analysed!analysisVars)

(* What a step does to the row of u as Analysis sees it.                     *)
SameRow(u) == RowStatus(u)' = RowStatus(u) /\ Trigger(u)' = Trigger(u)

LEMMA HandoverSame ==
    ASSUME UNCHANGED deleted, \A u \in Tasks : SameRow(u)
    PROVE  AMove
  BY DEF SameRow, AMove, Analysed!analysisVars, Analysed!rowVars, Analysed!outputVars

(* An update to s that arrives, that meets a deleted row or that is lost.    *)
Writes(t, s) ==
    \/ ~deleted[t] /\ RowStatus(t)' = s
    \/ (deleted[t] \/ "db write" \in Faults) /\ RowStatus(t)' = RowStatus(t)

LEMMA HandoverEnds ==
    ASSUME NEW t \in Tasks, UNCHANGED deleted, Trigger(t) = "none",
           \A u \in Tasks \ {t} : SameRow(u),
           \/ Writes(t, "FAILED") /\ Trigger(t)' = "over"
           \/ Writes(t, "DONE") /\ Trigger(t)' = "marking"
    PROVE  AMove
<1> DEFINE st == [u \in Tasks |-> RowStatus(u)]
           tr == [u \in Tasks |-> Trigger(u)]
<1>1. CASE Writes(t, "FAILED") /\ Trigger(t)' = "over"
  <2>1. tr' = [tr EXCEPT ![t] = "over"]
    BY <1>1 DEF SameRow
  <2>2. \/ ~deleted[t] /\ st' = [st EXCEPT ![t] = "FAILED"]
        \/ (deleted[t] \/ "db write" \in Faults) /\ st' = st
    BY <1>1 DEF SameRow, Writes
  <2>3. Analysed!CollectionFails(t)
    BY <2>1, <2>2 DEF Analysed!CollectionFails, Analysed!outputVars
  <2> QED
    BY <2>3 DEF AMove, Analysed!AnalysisNext
<1>2. CASE Writes(t, "DONE") /\ Trigger(t)' = "marking"
  <2>1. tr' = [tr EXCEPT ![t] = "marking"]
    BY <1>2 DEF SameRow
  <2>2. \/ ~deleted[t] /\ st' = [st EXCEPT ![t] = "DONE"]
        \/ (deleted[t] \/ "db write" \in Faults) /\ st' = st
    BY <1>2 DEF SameRow, Writes
  <2>3. Analysed!CollectionDone(t)
    BY <2>1, <2>2 DEF Analysed!CollectionDone, Analysed!outputVars
  <2> QED
    BY <2>3 DEF AMove, Analysed!AnalysisNext
<1> QED
  BY <1>1, <1>2

LEMMA HandoverUploading ==
    ASSUME NEW t \in Tasks, UNCHANGED deleted, ~deleted[t],
           \A u \in Tasks \ {t} : SameRow(u),
           Trigger(t) = "none", Trigger(t)' = "none",
           RowStatus(t) = "RUNNING", RowStatus(t)' = "UPLOADING"
    PROVE  AMove
<1> DEFINE st == [u \in Tasks |-> RowStatus(u)]
           tr == [u \in Tasks |-> Trigger(u)]
<1>1. tr' = tr /\ st' = [st EXCEPT ![t] = "UPLOADING"]
  BY DEF SameRow
<1>2. Analysed!Uploading(t)
  BY <1>1 DEF Analysed!Uploading, Analysed!outputVars
<1> QED
  BY <1>2 DEF AMove, Analysed!AnalysisNext

(* What UpdateStatus does to the row of a task that has one.                 *)
LEMMA HandoverUpdate ==
    ASSUME TypeOK, NEW t \in Tasks, NEW s \in {"UPLOADING", "DONE", "FAILED"},
           status[t] # "ABSENT", UpdateStatus(t, s)
    PROVE  Writes(t, s) /\ \A u \in Tasks \ {t} : RowStatus(u)' = RowStatus(u)
  BY DEF TypeOK, ApiTypeOK, UpdateStatus, Writes, RowStatus

LEMMA HandoverHandler ==
    ASSUME TypeOK, RowInv, HandoverInv, NEW t \in Tasks,
           \/ CreateTask(t) \/ SkipDispatch(t) \/ CallDrop(t)
           \/ DispatchFailed(t) \/ Dispatched(t) \/ DeleteTask(t)
           \/ \E old \in Tasks : RetryTask(old, t)
    PROVE  AMove
<1> USE DEF HandoverInv
<1>1. CASE CreateTask(t) \/ \E old \in Tasks : RetryTask(old, t)
  <2>1. \A u \in Tasks : SameRow(u)
    BY <1>1 DEF CreateTask, RetryTask, SameRow, RowStatus, Trigger, TypeOK, ApiTypeOK, RowInv
  <2> QED
    BY <1>1, <2>1, HandoverSame DEF CreateTask, RetryTask
<1>2. CASE SkipDispatch(t) \/ CallDrop(t)
  <2>1. \A u \in Tasks : SameRow(u)
    BY <1>2 DEF SkipDispatch, CallDrop, SameRow, RowStatus, Trigger, TypeOK, ApiTypeOK
  <2> QED
    BY <1>2, <2>1, HandoverSame DEF SkipDispatch, CallDrop
<1>3. CASE DispatchFailed(t)
  <2>1. handler[t] = "calling" /\ watcher[t] = "none" /\ status[t] = "PENDING"
    BY <1>3 DEF DispatchFailed, RowInv
  <2>2. Trigger(t) = "none" /\ Trigger(t)' = "over"
    BY <1>3, <2>1 DEF DispatchFailed, Trigger, TypeOK, ApiTypeOK
  <2>3. \A u \in Tasks \ {t} : Trigger(u)' = Trigger(u)
    BY <1>3 DEF DispatchFailed, Trigger, TypeOK, ApiTypeOK
  <2>4. Writes(t, "FAILED") /\ \A u \in Tasks \ {t} : RowStatus(u)' = RowStatus(u)
    BY <1>3, <2>1, HandoverUpdate DEF DispatchFailed
  <2> QED
    BY <1>3, <2>2, <2>3, <2>4, HandoverEnds DEF DispatchFailed, SameRow
<1>4. CASE Dispatched(t)
  <2>1. handler[t] = "calling" /\ watcher[t] = "none" /\ status[t] = "PENDING"
    BY <1>4 DEF Dispatched, RowInv
  <2>2. \A u \in Tasks : Trigger(u)' = Trigger(u)
    BY <1>4, <2>1 DEF Dispatched, Trigger, TypeOK, ApiTypeOK
  <2>3. status'[t] \in {"PENDING", "RUNNING"} /\ \A u \in Tasks \ {t} : status'[u] = status[u]
    BY <1>4, <2>1 DEF Dispatched, UpdateStatus, TypeOK, ApiTypeOK
  <2>4. \A u \in Tasks : RowStatus(u)' = RowStatus(u)
    BY <2>1, <2>3 DEF RowStatus
  <2> QED
    BY <1>4, <2>2, <2>4, HandoverSame DEF Dispatched, SameRow
<1>5. CASE DeleteTask(t)
  <2>1. \A u \in Tasks : SameRow(u)
    BY <1>5 DEF DeleteTask, SameRow, RowStatus, Trigger
  <2>2. Analysed!DeleteTask(t)
    BY <1>5, <2>1 DEF DeleteTask, SameRow, Analysed!DeleteTask, Analysed!outputVars
  <2> QED
    BY <2>2 DEF AMove, Analysed!AnalysisNext
<1> QED
  BY <1>1, <1>2, <1>3, <1>4, <1>5

LEMMA HandoverWatcher ==
    ASSUME TypeOK, RowInv, HandoverInv, NEW t \in Tasks,
           TimePasses(t) \/ WatcherTimeout(t) \/ WatcherTick(t) \/ WatcherFetch(t)
    PROVE  AMove
<1>1. /\ watcher[t] \in {"polling", "fetching"} /\ handler[t] = "dispatched"
      /\ status[t] # "ABSENT"
      /\ UNCHANGED <<deleted, handler>>
      /\ Trigger(t) = "none"
  BY DEF TimePasses, WatcherTimeout, WatcherTick, WatcherFetch, WatcherFetched, Watching,
     RowInv, Trigger
<1>2. \A u \in Tasks \ {t} : Trigger(u)' = Trigger(u)
  BY <1>1 DEF TimePasses, WatcherTimeout, WatcherTick, WatcherFetch, WatcherFetched,
     StopWatcher, LeaveLoop, Trigger, TypeOK, ApiTypeOK
<1>3. ASSUME StopWatcher(t), UpdateStatus(t, "FAILED") PROVE AMove
  <2>1. Trigger(t)' = "over"
    BY <1>1, <1>3 DEF StopWatcher, LeaveLoop, Trigger, TypeOK, ApiTypeOK
  <2>2. Writes(t, "FAILED") /\ \A u \in Tasks \ {t} : RowStatus(u)' = RowStatus(u)
    BY <1>1, <1>3, HandoverUpdate
  <2> QED
    BY <1>1, <1>2, <2>1, <2>2, HandoverEnds DEF SameRow
<1>4. ASSUME UNCHANGED status, watcher' = [watcher EXCEPT ![t] = watcher'[t]],
             watcher'[t] \in {"polling", "fetching"}
      PROVE  AMove
  <2>1. \A u \in Tasks : SameRow(u)
    BY <1>1, <1>2, <1>4 DEF SameRow, RowStatus, Trigger
  <2> QED
    BY <1>1, <2>1, HandoverSame
<1>5. CASE TimePasses(t)
  BY <1>1, <1>4, <1>5 DEF TimePasses, TypeOK, ApiTypeOK
<1>6. CASE WatcherTimeout(t)
  BY <1>3, <1>6 DEF WatcherTimeout
<1>7. CASE WatcherTick(t)
  <2>1. watcher' = [watcher EXCEPT ![t] = "fetching"]
    BY <1>7 DEF WatcherTick
  <2>2. CASE UNCHANGED status
    BY <1>4, <2>1, <2>2 DEF TypeOK, ApiTypeOK
  <2>3. CASE status' # status
    <3>1. status[t] = "RUNNING" /\ UpdateStatus(t, "UPLOADING")
      BY <1>7, <2>3 DEF WatcherTick
    <3>2. ~deleted[t] /\ status' = [status EXCEPT ![t] = "UPLOADING"]
      BY <2>3, <3>1 DEF UpdateStatus
    <3>3. RowStatus(t) = "RUNNING" /\ RowStatus(t)' = "UPLOADING"
      BY <3>1, <3>2 DEF RowStatus, TypeOK, ApiTypeOK
    <3>4. \A u \in Tasks \ {t} : RowStatus(u)' = RowStatus(u)
      BY <3>2 DEF RowStatus, TypeOK, ApiTypeOK
    <3>5. Trigger(t)' = "none"
      BY <1>1, <2>1 DEF Trigger, TypeOK, ApiTypeOK
    <3> QED
      BY <1>1, <1>2, <3>2, <3>3, <3>4, <3>5, HandoverUploading DEF SameRow
  <2> QED
    BY <2>2, <2>3
<1>8. CASE WatcherFetch(t)
  <2>1. PICK r : WatcherFetched(t, r)
    BY <1>8 DEF WatcherFetch
  <2>2. CASE r \in {"unavailable", "none"}
    BY <1>4, <2>1, <2>2 DEF WatcherFetched, TypeOK, ApiTypeOK
  <2>3. CASE r = "err"
    BY <1>3, <2>1, <2>3 DEF WatcherFetched
  <2>4. CASE r = "ok"
    <3>1. LeaveLoop(t, "handed") /\ UpdateStatus(t, "DONE")
      BY <2>1, <2>4 DEF WatcherFetched
    <3>2. Trigger(t)' = "marking"
      BY <1>1, <3>1 DEF LeaveLoop, Trigger, TypeOK, ApiTypeOK
    <3>3. Writes(t, "DONE") /\ \A u \in Tasks \ {t} : RowStatus(u)' = RowStatus(u)
      BY <1>1, <3>1, HandoverUpdate
    <3> QED
      BY <1>1, <1>2, <3>2, <3>3, HandoverEnds DEF SameRow
  <2> QED
    BY <2>1, <2>2, <2>3, <2>4 DEF WatcherFetched
<1> QED
  BY <1>5, <1>6, <1>7, <1>8

LEMMA HandoverCrash ==
    ASSUME TypeOK, RowInv, HandoverInv, ApiserverCrash
    PROVE  AMove
<1> DEFINE st == [u \in Tasks |-> RowStatus(u)]
           tr == [u \in Tasks |-> Trigger(u)]
           Later == {u \in Tasks : Trigger(u) = "none" /\ Trigger(u)' = "none"}
<1>1. UNCHANGED <<deleted, status>> /\ st' = st
  BY DEF ApiserverCrash, RowStatus
<1>2. ASSUME NEW u \in Tasks
      PROVE  /\ u \in Later => RowStatus(u) = "RUNNING"
             /\ Trigger(u)' = IF Trigger(u) = "over" \/ u \in Later THEN Trigger(u) ELSE "killed"
  <2>1. /\ handler'[u] = IF handler[u] \in {"inserted", "calling"} THEN "killed" ELSE handler[u]
        /\ watcher'[u] = IF watcher[u] \in {"polling", "fetching", "handed"}
                         THEN "killed" ELSE watcher[u]
    BY DEF ApiserverCrash, Watching
  <2>2. handler[u] \in HandlerStates /\ watcher[u] \in WatcherStates
    BY DEF TypeOK, ApiTypeOK
  <2>3. /\ watcher[u] # "none" <=> handler[u] = "dispatched"
        /\ handler[u] \in {"undispatched", "retried"} => status[u] = "PENDING"
        /\ handler[u] = "none" => status[u] = "ABSENT"
    BY DEF HandoverInv, RowInv
  <2> QED
    BY <2>1, <2>2, <2>3 DEF Trigger, RowStatus, HandlerStates, WatcherStates
<1>3. tr' = [u \in Tasks |-> IF tr[u] = "over" \/ u \in Later THEN tr[u] ELSE "killed"]
  BY <1>2
<1>4. Later \in SUBSET {u \in Tasks : tr[u] = "none" /\ st[u] = "RUNNING"}
  BY <1>2
<1>5. "apiserver crash" \in Faults
  BY DEF ApiserverCrash
<1> HIDE DEF Later, st, tr
<1>6. Analysed!ApiserverCrash
  BY <1>1, <1>3, <1>4, <1>5
     DEF st, tr, Analysed!ApiserverCrash, Analysed!rowVars, Analysed!outputVars
<1> QED
  BY <1>6 DEF AMove, Analysed!AnalysisNext

LEMMA HandoverInvStep ==
    ASSUME TypeOK, RowInv, HandoverInv, [Next]_vars
    PROVE  HandoverInv'
<1> USE DEF HandoverInv
<1>1. ASSUME UNCHANGED apiVars PROVE HandoverInv'
  BY <1>1 DEF apiVars
<1>2. ASSUME NEW t \in Tasks,
             \/ CreateTask(t) \/ SkipDispatch(t) \/ CallDrop(t)
             \/ DeleteTask(t) \/ \E old \in Tasks : RetryTask(old, t)
      PROVE  HandoverInv'
  BY <1>2 DEF CreateTask, SkipDispatch, CallDrop, DeleteTask, RetryTask, TypeOK, ApiTypeOK, RowInv
<1>3. ASSUME NEW t \in Tasks, DispatchFailed(t) \/ Dispatched(t) PROVE HandoverInv'
  <2>1. \A u \in Tasks \ {t} : status'[u] = status[u]
    BY <1>3, UpdateRow DEF DispatchFailed, Dispatched, Statuses
  <2> QED
    BY <1>3, <2>1 DEF DispatchFailed, Dispatched, TypeOK, ApiTypeOK
<1>4. ASSUME NEW t \in Tasks,
             TimePasses(t) \/ WatcherTimeout(t) \/ WatcherTick(t) \/ WatcherFetch(t)
      PROVE  HandoverInv'
  <2>1. watcher[t] \in {"polling", "fetching"} /\ UNCHANGED handler
    BY <1>4 DEF TimePasses, WatcherTimeout, WatcherTick, WatcherFetch, WatcherFetched, Watching
  <2>2. \A u \in Tasks \ {t} : status'[u] = status[u]
    BY <1>4, UpdateRow DEF TimePasses, WatcherTimeout, WatcherTick, WatcherFetch,
       WatcherFetched, Statuses
  <2>3. watcher'[t] # "none" /\ \A u \in Tasks \ {t} : watcher'[u] = watcher[u]
    BY <1>4, <2>1 DEF TimePasses, WatcherTimeout, WatcherTick, WatcherFetch, WatcherFetched,
       StopWatcher, LeaveLoop, TypeOK, ApiTypeOK
  <2> QED
    BY <2>1, <2>2, <2>3
<1>5. CASE ApiserverCrash
  BY <1>5 DEF ApiserverCrash, Watching
<1>6. CASE Next
  BY <1>1, <1>2, <1>3, <1>4, <1>5, <1>6 DEF Next, DropOnly, AgentOnly
<1> QED
  BY <1>1, <1>6 DEF vars

LEMMA HandoverStep ==
    ASSUME TypeOK, RowInv, HandoverInv, [Next]_vars
    PROVE  AMove
<1>1. ASSUME UNCHANGED apiVars PROVE AMove
  <2>1. UNCHANGED deleted /\ \A u \in Tasks : SameRow(u)
    BY <1>1 DEF apiVars, SameRow, RowStatus, Trigger
  <2> QED
    BY <2>1, HandoverSame
<1>2. CASE Next
  BY <1>1, <1>2, HandoverHandler, HandoverWatcher, HandoverCrash DEF Next, DropOnly, AgentOnly
<1> QED
  BY <1>1, <1>2 DEF vars

(* Whatever fails on the way, updates of the database included, rows come to *)
(* the analysis only in the ways that Analysis allows for.                   *)
THEOREM ImplementsCollection == Spec => HandoverSpec
<1>1. Init => HandoverInv /\ Analysed!AnalysisInit
  BY DEF Init, ApiInit, HandoverInv, RowStatus, Trigger, Analysed!AnalysisInit, Analysed!Owners
<1>2. IInv /\ HandoverInv /\ [Next]_vars => HandoverInv'
  BY HandoverInvStep DEF IInv
<1>3. IInv /\ HandoverInv /\ [Next]_vars => AMove
  BY HandoverStep DEF IInv
<1> QED
  BY <1>1, <1>2, <1>3, Inductive, PTL DEF Spec, AMove, HandoverSpec, Analysed!AnalysisSpec
=============================================================================
