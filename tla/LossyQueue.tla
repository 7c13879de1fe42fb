----------------------------- MODULE LossyQueue -----------------------------
(***************************************************************************)
(* What Mini-Drop promises about the order of tasks, without saying where  *)
(* they are: each agent has one first-in first-out queue.  A task is put   *)
(* into it once, at most, and only a task at its head is taken up.  Tasks  *)
(* are lost in runs of neighbours, and a lost task never comes back.       *)
(***************************************************************************)
EXTENDS Naturals, Sequences

CONSTANTS Tasks, Agents, Target

VARIABLES
    queue,  \* queue[a]: the tasks on their way to agent a
    known,  \* the tasks that were ever put into a queue
    taken   \* taken[t]: how often t was taken up

queueVars == <<queue, known, taken>>

Init ==
    /\ queue = [a \in Agents |-> <<>>]
    /\ known = {}
    /\ taken = [t \in Tasks |-> 0]

Put(t) ==
    /\ t \notin known
    /\ known' = known \cup {t}
    /\ queue' = [queue EXCEPT ![Target[t]] = Append(@, t)]
    /\ UNCHANGED taken

Take(a) ==
    /\ queue[a] # <<>>
    /\ queue' = [queue EXCEPT ![a] = Tail(@)]
    /\ taken' = [taken EXCEPT ![Head(queue[a])] = @ + 1]
    /\ UNCHANGED known

(* r is what is left of q when a run of its elements, or none, is lost.      *)
Shortens(r, q) ==
    \E i \in 0..Len(q) : \E j \in i..Len(q) :
        r = SubSeq(q, 1, i) \o SubSeq(q, j + 1, Len(q))

Lose ==
    /\ queue' \in [Agents -> Seq(Tasks)]
    /\ \A a \in Agents : Shortens(queue'[a], queue[a])
    /\ UNCHANGED <<known, taken>>

Next == (\E t \in Tasks : Put(t)) \/ (\E a \in Agents : Take(a)) \/ Lose

Spec == Init /\ [][Next]_queueVars
=============================================================================
