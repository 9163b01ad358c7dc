------------------------------- MODULE SmQueue -------------------------------
(***************************************************************************)
(* SourceMod's Queue<T> of sm_queue.h, the template m_TaskQueue is made    *)
(* of, at the level of its pointers: a circular doubly linked list around  *)
(* a sentinel, and a stack of nodes kept for the next push.                *)
(***************************************************************************)
EXTENDS Integers, Sequences, FiniteSets, SequencesExt

CONSTANTS
  Nodes,      \* the nodes malloc can return (bounds the queue's length)
  Values,     \* T
  m_Head,     \* the sentinel
  Garbage,    \* what a T that was never built holds
  SizeRange   \* size_t counts modulo this number

Cells == Nodes \cup {m_Head}

ASSUME QueueAssumption ==
  /\ m_Head \notin Nodes
  /\ Garbage \notin Values
  /\ IsFiniteSet(Nodes)
  /\ SizeRange \in Nat /\ SizeRange > Cardinality(Nodes)

VARIABLES
  next, prev, obj,   \* the fields of each cell
  m_Size,
  m_FreeNodes,       \* the CStack, top first
  heap,              \* the cells got from malloc and not freed
  ctx,               \* what Gearman::RunThread got from the queue last
  destroyed          \* ~Queue has run

vars == <<next, prev, obj, m_Size, m_FreeNodes, heap, ctx, destroyed>>

TypeOK ==
  /\ next \in [Cells -> Cells] /\ prev \in [Cells -> Cells]
  /\ obj \in [Cells -> Values \cup {Garbage}]
  /\ m_Size \in 0 .. SizeRange - 1
  /\ m_FreeNodes \in Seq(Nodes)
  /\ heap \subseteq Cells
  /\ ctx \in Values \cup {Garbage}
  /\ destroyed \in BOOLEAN

\* Queue() with _Initialize(): the sentinel points at itself. The other cells
\* are raw memory until push takes them.
Init ==
  /\ next = [n \in Cells |-> m_Head]
  /\ prev = [n \in Cells |-> m_Head]
  /\ obj = [n \in Cells |-> Garbage]
  /\ m_Size = 0
  /\ m_FreeNodes = <<>>
  /\ heap = {m_Head}
  /\ ctx = Garbage
  /\ destroyed = FALSE

empty == m_Size = 0

\* The iterator begin(), advanced k - 1 times.
Walk[k \in Nat] == IF k = 0 THEN m_Head ELSE next[Walk[k - 1]]

\* for (iter = begin(); iter != end(); iter++), as the sequence of its nodes. A
\* ring that has lost its way back to the sentinel would be walked for ever.
Ends  == {k \in 1 .. Cardinality(Cells) : Walk[k] = m_Head}
Chain == LET last == CHOOSE k \in Ends : \A j \in Ends : k <= j
         IN  [k \in 1 .. last - 1 |-> Walk[k]]

\* In an empty queue this is the sentinel's obj, which nothing has built.
first == obj[next[m_Head]]

\* find(v), and the search loop of remove: the first node that holds v, or end().
find(v) ==
  LET at == SelectInSeq(Chain, LAMBDA n : obj[n] = v)
  IN  IF at = 0 THEN m_Head ELSE Chain[at]

-----------------------------------------------------------------------------
(* Plausible mistakes in the steps below, never part of Next.               *)

\* erase that leaves the following cell pointing back at the erased one.
eraseHalf(node) ==
  /\ next' = [next EXCEPT ![prev[node]] = next[node]]
  /\ m_FreeNodes' = <<node>> \o m_FreeNodes
  /\ m_Size' = (m_Size - 1) % SizeRange
  /\ UNCHANGED <<prev, obj, heap, destroyed>>

\* takeFirst that pops the newest.
takeLast ==
  /\ ~destroyed
  /\ ~empty
  /\ ctx' = first
  /\ next' = [next EXCEPT ![prev[prev[m_Head]]] = m_Head]
  /\ prev' = [prev EXCEPT ![m_Head] = prev[prev[m_Head]]]
  /\ m_FreeNodes' = <<prev[m_Head]>> \o m_FreeNodes
  /\ m_Size' = (m_Size - 1) % SizeRange
  /\ UNCHANGED <<obj, heap, destroyed>>

\* clear that forgets the nodes it unlinks.
clearLeaking ==
  /\ ~destroyed
  /\ next' = [next EXCEPT ![m_Head] = m_Head]
  /\ prev' = [prev EXCEPT ![m_Head] = m_Head]
  /\ m_Size' = 0
  /\ UNCHANGED <<obj, m_FreeNodes, heap, ctx, destroyed>>

-----------------------------------------------------------------------------
\* A node kept from an earlier erase, or else a fresh one.
TakeNode(node) ==
  IF m_FreeNodes # <<>>
    THEN node = Head(m_FreeNodes) /\ m_FreeNodes' = Tail(m_FreeNodes) /\ UNCHANGED heap
    ELSE node \notin heap /\ heap' = heap \cup {node} /\ UNCHANGED m_FreeNodes

push(v) ==
  /\ ~destroyed
  /\ \E node \in Cells :
       /\ TakeNode(node)
       /\ obj' = [obj EXCEPT ![node] = v]
       /\ next' = [next EXCEPT ![node] = m_Head, ![prev[m_Head]] = node]
       /\ prev' = [prev EXCEPT ![node] = prev[m_Head], ![m_Head] = node]
  /\ m_Size' = (m_Size + 1) % SizeRange
  /\ UNCHANGED <<ctx, destroyed>>

erase(node) ==
  /\ next' = [next EXCEPT ![prev[node]] = next[node]]
  /\ prev' = [prev EXCEPT ![next[node]] = prev[node]]
  /\ m_FreeNodes' = <<node>> \o m_FreeNodes
  /\ m_Size' = (m_Size - 1) % SizeRange
  /\ UNCHANGED <<obj, heap, destroyed>>

\* pop() as it stands: erase(begin()), whatever is there.
pop == erase(next[m_Head])

\* What Gearman::RunThread does: first() and pop() if there is something.
takeFirst ==
  /\ ~destroyed
  /\ ~empty
  /\ ctx' = first
  /\ pop

\* A mistaken remove(v) that does not ask whether the search has reached end().
removeAnyway(v) ==
  /\ ~destroyed
  /\ erase(find(v))
  /\ UNCHANGED ctx

remove(v) ==
  /\ ~destroyed
  /\ find(v) # m_Head
  /\ erase(find(v))
  /\ UNCHANGED ctx

clear ==
  /\ ~destroyed
  /\ next' = [next EXCEPT ![m_Head] = m_Head]
  /\ prev' = [prev EXCEPT ![m_Head] = m_Head]
  /\ m_FreeNodes' = Reverse(Chain) \o m_FreeNodes
  /\ m_Size' = 0
  /\ UNCHANGED <<obj, heap, ctx, destroyed>>

\* ~Queue: clear, then the sentinel and every kept node are freed.
Destroy ==
  /\ ~destroyed
  /\ heap' = heap \ ({m_Head} \cup Range(Chain) \cup Range(m_FreeNodes))
  /\ m_FreeNodes' = <<>>
  /\ m_Size' = 0
  /\ destroyed' = TRUE
  /\ UNCHANGED <<next, prev, obj, ctx>>

Next == \/ \E v \in Values : push(v) \/ remove(v)
        \/ takeFirst \/ clear \/ Destroy

Spec == Init /\ [][Next]_vars

-----------------------------------------------------------------------------
(* Properties.                                                              *)

\* The list is one ring through the sentinel, walked alike in both directions,
\* and as long as m_Size says: empty() tells the truth and every walk ends.
Ring ==
  ~destroyed =>
    /\ Ends # {}
    /\ m_Size = Len(Chain)
    /\ \A n \in {m_Head} \cup Range(Chain) : prev[next[n]] = n

\* Every cell got from malloc is in the ring or kept for reuse, never in both or
\* twice, so no node in use is handed out again and ~Queue frees all of them once.
Memory ==
  /\ ~destroyed => /\ IsInjective(Chain \o m_FreeNodes)
                   /\ heap = {m_Head} \cup Range(Chain \o m_FreeNodes)
  /\ destroyed => heap = {}

\* The values in the ring, from begin() to end().
Contents == IF destroyed THEN <<>> ELSE [k \in DOMAIN Chain |-> obj[Chain[k]]]

Queue == INSTANCE Fifo WITH items <- Contents, taken <- ctx, closed <- destroyed, Nothing <- Garbage

\* Whatever the order of its operations, the queue is first-in first-out.
FifoSpec == Queue!Spec
=============================================================================
