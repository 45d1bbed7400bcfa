--------------------------- MODULE PriorityQueue ---------------------------
(***************************************************************************)
(* PriorityQueue (priority_queue.h) with LowCompare: a binary heap in a    *)
(* vector, the smallest priority number first.  Indices start at 1 here,   *)
(* so that the parent of i is i \div 2.                                    *)
(***************************************************************************)
EXTENDS Naturals, Sequences

CONSTANTS Tasks,       \* the data of the nodes
          Priority     \* task -> its priority, SYSTEM = 0 .. LOW = 3

ASSUME PriorityAssumption == Priority \in [Tasks -> 0 .. 3]

Before(t, u) == Priority[t] < Priority[u]

Swap(heap, i, j) == [heap EXCEPT ![i] = heap[j], ![j] = heap[i]]

\* Of a heap and the index of the node that may be out of order.
heapify_up[s \in Seq(Tasks) \X Nat] ==
  LET heap == s[1]
      i == s[2]
      parent == i \div 2
  IN  IF i \in 2 .. Len(heap) /\ Before(heap[i], heap[parent])
      THEN heapify_up[<<Swap(heap, i, parent), parent>>]
      ELSE heap

\* The one of i and its children that comes first.
MutFirstChild(heap, i) ==       \* compares the right child with the parent
  IF 2 * i + 1 <= Len(heap) /\ Before(heap[2 * i + 1], heap[i]) THEN 2 * i + 1
  ELSE IF 2 * i <= Len(heap) /\ Before(heap[2 * i], heap[i]) THEN 2 * i ELSE i
FirstChild(heap, i) ==
  LET left == IF 2 * i <= Len(heap) /\ Before(heap[2 * i], heap[i]) THEN 2 * i ELSE i
  IN  IF 2 * i + 1 <= Len(heap) /\ Before(heap[2 * i + 1], heap[left])
      THEN 2 * i + 1 ELSE left

heapify_down[s \in Seq(Tasks) \X (Nat \ {0})] ==
  LET heap == s[1]
      i == s[2]
      first == FirstChild(heap, i)
  IN  IF first = i THEN heap ELSE heapify_down[<<Swap(heap, i, first), first>>]

MutPushed(heap, t) == Append(heap, t)      \* does not sift the new node up
Pushed(heap, t) == heapify_up[<<Append(heap, t), Len(heap) + 1>>]

\* The heap after tasks are pushed one by one, of the heap and those tasks.
push_all[s \in Seq(Tasks) \X Seq(Tasks)] ==
  LET heap == s[1]
      tasks == s[2]
  IN  IF tasks = <<>> THEN heap
      ELSE push_all[<<Pushed(heap, Head(tasks)), Tail(tasks)>>]

\* What pop() leaves of a heap, once it has taken its first node.
MutPopped(heap) ==                         \* drops the last node without swapping
  heapify_down[<<SubSeq(heap, 1, Len(heap) - 1), 1>>]
Popped(heap) ==
  LET last == Len(heap)
  IN  heapify_down[<<SubSeq(Swap(heap, 1, last), 1, last - 1), 1>>]

IsHeap(heap) == \A i \in 2 .. Len(heap) : ~ Before(heap[i], heap[i \div 2])
=============================================================================
