------------------------------ MODULE HeapTest ------------------------------
(***************************************************************************)
(* heap_test (tests/heaptest.cpp), the repository's own check of the heap: *)
(* a script of kmalloc and kfree calls on a heap that init_heap has just   *)
(* set up, whose comparisons of pointers are stated here as properties.    *)
(***************************************************************************)
EXTENDS Heap

VARIABLES
  pc,     \* the next call of the script
  ptr     \* ptr1 .. ptr5

allVars == <<vars, pc, ptr>>

Alloc(k, n) == [op |-> "kmalloc", ptr |-> k, size |-> n]
Free(k) == [op |-> "kfree", ptr |-> k, size |-> 0]

(* The calls of heap_test, in order. *)
Script ==
  << Alloc(1, 64), Alloc(2, 128), Alloc(3, 32),
     Free(2), Alloc(4, 64),
     Free(1), Free(3), Free(4),
     Alloc(5, 128) >>

TestInit == Init /\ pc = 0 /\ ptr = [k \in 1 .. 5 |-> NULL]

Setup == pc = 0 /\ init_heap /\ pc' = 1 /\ UNCHANGED ptr

Call(c) ==
  IF c.op = "kmalloc"
    THEN kmalloc(c.size) /\ ptr' = [ptr EXCEPT ![c.ptr] = Kmalloc(blocks, c.size).ptr]
    ELSE kfree(ptr[c.ptr]) /\ UNCHANGED ptr

(* The test gives up when one of its first three allocations fails. *)
GaveUp == pc = 4 /\ NULL \in {ptr[1], ptr[2], ptr[3]}

heap_test ==
  /\ pc \in DOMAIN Script /\ ~ GaveUp
  /\ Call(Script[pc])
  /\ pc' = pc + 1

TestNext == Setup \/ heap_test

TestSpec == TestInit /\ [][TestNext]_allVars

(* "Check merging" (heaptest.cpp:49-57): once everything has been given    *)
(* back, the free blocks at the front have been merged, and an allocation  *)
(* twice the size of the first one is placed where the first one was.      *)
MergingWorks == (pc = Len(Script) + 1) => ptr[5] = ptr[1]
=============================================================================
