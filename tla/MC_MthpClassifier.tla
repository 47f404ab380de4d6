--------------------------- MODULE MC_MthpClassifier ----------------------------
(* MthpClassifier with two task ids, three addresses in two regions, and the  *)
(* thresholds 2, 16, 64 brought down to 2, 3, 4.  A world of its own for each *)
(* hazard, with the address spaces it needs.                                  *)
EXTENDS MthpClassifier

TwoIds     == {1, 2}
ThreeAddrs == {1, 2, 3}
TwoRegions == <<1, 1, 2>>
TwoElems   == {1, 2}

Vma(range, k) == [range |-> range, kind |-> k]
Sys(p, f)     == [plenty |-> p, fragmented |-> f]

(* A heap; a heap with a stack in the same region; a file, and code; and     *)
(* smaller ones, for the worlds with two tasks.                              *)
Heap       == {Vma({1, 2, 3}, "anon")}
HeapStack  == {Vma({1}, "anon"), Vma({2, 3}, "stack")}
FileCode   == {Vma({1, 2}, "file"), Vma({3}, "exec")}
TinyHeap   == {Vma({1}, "anon")}
TwoHeaps   == {Vma({1, 3}, "anon")}
StackApart == {Vma({1}, "anon"), Vma({3}, "stack")}
AllThree   == {Heap, HeapStack, FileCode}

Free       == Sys({2, 4, 9}, FALSE)
AllSystems == {Free, Sys({2, 4, 9}, TRUE), Sys({2}, FALSE), Sys({4, 9}, FALSE)}
TwoSystems == {Free, Sys({2, 9}, FALSE)}

WorldOf(may, layouts, systems, elems) ==
    [may |-> may, layouts |-> layouts, systems |-> systems, elems |-> elems]

Quiet    == WorldOf({}, AllThree, AllSystems, TwoElems)
Threads  == WorldOf({"clone"}, {TinyHeap}, {Free}, TwoElems)
Crowded  == WorldOf({"fork", "evict_density"}, {TinyHeap}, {Free}, {1})
Forgets  == WorldOf({"evict_hint", "evict_vma"}, {StackApart}, {Free}, TwoElems)
Reuse    == WorldOf({"fork", "exit"}, {TinyHeap}, {Free}, TwoElems)
Remaps   == WorldOf({"remap"}, {TwoHeaps, FileCode}, {Free}, TwoElems)
Loader   == WorldOf({"refresh"}, {HeapStack, FileCode}, TwoSystems, TwoElems)
Pressure == WorldOf({"reclaim"}, {TwoHeaps}, {Free}, TwoElems)

MostWorlds == {Quiet, Threads, Crowded, Forgets, Reuse, Remaps, Loader, Pressure}

(* Threads and nothing else.                                                 *)
ThreadsOnly == {Threads}
================================================================================
