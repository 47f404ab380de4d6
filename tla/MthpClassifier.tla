----------------------------- MODULE MthpClassifier -----------------------------
(***************************************************************************)
(* The mTHP promotion classifier (auto_classifier_kern_v3-1.c) as it runs  *)
(* at the entry of every page fault, on any CPU, and the kernel's hook     *)
(* that reads its hints later in the same fault (the 0003 patch).          *)
(*                                                                         *)
(* Threads of one process run the handler at the same time; no lock covers *)
(* two of its map calls, and the LRU maps reuse an element while a handler *)
(* still points to it.  What can happen in a behaviour beside faults is    *)
(* named by world, which is fixed at the start.                            *)
(***************************************************************************)
EXTENDS Integers, FiniteSets

CONSTANTS
    Ids,            (* task ids; a process is known by that of its leader      *)
    Addrs,          (* the addresses that fault                                *)
    RegionOf,       (* addr >> 21                                              *)
    Elems,          (* the elements of density_map                             *)
    FILL_WARM, FILL_HOT, FILL_VHOT,
    VMA_CACHE_TTL,
    Worlds          (* what may happen, a subset of Happenings; the address    *)
                    (* spaces a process may have, sets of VMAs, each of a      *)
                    (* range and a kind; and what the loader may put into      *)
                    (* system_map: the orders with free blocks enough at the   *)
                    (* frag_index (plenty), and if that is over 90 (fragmented) *)
                    (* and the elements density_map has been given             *)

ORDER_4KB  == 0
ORDER_16KB == 2
ORDER_64KB == 4
ORDER_2MB  == 9
Orders     == {ORDER_4KB, ORDER_16KB, ORDER_64KB, ORDER_2MB}
Kinds      == {"anon", "file", "stack", "exec"}
Happenings == {"clone", "fork", "exit", "remap", "refresh", "reclaim",
               "evict_hint", "evict_vma", "evict_density"}

Vmas    == [range : SUBSET Addrs, kind : Kinds]
Systems == [plenty : SUBSET Orders, fragmented : BOOLEAN]

Disjoint(L) == \A v, w \in L : v.range \cap w.range # {} => v = w

Regions == {RegionOf[a] : a \in Addrs}
Keys    == Ids \X Regions

NoTask  == 0
NoAddr  == 0
NoElem  == 0
NoKey   == <<>>
NoOrder == -1
NoVma   == [found |-> FALSE, range |-> {}, kind |-> "anon"]

ASSUME MthpAssumption ==
    /\ NoTask \notin Ids /\ NoAddr \notin Addrs /\ NoElem \notin Elems
    /\ FILL_WARM \in Nat /\ FILL_HOT \in Nat /\ FILL_VHOT \in Nat /\ VMA_CACHE_TTL \in Nat
    /\ 1 < FILL_WARM /\ FILL_WARM <= FILL_HOT /\ FILL_HOT <= FILL_VHOT
    /\ Worlds \subseteq [may : SUBSET Happenings, layouts : SUBSET SUBSET Vmas,
                         systems : SUBSET Systems, elems : SUBSET Elems]
    /\ \A w \in Worlds : \A L \in w.layouts : Disjoint(L)

VARIABLES
    world,          (* where this behaviour takes place                        *)
    tgid,           (* the process of each task id, NoTask when it is free     *)
    layout,         (* the address space of each process                       *)
    density_map,    (* per element: the key it holds, if any, and fill_count   *)
    hint_map,       (* per key: the hint, or NoOrder                           *)
    vma_cache,      (* per key: a VMA, if any, and hit_count                   *)
    vma_scratch,    (* vma_scratch_map, per process: the VMA found, if any     *)
    system,         (* system_map                                              *)
    reclaiming,     (* its field direct_reclaim_active                         *)
    pc, at,         (* per task: where its handler is, the faulting address    *)
    rd,             (* the density record it points to                         *)
    kind, fill,     (* is_stack, is_exec and is_file; the fill_count it has    *)
    order,          (* the order it has come to, if any                        *)
    counted,        (* history: faults counted for each key                    *)
    total           (* history: faults counted                                 *)

maps   == <<density_map, hint_map, vma_cache, vma_scratch>>
others == <<world, tgid, layout, system>>
locals == <<at, rd, kind, fill, order>>
hist   == <<counted, total>>
vars   == <<others, maps, reclaiming, pc, locals, hist>>

(* Counts are kept up to FILL_VHOT: beyond it they all mean the same order. *)
Count(n) == IF n > FILL_VHOT THEN FILL_VHOT ELSE n

Key(t)       == <<tgid[t], RegionOf[at[t]]>>
Live         == {t \in Ids : tgid[t] # NoTask}
Processes    == {tgid[t] : t \in Live}
VmasAt(p, a) == {v \in layout[p] : a \in v.range}
Uncached     == [found |-> FALSE, range |-> {}, kind |-> "anon", hits |-> 0]

MthpInit ==
    /\ world \in Worlds
    /\ \E t \in Ids, L \in world.layouts :
          /\ tgid = [u \in Ids |-> IF u = t THEN t ELSE NoTask]
          /\ layout = [u \in Ids |-> IF u = t THEN L ELSE {}]
    /\ density_map = [e \in Elems |-> [key |-> NoKey, fill |-> 0]]
    /\ hint_map = [k \in Keys |-> NoOrder]
    /\ vma_cache = [k \in Keys |-> Uncached]
    /\ vma_scratch = [p \in Ids |-> NoVma]
    /\ system \in world.systems /\ reclaiming = FALSE
    /\ pc = [t \in Ids |-> "idle"] /\ at = [t \in Ids |-> NoAddr]
    /\ rd = [t \in Ids |-> NoElem]
    /\ kind = [t \in Ids |-> "anon"] /\ fill = [t \in Ids |-> 0]
    /\ order = [t \in Ids |-> NoOrder]
    /\ counted = [k \in Keys |-> 0] /\ total = 0

--------------------------------------------------------------------------------
(* auto_classify_fault(), by thread t.                                      *)

Goto(t, l) == pc' = [pc EXCEPT ![t] = l]
Excluded(k) == k \in {"stack", "exec"}

(* The handler returns, and its frame with it.                              *)
Return(t) ==
    /\ Goto(t, "hook")
    /\ rd' = [rd EXCEPT ![t] = NoElem]
    /\ kind' = [kind EXCEPT ![t] = "anon"] /\ fill' = [fill EXCEPT ![t] = 0]

frame == <<rd, kind, fill>>

(* handle_mm_fault() on an address some VMA covers.  Under direct reclaim   *)
(* the classifier leaves the fault to the kernel.                           *)
Fault(t, a) ==
    /\ t \in Live /\ pc[t] = "idle" /\ VmasAt(tgid[t], a) # {}
    /\ Goto(t, IF reclaiming THEN "hook" ELSE "cache")
    /\ at' = [at EXCEPT ![t] = a]
    /\ UNCHANGED <<others, maps, reclaiming, frame, order, hist>>

(* The VMA decides: nothing is counted in stacks and code.                  *)
TakeKind(t, k) ==
    /\ \/ Excluded(k) /\ Return(t)
       \/ /\ ~Excluded(k) /\ Goto(t, "density")
          /\ kind' = [kind EXCEPT ![t] = k] /\ UNCHANGED <<rd, fill>>
    /\ UNCHANGED <<others, density_map, hint_map, reclaiming, at, order, hist>>

(* Variant: the entry is used for every address of its region.              *)
HitAnywhere(vc, a) == vc.found /\ vc.hits < VMA_CACHE_TTL

(* A cached VMA is good for the address if it covers it, and for TTL hits.  *)
Hit(vc, a) == vc.found /\ a \in vc.range /\ vc.hits < VMA_CACHE_TTL

CacheHit(t) ==
    /\ pc[t] = "cache" /\ Hit(vma_cache[Key(t)], at[t])
    /\ vma_cache' = [vma_cache EXCEPT ![Key(t)].hits = @ + 1]
    /\ TakeKind(t, vma_cache[Key(t)].kind)
    /\ UNCHANGED vma_scratch

(* A miss: clear the process's scratch entry, and have bpf_find_vma() call  *)
(* vma_fill_callback(), which fills it, unless the mmap lock is not to be   *)
(* had.  (Who reads an entry just cleared gets what it gets when its own    *)
(* search fails, so that the two are one step.)                             *)
CacheMiss(t) ==
    /\ pc[t] = "cache" /\ ~Hit(vma_cache[Key(t)], at[t])
    /\ \/ \E v \in VmasAt(tgid[t], at[t]) :
             /\ vma_scratch' = [vma_scratch EXCEPT ![tgid[t]] =
                                  [found |-> TRUE, range |-> v.range, kind |-> v.kind]]
             /\ Goto(t, "scratch") /\ UNCHANGED frame
       \/ vma_scratch' = [vma_scratch EXCEPT ![tgid[t]] = NoVma] /\ Return(t)
    /\ UNCHANGED <<others, density_map, hint_map, vma_cache, reclaiming, at, order, hist>>

(* Read the entry back, whoever of the process has filled it last.          *)
ScratchEmpty(t) ==
    /\ pc[t] = "scratch" /\ ~vma_scratch[tgid[t]].found
    /\ Return(t)
    /\ UNCHANGED <<others, maps, reclaiming, at, order, hist>>

ReadScratch(t) ==
    LET sc == vma_scratch[tgid[t]]
    IN  /\ pc[t] = "scratch" /\ sc.found
        /\ vma_cache' = [vma_cache EXCEPT ![Key(t)] =
                           [found |-> TRUE, range |-> sc.range, kind |-> sc.kind, hits |-> 0]]
        /\ TakeKind(t, sc.kind)
        /\ UNCHANGED vma_scratch

(* The lookup in density_map returns a pointer to an element.               *)
LookupDensity(t) ==
    /\ pc[t] = "density"
    /\ \/ \E e \in Elems :
             /\ density_map[e].key = Key(t)
             /\ rd' = [rd EXCEPT ![t] = e] /\ Goto(t, "load")
       \/ /\ \A e \in Elems : density_map[e].key # Key(t)
          /\ rd' = [rd EXCEPT ![t] = NoElem] /\ Goto(t, "insert")
    /\ UNCHANGED <<others, maps, reclaiming, at, kind, fill, order, hist>>

CountFault(t) ==
    /\ counted' = [counted EXCEPT ![Key(t)] = Count(@ + 1)]
    /\ total' = Count(total + 1)

(* The element bpf_map_update_elem() takes: a free one or, when the map is  *)
(* full, which takes a world with "evict_density", one in use.              *)
FreeElems == {e \in world.elems : density_map[e].key = NoKey}
NewElems  ==
    IF FreeElems # {} THEN {CHOOSE e \in FreeElems : TRUE}
    ELSE IF "evict_density" \in world.may THEN world.elems ELSE {}

(* The first fault to the region: a record with fill_count 1, which takes   *)
(* the place of one that another thread has inserted since the lookup.      *)
InsertRecord(t) ==
    /\ pc[t] = "insert"
    /\ \E new \in NewElems :
          density_map' = [e \in Elems |->
              IF e = new THEN [key |-> Key(t), fill |-> 1]
              ELSE IF density_map[e].key = Key(t) THEN [density_map[e] EXCEPT !.key = NoKey]
              ELSE density_map[e]]
    /\ CountFault(t) /\ Return(t)
    /\ UNCHANGED <<others, hint_map, vma_cache, vma_scratch, reclaiming, at, order>>

(* rd->fill_count++ is a load and a store, into whatever record the element *)
(* then holds.                                                              *)
LoadFill(t) ==
    /\ pc[t] = "load"
    /\ fill' = [fill EXCEPT ![t] = Count(density_map[rd[t]].fill + 1)]
    /\ Goto(t, "store")
    /\ UNCHANGED <<others, maps, reclaiming, at, rd, kind, order, hist>>

(* Variant: a copy of the record is counted up, as after a lookup by value.  *)
StoreIntoCopy(t) ==
    /\ pc[t] = "store"
    /\ CountFault(t) /\ Goto(t, "hint")
    /\ UNCHANGED <<others, maps, reclaiming, locals>>

StoreFill(t) ==
    /\ pc[t] = "store"
    /\ density_map' = [density_map EXCEPT ![rd[t]].fill = fill[t]]
    /\ CountFault(t) /\ Goto(t, "hint")
    /\ UNCHANGED <<others, hint_map, vma_cache, vma_scratch, reclaiming, locals>>

(* Variant: each order one step of the ladder early.                        *)
FillToOrderEarly(n) ==
    IF n >= FILL_HOT THEN ORDER_2MB
    ELSE IF n >= FILL_WARM THEN ORDER_64KB ELSE ORDER_16KB

FillToOrder(n) ==
    IF n >= FILL_VHOT THEN ORDER_2MB
    ELSE IF n >= FILL_HOT THEN ORDER_64KB
    ELSE IF n >= FILL_WARM THEN ORDER_16KB ELSE ORDER_4KB

(* Benefit: the fill count, up to 64KB in a file.                           *)
Ideal(k, n) ==
    IF k = "file" /\ FillToOrder(n) > ORDER_64KB THEN ORDER_64KB ELSE FillToOrder(n)

(* buddy_guard_ok(): enough free blocks of the order.                       *)
GuardOk(o, sys) == o = ORDER_4KB \/ o \in sys.plenty

(* Variant: one step down and no more, as with "else if".                    *)
StepDownOnce(ideal, sys) ==
    LET o6 == CASE ideal >= ORDER_2MB /\ ~GuardOk(ORDER_2MB, sys)   -> ORDER_64KB
                [] ideal = ORDER_64KB /\ ~GuardOk(ORDER_64KB, sys) -> ORDER_16KB
                [] ideal = ORDER_16KB /\ ~GuardOk(ORDER_16KB, sys) -> ORDER_4KB
                [] OTHER -> ideal
    IN  IF sys.fragmented /\ o6 > ORDER_16KB THEN ORDER_16KB ELSE o6

(* Cost: down the ladder while the guard refuses, and not above 16KB in     *)
(* extreme fragmentation.                                                   *)
StepDown(ideal, sys) ==
    LET o2 == IF ideal >= ORDER_2MB /\ ~GuardOk(ORDER_2MB, sys) THEN ORDER_64KB ELSE ideal
        o4 == IF o2 >= ORDER_64KB /\ ~GuardOk(ORDER_64KB, sys) THEN ORDER_16KB ELSE o2
        o6 == IF o4 >= ORDER_16KB /\ ~GuardOk(ORDER_16KB, sys) THEN ORDER_4KB ELSE o4
    IN  IF sys.fragmented /\ o6 > ORDER_16KB THEN ORDER_16KB ELSE o6

(* Variant: one hint for a process, as in revision 3.                       *)
ProcessKey(t) == <<tgid[t], CHOOSE r \in Regions : TRUE>>

(* rkey, once more: the hint goes with the region.                          *)
HintKey(t) == Key(t)

(* rd->fill_count, read once more: the compiler may use the count it has    *)
(* stored, or load what the element holds by now.                           *)
Reread(t) == {fill[t], density_map[rd[t]].fill}

(* The hint is written when the fault has earned more than 4KB; else the    *)
(* last one stays.                                                          *)
WriteHint(t) ==
    /\ pc[t] = "hint"
    /\ \E n \in Reread(t) :
          LET o == StepDown(Ideal(kind[t], n), system)
          IN  /\ order' = [order EXCEPT ![t] = o]
              /\ hint_map' = IF o > ORDER_4KB THEN [hint_map EXCEPT ![HintKey(t)] = o] ELSE hint_map
    /\ Return(t)
    /\ UNCHANGED <<others, density_map, vma_cache, vma_scratch, reclaiming, at, hist>>

--------------------------------------------------------------------------------
(* The rest of the fault.                                                   *)

(* thp_vma_allowable_order() asks for the hint of current's own task id:    *)
(* task_pid_nr(), where the classifier has used the id of the process.      *)
HookKey(t)      == <<t, RegionOf[at[t]]>>
PreferredOrder(t) == hint_map[HookKey(t)]

FaultEnds(t) ==
    /\ Goto(t, "idle")
    /\ at' = [at EXCEPT ![t] = NoAddr] /\ order' = [order EXCEPT ![t] = NoOrder]

(* The fault is served ...                                                  *)
Served(t) ==
    /\ pc[t] = "hook" /\ FaultEnds(t)
    /\ UNCHANGED <<others, maps, reclaiming, frame, hist>>

(* ... or its allocation enters direct reclaim first: handle_reclaim_begin() *)
(* and handle_reclaim_end().                                                *)
ReclaimBegin(t) ==
    /\ pc[t] = "hook" /\ "reclaim" \in world.may
    /\ reclaiming' = TRUE /\ Goto(t, "reclaim")
    /\ UNCHANGED <<others, maps, locals, hist>>

ReclaimEnd(t) ==
    /\ pc[t] = "reclaim"
    /\ reclaiming' = FALSE /\ FaultEnds(t)
    /\ UNCHANGED <<others, maps, frame, hist>>

--------------------------------------------------------------------------------
(* The world around it.                                                     *)

(* A free task id is in use neither as a thread nor as a process.           *)
Unused(t) == t \notin Live \cup Processes

Clone(t, u) ==
    /\ "clone" \in world.may /\ t \in Live /\ Unused(u)
    /\ tgid' = [tgid EXCEPT ![u] = tgid[t]]
    /\ UNCHANGED <<world, layout, system, maps, reclaiming, pc, locals, hist>>

(* fork() and exec(): a process, perhaps with the id of an earlier one.     *)
Spawn(u) ==
    /\ "fork" \in world.may /\ Unused(u)
    /\ tgid' = [tgid EXCEPT ![u] = u]
    /\ \E L \in world.layouts : layout' = [layout EXCEPT ![u] = L]
    /\ UNCHANGED <<world, system, maps, reclaiming, pc, locals, hist>>

(* handle_exit() runs for every thread, and forgets only the scratch entry. *)
Exit(t) ==
    /\ "exit" \in world.may /\ t \in Live /\ pc[t] = "idle"
    /\ tgid' = [tgid EXCEPT ![t] = NoTask]
    /\ vma_scratch' = [vma_scratch EXCEPT ![tgid[t]] = NoVma]
    /\ UNCHANGED <<world, layout, system, density_map, hint_map, vma_cache, reclaiming,
                   pc, locals, hist>>

(* mmap() and munmap(), but for the VMAs being faulted.                     *)
Remap(p) ==
    /\ "remap" \in world.may /\ p \in Processes
    /\ \E L \in world.layouts :
          /\ \A t \in Live : tgid[t] = p /\ pc[t] # "idle" => VmasAt(p, at[t]) \subseteq L
          /\ layout' = [layout EXCEPT ![p] = L]
    /\ UNCHANGED <<world, tgid, system, maps, reclaiming, pc, locals, hist>>

(* The LRU maps age out.                                                    *)
EvictHint(k) ==
    /\ "evict_hint" \in world.may
    /\ hint_map' = [hint_map EXCEPT ![k] = NoOrder]
    /\ UNCHANGED <<others, density_map, vma_cache, vma_scratch, reclaiming, pc, locals, hist>>

EvictVma(k) ==
    /\ "evict_vma" \in world.may
    /\ vma_cache' = [vma_cache EXCEPT ![k] = Uncached]
    /\ UNCHANGED <<others, density_map, hint_map, vma_scratch, reclaiming, pc, locals, hist>>

EvictDensity(e) ==
    /\ "evict_density" \in world.may
    /\ density_map' = [density_map EXCEPT ![e].key = NoKey]
    /\ UNCHANGED <<others, hint_map, vma_cache, vma_scratch, reclaiming, pc, locals, hist>>

(* The loader writes system_map, every 250 ms.                              *)
Refresh ==
    /\ "refresh" \in world.may /\ system' \in world.systems
    /\ UNCHANGED <<world, tgid, layout, maps, reclaiming, pc, locals, hist>>

--------------------------------------------------------------------------------
Handler(t) ==
    \/ CacheHit(t) \/ CacheMiss(t) \/ ScratchEmpty(t) \/ ReadScratch(t)
    \/ LookupDensity(t) \/ InsertRecord(t) \/ LoadFill(t) \/ StoreFill(t) \/ WriteHint(t)

KernelStep(t) == (\E a \in Addrs : Fault(t, a)) \/ Served(t) \/ ReclaimBegin(t) \/ ReclaimEnd(t)

World ==
    \/ \E t, u \in Ids : Clone(t, u)
    \/ \E t \in Ids : Spawn(t) \/ Exit(t) \/ Remap(t)
    \/ \E k \in Keys : EvictHint(k) \/ EvictVma(k)
    \/ \E e \in Elems : EvictDensity(e)
    \/ Refresh

MthpNext == (\E t \in Ids : Handler(t) \/ KernelStep(t)) \/ World

MthpSpec == MthpInit /\ [][MthpNext]_vars

(* A BPF program runs to its end; faults, forks and the rest need not come. *)
MthpFairSpec == MthpSpec /\ \A t \in Ids : WF_vars(Handler(t))

--------------------------------------------------------------------------------
(* What the classifier owes its users.                                      *)

Counting == {"load", "store", "hint"}
Labels   == {"idle", "cache", "scratch", "density", "insert", "hook", "reclaim"} \cup Counting

MthpTypeOK ==
    /\ world \in Worlds
    /\ tgid \in [Ids -> Ids \cup {NoTask}] /\ layout \in [Ids -> SUBSET Vmas]
    /\ density_map \in [Elems -> [key : Keys \cup {NoKey}, fill : 0 .. FILL_VHOT]]
    /\ hint_map \in [Keys -> Orders \cup {NoOrder}]
    /\ vma_cache \in [Keys -> [found : BOOLEAN, range : SUBSET Addrs, kind : Kinds,
                              hits : 0 .. VMA_CACHE_TTL]]
    /\ vma_scratch \in [Ids -> [found : BOOLEAN, range : SUBSET Addrs, kind : Kinds]]
    /\ system \in Systems /\ reclaiming \in BOOLEAN
    /\ pc \in [Ids -> Labels] /\ at \in [Ids -> Addrs \cup {NoAddr}]
    /\ rd \in [Ids -> Elems \cup {NoElem}]
    /\ kind \in [Ids -> Kinds] /\ fill \in [Ids -> 0 .. FILL_VHOT]
    /\ order \in [Ids -> Orders \cup {NoOrder}]
    /\ counted \in [Keys -> 0 .. FILL_VHOT] /\ total \in 0 .. FILL_VHOT

(* The promotion schedule (lines 36-51): what n faults entitle to.          *)
Earned(o, n) ==
    /\ o >= ORDER_16KB => n >= FILL_WARM
    /\ o >= ORDER_64KB => n >= FILL_HOT
    /\ o >= ORDER_2MB  => n >= FILL_VHOT

(* Whatever the LRU reuses, two threads overwrite or a new process inherits, *)
(* no hint exceeds what all the faults together have earned: no count is     *)
(* ever made up (lines 357-370).                                             *)
OrderNeedsFaults == \A k \in Keys : Earned(hint_map[k], total)

(* Where one thread runs per process and density_map holds all the records, *)
(* every region's hint has been earned by the faults of that process in     *)
(* that region, none by a neighbour's (lines 66-68, 403-406).               *)
HintEarned ==
    world.may \cap {"clone", "evict_density"} = {}
        => \A k \in Keys : Earned(hint_map[k], counted[k])

(* No fault on a stack or on code is ever given an order, and none on a     *)
(* file more than 64KB (lines 343, 379), whatever VMAs share the region and *)
(* whichever the cache holds, if one thread runs per process, and its VMAs  *)
(* and its id stay.                                                         *)
DataOnly(t) ==
    \A v \in VmasAt(tgid[t], at[t]) :
        order[t] # NoOrder => /\ ~Excluded(v.kind)
                              /\ v.kind = "file" => order[t] <= ORDER_64KB
PromotesDataOnly ==
    world.may \cap {"clone", "remap", "exit"} = {} => \A t \in Live : DataOnly(t)

(* Until the loader writes anew, no hint asks for an order the buddy guard  *)
(* refuses, or over 16KB in extreme fragmentation (lines 385-394).          *)
HintsWithinGuard ==
    "refresh" \notin world.may
        => \A k \in Keys : hint_map[k] > ORDER_4KB =>
              /\ GuardOk(hint_map[k], system)
              /\ system.fragmented => hint_map[k] <= ORDER_16KB

(* Why these hold: the strengthening of them that is inductive.             *)
(*                                                                          *)
(* A task in the handler is alive and knows what it works on.               *)
FramesOK ==
    \A t \in Ids :
        /\ pc[t] # "idle" => tgid[t] \in Ids /\ at[t] \in Addrs
        /\ pc[t] \in Counting => rd[t] \in Elems

(* No count, stored or on its way, exceeds the number of faults.            *)
NothingMadeUp ==
    /\ \A e \in Elems : density_map[e].fill <= total
    /\ \A t \in Ids : /\ pc[t] = "store" => fill[t] <= total + 1
                      /\ pc[t] = "hint" => fill[t] <= total

(* One thread per process, which alone works on the records of its keys.    *)
KeysApart ==
    world.may \cap {"clone", "evict_density"} = {} =>
        /\ \A e \in Elems : density_map[e].key \in Keys
                => density_map[e].fill <= counted[density_map[e].key]
        /\ \A t \in Ids :
              /\ tgid[t] \in {t, NoTask}
              /\ pc[t] \in Counting => density_map[rd[t]].key = Key(t)
              /\ pc[t] = "store" => fill[t] <= counted[Key(t)] + 1
              /\ pc[t] = "hint" => fill[t] <= counted[Key(t)]

(* What is known of a VMA is true of it.                                    *)
IsVma(p, e) == \E v \in layout[p] : v.range = e.range /\ v.kind = e.kind
KnowsVmas(t) ==
    /\ tgid[t] \in {t, NoTask} /\ Disjoint(layout[t])
    /\ \A r \in Regions : vma_cache[<<t, r>>].found =>
          tgid[t] = t /\ IsVma(t, vma_cache[<<t, r>>])
    /\ pc[t] = "scratch" /\ vma_scratch[t].found =>
          at[t] \in vma_scratch[t].range /\ IsVma(t, vma_scratch[t])
    /\ pc[t] \in {"density", "insert"} \cup Counting =>
          /\ \A v \in VmasAt(t, at[t]) : v.kind = kind[t]
          /\ ~Excluded(kind[t])
    /\ order[t] # NoOrder => pc[t] \in {"hook", "reclaim"} /\ DataOnly(t)
VmasTrue ==
    world.may \cap {"clone", "remap", "exit"} = {} => \A t \in Ids : KnowsVmas(t)

(* "A hot tensor region at ORDER_2MB stays at ORDER_2MB" (line 404): in a    *)
(* region of one kind, with one thread per process, no map full and no new  *)
(* system_map, a hint never falls.                                          *)
Calm == world.may \subseteq {"fork", "reclaim", "evict_vma"}
InRegion(v, k) == \E a \in v.range : RegionOf[a] = k[2]
OneKind(k) ==
    \A v, w \in layout[k[1]] : InRegion(v, k) /\ InRegion(w, k) => v.kind = w.kind
HintsOnlyGrow ==
    [][Calm => \A k \in Keys : OneKind(k) => hint_map'[k] >= hint_map[k]]_hint_map

(* What a thread comes back to: the one record of its region, no smaller    *)
(* than the count it has read.                                              *)
OneRecord ==
    /\ \A e, f \in Elems :
          density_map[e].key \in Keys /\ density_map[f].key = density_map[e].key => e = f
    /\ \A t \in Ids :
          /\ pc[t] # "idle" => VmasAt(tgid[t], at[t]) # {}
          /\ pc[t] = "insert" => \A e \in Elems : density_map[e].key # Key(t)
          /\ pc[t] = "store" => density_map[rd[t]].fill <= fill[t]
          /\ pc[t] = "hint" => density_map[rd[t]].fill = fill[t]

(* The record of a region backs its hint: n faults would be given as much.  *)
Entitled(k, n) ==
    \A v \in layout[k[1]] :
        InRegion(v, k) => hint_map[k] <= StepDown(Ideal(v.kind, n), system)
Backed(k) ==
    /\ \A e \in Elems : density_map[e].key = k => Entitled(k, density_map[e].fill)
    /\ hint_map[k] # NoOrder => \E e \in Elems : density_map[e].key = k
HintsBacked ==
    Calm => /\ OneRecord
            /\ \A k \in Keys : tgid[k[1]] = NoTask => hint_map[k] = NoOrder
            /\ \A k \in Keys : OneKind(k) => Backed(k)

MthpIInv ==
    /\ MthpTypeOK /\ FramesOK /\ NothingMadeUp /\ OrderNeedsFaults
    /\ KeysApart /\ HintEarned /\ VmasTrue /\ HintsBacked

(* However many increments two threads lose to each other (line 367) and in *)
(* whatever order they write their hints (line 409), a heap region whose    *)
(* faults keep being counted comes to 2MB and stays there (lines 49-51).    *)
HotRegionPromoted ==
    \A k \in Keys :
        /\ world.may = {"clone"} /\ layout[k[1]] # {}
        /\ \A v \in layout[k[1]] : v.kind = "anon"
        /\ system.plenty = Orders \ {ORDER_4KB} /\ ~system.fragmented
        /\ []<>(\E t \in Ids : pc[t] \in {"insert", "hint"} /\ Key(t) = k)
        => <>[](hint_map[k] = ORDER_2MB)

--------------------------------------------------------------------------------
(* What the classifier's comments say, and the code does not do.            *)

(* "The kernel hook reads this same key for the faulting address" (line     *)
(* 401): a fault that has written a hint finds one.                         *)
HookFindsHint ==
    \A t \in Ids : pc[t] = "hook" /\ order[t] > ORDER_4KB => PreferredOrder(t) # NoOrder
================================================================================
