------------------------- MODULE MthpClassifier_proofs --------------------------
(***************************************************************************)
(* What a hint is worth: proved of MthpClassifier for any number of tasks, *)
(* addresses and records, any thresholds and any address spaces, from the  *)
(* invariant MthpIInv.                                                      *)
(***************************************************************************)
EXTENDS MthpClassifier, TLAPS

(* The operators.                                                           *)
LEMMA Counts ==
    ASSUME NEW n \in Nat, NEW m \in Nat
    PROVE  /\ Count(n) \in 0 .. FILL_VHOT /\ Count(n) <= n
           /\ n <= m => Count(n) <= Count(m)
           /\ n <= FILL_VHOT => n <= Count(n + 1)
           /\ n <= FILL_VHOT => Count(n) = n
BY MthpAssumption DEF Count

(* The schedule is monotone in the faults and antitone in the order ...     *)
LEMMA EarnedMonotone ==
    ASSUME NEW o \in Orders \cup {NoOrder}, NEW p \in Orders \cup {NoOrder},
           NEW n \in Nat, NEW m \in Nat, Earned(o, n), p <= o, n <= m
    PROVE  Earned(p, m)
BY MthpAssumption DEF Earned, Orders, NoOrder, ORDER_4KB, ORDER_16KB, ORDER_64KB, ORDER_2MB

(* ... and fill_to_order() keeps to it.                                     *)
LEMMA FillEarns ==
    ASSUME NEW n \in Nat PROVE FillToOrder(n) \in Orders /\ Earned(FillToOrder(n), n)
BY MthpAssumption
   DEF FillToOrder, Earned, Orders, ORDER_4KB, ORDER_16KB, ORDER_64KB, ORDER_2MB

LEMMA NoneEarned == ASSUME NEW n \in Nat PROVE Earned(NoOrder, n)
BY DEF Earned, NoOrder, ORDER_16KB, ORDER_64KB, ORDER_2MB

LEMMA Ideals ==
    ASSUME NEW k, NEW n \in Nat
    PROVE  /\ Ideal(k, n) \in Orders /\ Ideal(k, n) <= FillToOrder(n)
           /\ k = "file" => Ideal(k, n) <= ORDER_64KB
BY FillEarns DEF Ideal, Orders, ORDER_4KB, ORDER_16KB, ORDER_64KB, ORDER_2MB

(* The ladder only leads down, to an order the guard accepts.               *)
LEMMA Ladder ==
    ASSUME NEW o \in Orders, NEW sys \in Systems
    PROVE  /\ StepDown(o, sys) \in Orders /\ StepDown(o, sys) <= o
           /\ StepDown(o, sys) > ORDER_4KB =>
                /\ GuardOk(StepDown(o, sys), sys)
                /\ sys.fragmented => StepDown(o, sys) <= ORDER_16KB
BY DEF StepDown, GuardOk, Systems, Orders, ORDER_4KB, ORDER_16KB, ORDER_64KB, ORDER_2MB

(* More faults never earn less.                                             *)
LEMMA PromiseGrows ==
    ASSUME NEW k, NEW n \in Nat, NEW m \in Nat, n <= m, NEW sys \in Systems
    PROVE  StepDown(Ideal(k, n), sys) <= StepDown(Ideal(k, m), sys)
<1>1. Ideal(k, n) \in Orders /\ Ideal(k, m) \in Orders
  BY Ideals
<1>2. FillToOrder(n) <= FillToOrder(m)
  BY MthpAssumption DEF FillToOrder, ORDER_4KB, ORDER_16KB, ORDER_64KB, ORDER_2MB
<1>3. Ideal(k, n) <= Ideal(k, m)
  BY <1>2, FillEarns DEF Ideal, Orders, ORDER_4KB, ORDER_16KB, ORDER_64KB, ORDER_2MB
<1>4. ASSUME NEW o \in Orders, NEW p \in Orders, o <= p
      PROVE  StepDown(o, sys) <= StepDown(p, sys)
  BY <1>4 DEF StepDown, GuardOk, Systems, Orders, ORDER_4KB, ORDER_16KB, ORDER_64KB, ORDER_2MB
<1> QED
  BY <1>1, <1>3, <1>4

--------------------------------------------------------------------------------
(* Types.                                                                   *)

LEMMA KeyTypes ==
    ASSUME MthpTypeOK, NEW t \in Ids, tgid[t] \in Ids, at[t] \in Addrs
    PROVE  Key(t) \in Keys
BY DEF MthpTypeOK, Key, Keys, Regions

LEMMA WorldTypes ==
    ASSUME MthpTypeOK
    PROVE  /\ world.layouts \subseteq SUBSET Vmas /\ world.systems \subseteq Systems
           /\ world.elems \subseteq Elems /\ \A L \in world.layouts : Disjoint(L)
BY MthpAssumption DEF MthpTypeOK

LEMMA NewElemTypes == ASSUME MthpTypeOK PROVE NewElems \subseteq Elems
<1>1. FreeElems # {} => (CHOOSE e \in FreeElems : TRUE) \in FreeElems
  OBVIOUS
<1> QED
  BY <1>1, WorldTypes DEF NewElems, FreeElems

(* Return and the end of a fault leave the frame well typed.                *)
LEMMA ReturnTypes ==
    ASSUME MthpTypeOK, NEW t \in Ids, Return(t)
    PROVE  /\ pc' \in [Ids -> Labels] /\ rd' \in [Ids -> Elems \cup {NoElem}]
           /\ kind' \in [Ids -> Kinds] /\ fill' \in [Ids -> 0 .. FILL_VHOT]
BY MthpAssumption DEF MthpTypeOK, Return, Goto, Labels, Counting, Kinds

LEMMA CountTypes ==
    ASSUME MthpTypeOK, NEW t \in Ids, Key(t) \in Keys, CountFault(t)
    PROVE  /\ counted' \in [Keys -> 0 .. FILL_VHOT] /\ total' \in 0 .. FILL_VHOT
           /\ total' = Count(total + 1) /\ total <= total'
           /\ counted'[Key(t)] = Count(counted[Key(t)] + 1)
           /\ \A k \in Keys : counted[k] <= counted'[k]
<1>1. \A n \in 0 .. FILL_VHOT : Count(n + 1) \in 0 .. FILL_VHOT /\ n <= Count(n + 1)
  BY MthpAssumption DEF Count
<1>2. counted \in [Keys -> 0 .. FILL_VHOT] /\ total \in 0 .. FILL_VHOT
  BY DEF MthpTypeOK
<1>3. counted' = [counted EXCEPT ![Key(t)] = Count(counted[Key(t)] + 1)]
      /\ total' = Count(total + 1)
  BY DEF CountFault
<1> QED
  BY <1>1, <1>2, <1>3, MthpAssumption

LEMMA HandlerTypes ==
    ASSUME MthpTypeOK, FramesOK, NEW t \in Ids, Handler(t)
    PROVE  MthpTypeOK'
<1>1. pc[t] # "idle"
  BY DEF Handler, CacheHit, CacheMiss, ScratchEmpty, ReadScratch, LookupDensity,
         InsertRecord, LoadFill, StoreFill, WriteHint
<1>2. tgid[t] \in Ids /\ at[t] \in Addrs /\ Key(t) \in Keys
  BY <1>1, KeyTypes DEF FramesOK
<1> USE DEF MthpTypeOK
<1>3. ASSUME NEW k \in Kinds, TakeKind(t, k)
      PROVE  /\ pc' \in [Ids -> Labels] /\ rd' \in [Ids -> Elems \cup {NoElem}]
             /\ kind' \in [Ids -> Kinds] /\ fill' \in [Ids -> 0 .. FILL_VHOT]
             /\ UNCHANGED <<others, density_map, hint_map, reclaiming, at, order, hist>>
  <2>1. CASE Return(t)
    BY <1>3, <2>1, ReturnTypes DEF TakeKind
  <2>2. CASE ~Return(t)
    BY <1>3, <2>2 DEF TakeKind, Goto, Labels
  <2> QED
    BY <2>1, <2>2
<1>4. CASE CacheHit(t)
  <2>1. vma_cache[Key(t)].kind \in Kinds
    BY <1>2
  <2>2. vma_cache' \in [Keys -> [found : BOOLEAN, range : SUBSET Addrs, kind : Kinds,
                                hits : 0 .. VMA_CACHE_TTL]]
    BY <1>2, <1>4, MthpAssumption DEF CacheHit, Hit
  <2> QED
    BY <1>3, <1>4, <2>1, <2>2 DEF CacheHit, others, hist
<1>5. CASE CacheMiss(t)
  <2>1. \A v \in VmasAt(tgid[t], at[t]) :
           [found |-> TRUE, range |-> v.range, kind |-> v.kind]
             \in [found : BOOLEAN, range : SUBSET Addrs, kind : Kinds]
    BY <1>2 DEF VmasAt, Vmas
  <2>2. NoVma \in [found : BOOLEAN, range : SUBSET Addrs, kind : Kinds]
    BY DEF NoVma, Kinds
  <2>3. vma_scratch' \in [Ids -> [found : BOOLEAN, range : SUBSET Addrs, kind : Kinds]]
    <3>1. \E sc \in [found : BOOLEAN, range : SUBSET Addrs, kind : Kinds] :
             vma_scratch' = [vma_scratch EXCEPT ![tgid[t]] = sc]
      BY <1>5, <2>1, <2>2 DEF CacheMiss
    <3> QED
      BY <1>2, <3>1
  <2>4. /\ pc' \in [Ids -> Labels] /\ rd' \in [Ids -> Elems \cup {NoElem}]
        /\ kind' \in [Ids -> Kinds] /\ fill' \in [Ids -> 0 .. FILL_VHOT]
    <3>1. CASE Return(t)
      BY <3>1, ReturnTypes
    <3>2. CASE ~Return(t)
      BY <1>5, <3>2 DEF CacheMiss, Goto, Labels, frame
    <3> QED
      BY <3>1, <3>2
  <2> QED
    BY <1>5, <2>3, <2>4 DEF CacheMiss, others, hist
<1>6. CASE ScratchEmpty(t)
  BY <1>6, ReturnTypes DEF ScratchEmpty, others, maps, hist
<1>7. CASE ReadScratch(t)
  <2>1. vma_scratch[tgid[t]].kind \in Kinds /\ vma_scratch[tgid[t]].range \subseteq Addrs
    BY <1>2
  <2>2. vma_cache' \in [Keys -> [found : BOOLEAN, range : SUBSET Addrs, kind : Kinds,
                                hits : 0 .. VMA_CACHE_TTL]]
    BY <1>2, <1>7, <2>1, MthpAssumption DEF ReadScratch
  <2> QED
    BY <1>3, <1>7, <2>1, <2>2 DEF ReadScratch, others, hist
<1>8. CASE LookupDensity(t)
  <2>1. \E e \in Elems \cup {NoElem} : rd' = [rd EXCEPT ![t] = e]
    BY <1>8 DEF LookupDensity
  <2>2. \E l \in Labels : pc' = [pc EXCEPT ![t] = l]
    BY <1>8 DEF LookupDensity, Goto, Labels, Counting
  <2> QED
    BY <1>8, <2>1, <2>2 DEF LookupDensity, others, maps, hist
<1>9. CASE InsertRecord(t)
  <2>1. density_map' \in [Elems -> [key : Keys \cup {NoKey}, fill : 0 .. FILL_VHOT]]
    BY <1>2, <1>9, MthpAssumption DEF InsertRecord
  <2> QED
    BY <1>2, <1>9, <2>1, ReturnTypes, CountTypes DEF InsertRecord, others
<1>10. CASE LoadFill(t)
  <2>1. rd[t] \in Elems
    BY <1>10 DEF FramesOK, LoadFill, Counting
  <2>2. Count(density_map[rd[t]].fill + 1) \in 0 .. FILL_VHOT
    BY <2>1, Counts
  <2> QED
    BY <1>10, <2>2 DEF LoadFill, Goto, Labels, Counting, others, maps, hist
<1>11. CASE StoreFill(t)
  <2>1. density_map' \in [Elems -> [key : Keys \cup {NoKey}, fill : 0 .. FILL_VHOT]]
    BY <1>11 DEF StoreFill
  <2>2. counted' \in [Keys -> 0 .. FILL_VHOT] /\ total' \in 0 .. FILL_VHOT
    BY <1>2, <1>11, CountTypes DEF StoreFill
  <2> QED
    BY <1>11, <2>1, <2>2 DEF StoreFill, Goto, Labels, Counting, others, locals
<1>12. CASE WriteHint(t)
  <2>1. rd[t] \in Elems
    BY <1>12 DEF WriteHint, FramesOK, Counting
  <2>2. \A n \in Reread(t) : StepDown(Ideal(kind[t], n), system) \in Orders
    BY <2>1, MthpAssumption, Ideals, Ladder DEF Reread
  <2>3. hint_map' \in [Keys -> Orders \cup {NoOrder}]
        /\ order' \in [Ids -> Orders \cup {NoOrder}]
    BY <1>2, <1>12, <2>2 DEF WriteHint, HintKey
  <2> QED
    BY <1>12, <2>3, ReturnTypes DEF WriteHint, others, hist
<1> QED
  BY <1>4, <1>5, <1>6, <1>7, <1>8, <1>9, <1>10, <1>11, <1>12 DEF Handler

LEMMA KernelTypes ==
    ASSUME MthpTypeOK, NEW t \in Ids, KernelStep(t) PROVE MthpTypeOK'
<1> USE DEF MthpTypeOK
<1>1. ASSUME NEW a \in Addrs, Fault(t, a) PROVE MthpTypeOK'
  BY <1>1 DEF Fault, Goto, Labels, others, maps, frame, hist
<1>2. CASE Served(t) \/ ReclaimEnd(t)
  BY <1>2 DEF Served, ReclaimEnd, FaultEnds, Goto, Labels, others, maps, frame, hist
<1>3. CASE ReclaimBegin(t)
  BY <1>3 DEF ReclaimBegin, Goto, Labels, others, maps, locals, hist
<1> QED
  BY <1>1, <1>2, <1>3 DEF KernelStep

LEMMA WorldStepTypes ==
    ASSUME MthpTypeOK, World PROVE MthpTypeOK'
<1> USE DEF MthpTypeOK
<1> USE WorldTypes
<1>1. ASSUME NEW t \in Ids, NEW u \in Ids, Clone(t, u) PROVE MthpTypeOK'
  BY <1>1 DEF Clone, maps, locals, hist
<1>2. ASSUME NEW u \in Ids, Spawn(u) PROVE MthpTypeOK'
  BY <1>2 DEF Spawn, maps, locals, hist
<1>3. ASSUME NEW t \in Ids, Exit(t) PROVE MthpTypeOK'
  <2>1. NoVma \in [found : BOOLEAN, range : SUBSET Addrs, kind : Kinds]
    BY DEF NoVma, Kinds
  <2> QED
    BY <1>3, <2>1 DEF Exit, Live, locals, hist
<1>4. ASSUME NEW p \in Ids, Remap(p) PROVE MthpTypeOK'
  BY <1>4 DEF Remap, maps, locals, hist
<1>5. ASSUME NEW k \in Keys, EvictHint(k) \/ EvictVma(k) PROVE MthpTypeOK'
  <2>1. Uncached \in [found : BOOLEAN, range : SUBSET Addrs, kind : Kinds,
                     hits : 0 .. VMA_CACHE_TTL]
    BY MthpAssumption DEF Uncached, Kinds
  <2> QED
    BY <1>5, <2>1 DEF EvictHint, EvictVma, others, locals, hist
<1>6. ASSUME NEW e \in Elems, EvictDensity(e) PROVE MthpTypeOK'
  BY <1>6 DEF EvictDensity, others, locals, hist
<1>7. CASE Refresh
  BY <1>7 DEF Refresh, maps, locals, hist
<1> QED
  BY <1>1, <1>2, <1>3, <1>4, <1>5, <1>6, <1>7 DEF World

--------------------------------------------------------------------------------
(* Who touches what.                                                        *)

(* A handler works on its own frame, in a process that stays.               *)
LEMMA HandlerFrame ==
    ASSUME MthpTypeOK, NEW t \in Ids, Handler(t)
    PROVE  /\ UNCHANGED <<world, tgid, layout, system, reclaiming, at>>
           /\ pc[t] # "idle" /\ pc'[t] # "idle"
           /\ \A u \in Ids \ {t} : UNCHANGED <<pc[u], rd[u], kind[u], fill[u], order[u]>>
<1>1. pc \in [Ids -> Labels] /\ rd \in [Ids -> Elems \cup {NoElem}] /\ kind \in [Ids -> Kinds]
      /\ fill \in [Ids -> 0 .. FILL_VHOT] /\ order \in [Ids -> Orders \cup {NoOrder}]
  BY DEF MthpTypeOK
<1>2. ASSUME NEW k, TakeKind(t, k), pc[t] # "idle"
      PROVE  /\ UNCHANGED <<world, tgid, layout, system, reclaiming, at>> /\ pc'[t] # "idle"
             /\ \A u \in Ids \ {t} : UNCHANGED <<pc[u], rd[u], kind[u], fill[u], order[u]>>
  BY <1>1, <1>2 DEF TakeKind, Return, Goto, others
<1>3. CASE CacheHit(t) \/ ReadScratch(t)
  BY <1>2, <1>3 DEF CacheHit, ReadScratch
<1>4. CASE CacheMiss(t)
  BY <1>1, <1>4 DEF CacheMiss, Return, Goto, others, frame
<1>5. CASE ScratchEmpty(t) \/ InsertRecord(t)
  BY <1>1, <1>5 DEF ScratchEmpty, InsertRecord, Return, Goto, others
<1>6. CASE LookupDensity(t)
  BY <1>1, <1>6 DEF LookupDensity, Goto, others
<1>7. CASE LoadFill(t) \/ StoreFill(t)
  BY <1>1, <1>7 DEF LoadFill, StoreFill, Goto, others, locals
<1>8. CASE WriteHint(t)
  BY <1>1, <1>8 DEF WriteHint, Return, Goto, others
<1> QED
  BY <1>3, <1>4, <1>5, <1>6, <1>7, <1>8 DEF Handler

(* Only these change the records, and only one the hints.                   *)
LEMMA HandlerMaps ==
    ASSUME MthpTypeOK, NEW t \in Ids, Handler(t)
    PROVE  \/ InsertRecord(t) \/ LoadFill(t) \/ StoreFill(t) \/ WriteHint(t)
           \/ /\ UNCHANGED <<density_map, hint_map, counted, total>>
              /\ pc'[t] \notin {"store", "hint"} /\ (pc'[t] = "load" => LookupDensity(t))
<1>1. pc \in [Ids -> Labels]
  BY DEF MthpTypeOK
<1>2. ASSUME NEW k, TakeKind(t, k)
      PROVE  UNCHANGED <<density_map, hint_map, counted, total>>
             /\ pc'[t] \in {"hook", "density"}
  BY <1>1, <1>2 DEF TakeKind, Return, Goto, hist
<1>3. CASE CacheHit(t) \/ ReadScratch(t)
  BY <1>2, <1>3 DEF CacheHit, ReadScratch
<1>4. CASE CacheMiss(t) \/ ScratchEmpty(t) \/ LookupDensity(t)
  BY <1>1, <1>4 DEF CacheMiss, ScratchEmpty, LookupDensity, Return, Goto, maps, hist
<1> QED
  BY <1>3, <1>4 DEF Handler

(* What the hint o of task t, which the count n earns, changes.             *)
Written(t, n, o) ==
    /\ pc[t] = "hint" /\ rd[t] \in Elems /\ pc'[t] = "hook" /\ order'[t] = o
    /\ n \in Reread(t) /\ o = StepDown(Ideal(kind[t], n), system)
    /\ UNCHANGED <<density_map, vma_cache, counted, total>>
    /\ \A k \in Keys : hint_map'[k] = hint_map[k] \/ (k = Key(t) /\ hint_map'[k] = o)

LEMMA HintFrom ==
    ASSUME MthpTypeOK, FramesOK, NEW t \in Ids, WriteHint(t)
    PROVE  \E n \in Nat, o \in Orders : Written(t, n, o) /\ o <= FillToOrder(n)
<1>1. /\ pc \in [Ids -> Labels] /\ order \in [Ids -> Orders \cup {NoOrder}]
      /\ hint_map \in [Keys -> Orders \cup {NoOrder}] /\ fill[t] \in Nat
      /\ \A e \in Elems : density_map[e].fill \in Nat
  BY MthpAssumption DEF MthpTypeOK
<1>2. pc[t] = "hint" /\ rd[t] \in Elems
  BY DEF WriteHint, FramesOK, Counting
<1>3. PICK n \in Reread(t) :
         LET o == StepDown(Ideal(kind[t], n), system)
         IN  /\ order' = [order EXCEPT ![t] = o]
             /\ hint_map' = IF o > ORDER_4KB THEN [hint_map EXCEPT ![Key(t)] = o] ELSE hint_map
  BY DEF WriteHint, HintKey
<1>4. n \in Nat
  BY <1>1, <1>2 DEF Reread
<1> DEFINE o == StepDown(Ideal(kind[t], n), system)
<1>5. o \in Orders /\ o <= FillToOrder(n)
  <2>1. system \in Systems
    BY DEF MthpTypeOK
  <2>2. /\ Ideal(kind[t], n) \in Orders /\ Ideal(kind[t], n) <= FillToOrder(n)
        /\ FillToOrder(n) \in Orders
    BY <1>4, Ideals, FillEarns
  <2>3. o \in Orders /\ o <= Ideal(kind[t], n)
    BY <2>1, <2>2, Ladder
  <2> HIDE DEF o
  <2> QED
    BY <2>2, <2>3 DEF Orders, ORDER_4KB, ORDER_16KB, ORDER_64KB, ORDER_2MB
<1>6. pc'[t] = "hook" /\ UNCHANGED <<density_map, vma_cache, counted, total>>
  BY <1>1 DEF WriteHint, Return, Goto, hist
<1>7. /\ order'[t] = o
      /\ \A k \in Keys : hint_map'[k] = hint_map[k] \/ (k = Key(t) /\ hint_map'[k] = o)
  <2> HIDE DEF o
  <2>1. /\ order' = [order EXCEPT ![t] = o]
        /\ hint_map' = IF o > ORDER_4KB THEN [hint_map EXCEPT ![Key(t)] = o] ELSE hint_map
    BY <1>3 DEF o
  <2> QED
    BY <1>1, <2>1
<1> QED
  BY <1>2, <1>3, <1>4, <1>5, <1>6, <1>7 DEF Written

(* The rest of a fault changes no map, and no frame but t's.                *)
LEMMA KernelFrame ==
    ASSUME MthpTypeOK, NEW t \in Ids, KernelStep(t)
    PROVE  /\ UNCHANGED <<others, maps, rd, kind, fill, hist>>
           /\ pc'[t] \in {"cache", "hook", "reclaim", "idle"}
           /\ \A u \in Ids \ {t} : UNCHANGED <<pc[u], at[u], order[u]>>
           /\ pc'[t] # "idle" => \/ tgid[t] # NoTask /\ at'[t] \in Addrs
                                 \/ pc[t] # "idle" /\ at'[t] = at[t]
<1> USE DEF MthpTypeOK
<1>1. ASSUME NEW a \in Addrs, Fault(t, a) PROVE
           /\ UNCHANGED <<others, maps, rd, kind, fill, hist>>
           /\ pc'[t] \in {"cache", "hook"} /\ tgid[t] # NoTask /\ at'[t] \in Addrs
           /\ \A u \in Ids \ {t} : UNCHANGED <<pc[u], at[u], order[u]>>
  BY <1>1 DEF Fault, Goto, Live, frame
<1>2. CASE Served(t) \/ ReclaimEnd(t)
  BY <1>2 DEF Served, ReclaimEnd, FaultEnds, Goto, frame
<1>3. CASE ReclaimBegin(t)
  BY <1>3 DEF ReclaimBegin, Goto, locals
<1> QED
  BY <1>1, <1>2, <1>3 DEF KernelStep

(* The world leaves the handlers alone; processes come and go around them.  *)
LEMMA WorldFrame ==
    ASSUME MthpTypeOK, FramesOK, World
    PROVE  /\ UNCHANGED <<world, pc, locals, hist>>
           /\ \A t \in Ids : pc[t] # "idle" => tgid'[t] = tgid[t]
           /\ \A e \in Elems : density_map'[e].fill = density_map[e].fill
           /\ \A k \in Keys : hint_map'[k] \in {hint_map[k], NoOrder}
<1> USE DEF MthpTypeOK
<1>1. ASSUME NEW t \in Ids, NEW u \in Ids, Clone(t, u) PROVE
           /\ UNCHANGED <<world, pc, locals, hist, maps>>
           /\ \A w \in Ids : pc[w] # "idle" => tgid'[w] = tgid[w]
  BY <1>1, MthpAssumption DEF Clone, Unused, Live, FramesOK
<1>2. ASSUME NEW u \in Ids, Spawn(u) PROVE
           /\ UNCHANGED <<world, pc, locals, hist, maps>>
           /\ \A w \in Ids : pc[w] # "idle" => tgid'[w] = tgid[w]
  BY <1>2, MthpAssumption DEF Spawn, Unused, Live, FramesOK
<1>3. ASSUME NEW t \in Ids, Exit(t) PROVE
           /\ UNCHANGED <<world, pc, locals, hist, density_map, hint_map>>
           /\ \A w \in Ids : pc[w] # "idle" => tgid'[w] = tgid[w]
  BY <1>3 DEF Exit
<1>4. ASSUME NEW p \in Ids, Remap(p)
      PROVE  UNCHANGED <<world, tgid, pc, locals, hist, maps>>
  BY <1>4 DEF Remap
<1>5. ASSUME NEW k \in Keys, EvictHint(k) \/ EvictVma(k)
      PROVE  /\ UNCHANGED <<world, tgid, pc, locals, hist, density_map>>
             /\ \A l \in Keys : hint_map'[l] \in {hint_map[l], NoOrder}
  BY <1>5 DEF EvictHint, EvictVma, others
<1>6. ASSUME NEW e \in Elems, EvictDensity(e)
      PROVE  /\ UNCHANGED <<world, tgid, pc, locals, hist, hint_map>>
             /\ \A d \in Elems : density_map'[d].fill = density_map[d].fill
  BY <1>6 DEF EvictDensity, others
<1>7. CASE Refresh
  BY <1>7 DEF Refresh, maps
<1> QED
  BY <1>1, <1>2, <1>3, <1>4, <1>5, <1>6, <1>7 DEF World, maps

--------------------------------------------------------------------------------
(* Frames.                                                                  *)

LEMMA FramesStep ==
    ASSUME MthpTypeOK, FramesOK, MthpNext PROVE FramesOK'
<1>1. ASSUME NEW t \in Ids, Handler(t) PROVE FramesOK'
  <2>1. pc'[t] \in Counting => rd'[t] \in Elems
    <3>1. CASE LookupDensity(t)
      BY <3>1 DEF LookupDensity, Goto, MthpTypeOK, Counting
    <3>2. CASE LoadFill(t) \/ StoreFill(t)
      BY <3>2 DEF LoadFill, StoreFill, FramesOK, Counting, locals
    <3>3. CASE InsertRecord(t) \/ WriteHint(t)
      BY <3>3 DEF InsertRecord, WriteHint, Return, Goto, Counting, MthpTypeOK
    <3> QED
      BY <1>1, <3>1, <3>2, <3>3, HandlerMaps DEF Counting
  <2> QED
    BY <1>1, <2>1, HandlerFrame DEF FramesOK
<1>2. ASSUME NEW t \in Ids, KernelStep(t) PROVE FramesOK'
  <2>1. tgid[t] # NoTask => tgid[t] \in Ids
    BY DEF MthpTypeOK
  <2> QED
    BY <1>2, <2>1, KernelFrame DEF FramesOK, Counting, others
<1>3. CASE World
  BY <1>3, WorldFrame DEF FramesOK, locals
<1> QED
  BY <1>1, <1>2, <1>3 DEF MthpNext

--------------------------------------------------------------------------------
(* No count is made up, and no hint exceeds the faults.                     *)

LEMMA MadeUpStep ==
    ASSUME MthpTypeOK, FramesOK, NothingMadeUp, OrderNeedsFaults, MthpNext
    PROVE  NothingMadeUp' /\ OrderNeedsFaults'
<1> USE MthpAssumption
<1>0. /\ total \in 0 .. FILL_VHOT /\ fill \in [Ids -> 0 .. FILL_VHOT]
      /\ density_map \in [Elems -> [key : Keys \cup {NoKey}, fill : 0 .. FILL_VHOT]]
      /\ hint_map \in [Keys -> Orders \cup {NoOrder}] /\ pc \in [Ids -> Labels]
  BY DEF MthpTypeOK
<1>1. ASSUME NEW t \in Ids, Handler(t) PROVE NothingMadeUp' /\ OrderNeedsFaults'
  <2>1. \A u \in Ids \ {t} : pc'[u] = pc[u] /\ fill'[u] = fill[u]
    BY <1>1, HandlerFrame
  <2>2. tgid[t] \in Ids /\ at[t] \in Addrs /\ Key(t) \in Keys
    BY <1>1, HandlerFrame, KeyTypes DEF FramesOK
  <2>3. ASSUME CountFault(t)
        PROVE  /\ total' \in 0 .. FILL_VHOT /\ total <= total' /\ 1 <= total'
               /\ fill[t] <= total + 1 => fill[t] <= total'
    <3>1. total' = Count(total + 1) /\ total' \in 0 .. FILL_VHOT /\ total <= total'
      BY <2>2, <2>3, CountTypes
    <3> QED
      BY <1>0, <3>1 DEF Count
  <2>4. CASE InsertRecord(t)
    <3>1. /\ pc'[t] = "hook" /\ CountFault(t) /\ UNCHANGED hint_map
          /\ \A e \in Elems : density_map'[e].fill \in {density_map[e].fill, 1}
      BY <2>4, <1>0 DEF InsertRecord, Return, Goto
    <3>2. NothingMadeUp'
      BY <1>0, <2>1, <2>3, <3>1 DEF NothingMadeUp
    <3>3. OrderNeedsFaults'
      BY <1>0, <2>3, <3>1, EarnedMonotone DEF OrderNeedsFaults, Orders, NoOrder,
         ORDER_4KB, ORDER_16KB, ORDER_64KB, ORDER_2MB
    <3> QED
      BY <3>2, <3>3
  <2>5. CASE LoadFill(t)
    <3>1. rd[t] \in Elems
      BY <2>5 DEF LoadFill, FramesOK, Counting
    <3>2. fill'[t] <= total + 1 /\ pc'[t] = "store"
      BY <1>0, <2>5, <3>1, Counts DEF LoadFill, Goto, NothingMadeUp
    <3> QED
      BY <2>1, <2>5, <3>2 DEF LoadFill, NothingMadeUp, OrderNeedsFaults, maps, hist
  <2>6. CASE StoreFill(t)
    <3>1. /\ pc'[t] = "hint" /\ CountFault(t) /\ UNCHANGED <<hint_map, fill>>
          /\ fill[t] <= total + 1
          /\ \A e \in Elems : density_map'[e].fill \in {density_map[e].fill, fill[t]}
      BY <2>6, <1>0 DEF StoreFill, Goto, locals, NothingMadeUp
    <3>2. NothingMadeUp'
      BY <1>0, <2>1, <2>3, <3>1 DEF NothingMadeUp
    <3>3. OrderNeedsFaults'
      BY <1>0, <2>3, <3>1, EarnedMonotone DEF OrderNeedsFaults, Orders, NoOrder,
         ORDER_4KB, ORDER_16KB, ORDER_64KB, ORDER_2MB
    <3> QED
      BY <3>2, <3>3
  <2>7. CASE WriteHint(t)
    <3>1. PICK n \in Nat, o \in Orders : Written(t, n, o) /\ o <= FillToOrder(n)
      BY <2>7, HintFrom
    <3>2. n <= total
      BY <3>1 DEF Written, Reread, NothingMadeUp
    <3>3. Earned(o, total)
      BY <1>0, <3>1, <3>2, FillEarns, EarnedMonotone
    <3> QED
      BY <2>1, <3>1, <3>3 DEF Written, NothingMadeUp, OrderNeedsFaults
  <2> QED
    BY <1>1, <2>1, <2>4, <2>5, <2>6, <2>7, HandlerMaps DEF NothingMadeUp, OrderNeedsFaults
<1>2. ASSUME NEW t \in Ids, KernelStep(t) PROVE NothingMadeUp' /\ OrderNeedsFaults'
  BY <1>2, KernelFrame DEF NothingMadeUp, OrderNeedsFaults, maps, hist
<1>3. CASE World
  BY <1>0, <1>3, WorldFrame, NoneEarned DEF NothingMadeUp, OrderNeedsFaults, locals, hist
<1> QED
  BY <1>1, <1>2, <1>3 DEF MthpNext

--------------------------------------------------------------------------------
(* Keys of different processes do not meet.                                 *)

LEMMA NoKeyApart == NoKey \notin Keys
BY DEF NoKey, Keys

(* Two tasks with a process each have different keys.                       *)
LEMMA KeysDiffer ==
    ASSUME NEW t \in Ids, NEW u \in Ids, tgid[t] = t, tgid[u] = u, t # u
    PROVE  Key(t) # Key(u)
BY DEF Key

LEMMA ApartStep ==
    ASSUME MthpTypeOK, FramesOK, KeysApart, HintEarned, MthpNext
    PROVE  KeysApart' /\ HintEarned'
<1> SUFFICES ASSUME world.may \cap {"clone", "evict_density"} = {}, world' = world
             PROVE  KeysApart' /\ HintEarned'
  <2>1. world' = world
    BY HandlerFrame, KernelFrame, WorldFrame DEF MthpNext, others
  <2> QED
    BY <2>1 DEF KeysApart, HintEarned
<1>0. /\ counted \in [Keys -> 0 .. FILL_VHOT] /\ fill \in [Ids -> 0 .. FILL_VHOT]
      /\ density_map \in [Elems -> [key : Keys \cup {NoKey}, fill : 0 .. FILL_VHOT]]
      /\ hint_map \in [Keys -> Orders \cup {NoOrder}] /\ pc \in [Ids -> Labels]
      /\ tgid \in [Ids -> Ids \cup {NoTask}]
  BY DEF MthpTypeOK
<1>a. /\ \A e \in Elems : density_map[e].key \in Keys
            => density_map[e].fill <= counted[density_map[e].key]
      /\ \A t \in Ids :
            /\ tgid[t] \in {t, NoTask}
            /\ pc[t] \in Counting => density_map[rd[t]].key = Key(t)
            /\ pc[t] = "store" => fill[t] <= counted[Key(t)] + 1
            /\ pc[t] = "hint" => fill[t] <= counted[Key(t)]
      /\ \A k \in Keys : Earned(hint_map[k], counted[k])
  BY DEF KeysApart, HintEarned
<1>b. \A t \in Ids : pc[t] # "idle" => tgid[t] = t /\ at[t] \in Addrs /\ Key(t) \in Keys
  BY <1>0, <1>a, MthpAssumption, KeyTypes DEF FramesOK
<1>1. ASSUME NEW t \in Ids, Handler(t) PROVE KeysApart' /\ HintEarned'
  <2>1. /\ \A u \in Ids \ {t} : pc'[u] = pc[u] /\ fill'[u] = fill[u] /\ rd'[u] = rd[u]
        /\ \A u \in Ids : Key(u)' = Key(u)
        /\ UNCHANGED <<tgid, at>>
    BY <1>1, HandlerFrame DEF Key
  <2>2. pc[t] # "idle" /\ Key(t) \in Keys
    BY <1>1, <1>b, HandlerFrame
  <2>3. \A u \in Ids \ {t} : pc[u] # "idle" => Key(u) # Key(t)
    BY <1>b, <2>2, KeysDiffer
  <2>4. ASSUME CountFault(t)
        PROVE  /\ \A k \in Keys : counted'[k] \in 0 .. FILL_VHOT /\ counted[k] <= counted'[k]
               /\ counted'[Key(t)] >= 1
               /\ fill[t] <= counted[Key(t)] + 1 => fill[t] <= counted'[Key(t)]
    <3>1. /\ counted' \in [Keys -> 0 .. FILL_VHOT]
          /\ counted'[Key(t)] = Count(counted[Key(t)] + 1)
          /\ \A k \in Keys : counted[k] <= counted'[k]
      BY <2>2, <2>4, CountTypes
    <3> QED
      BY <1>0, <2>2, <3>1, MthpAssumption DEF Count
  <2>5. ASSUME CountFault(t), UNCHANGED hint_map PROVE HintEarned'
    BY <1>0, <1>a, <2>4, <2>5, EarnedMonotone
       DEF HintEarned, Orders, NoOrder, ORDER_4KB, ORDER_16KB, ORDER_64KB, ORDER_2MB
  <2>6. CASE InsertRecord(t)
    <3>1. PICK new \in NewElems :
             density_map' = [e \in Elems |->
              IF e = new THEN [key |-> Key(t), fill |-> 1]
              ELSE IF density_map[e].key = Key(t) THEN [density_map[e] EXCEPT !.key = NoKey]
              ELSE density_map[e]]
      BY <2>6 DEF InsertRecord
    <3>2. new \in Elems /\ density_map[new].key = NoKey
      <4>1. NewElems \subseteq FreeElems
        BY DEF NewElems
      <4> QED
        BY <4>1, NewElemTypes DEF FreeElems
    <3>3. pc'[t] = "hook" /\ CountFault(t) /\ UNCHANGED hint_map
      BY <1>0, <2>6 DEF InsertRecord, Return, Goto
    <3>4. \A e \in Elems : density_map'[e].key \in Keys =>
             density_map'[e].fill <= counted'[density_map'[e].key]
      <4> SUFFICES ASSUME NEW e \in Elems, density_map'[e].key \in Keys
                   PROVE  density_map'[e].fill <= counted'[density_map'[e].key]
        OBVIOUS
      <4>1. CASE e = new
        BY <2>4, <3>1, <3>3, <4>1
      <4>2. CASE e # new /\ density_map[e].key = Key(t)
        BY <1>0, <3>1, <4>2, NoKeyApart
      <4>3. CASE e # new /\ density_map[e].key # Key(t)
        BY <1>0, <1>a, <2>4, <3>1, <3>3, <4>3, MthpAssumption
      <4> QED
        BY <4>1, <4>2, <4>3
    <3>5. \A u \in Ids \ {t} : pc[u] \in Counting =>
             density_map'[rd[u]] = density_map[rd[u]]
      BY <1>a, <1>b, <2>3, <3>1, <3>2, NoKeyApart DEF FramesOK, Counting
    <3> QED
      BY <1>0, <1>a, <1>b, <2>1, <2>4, <2>5, <3>3, <3>4, <3>5, MthpAssumption
         DEF KeysApart, Counting
  <2>7. CASE LoadFill(t)
    <3>1. rd[t] \in Elems /\ density_map[rd[t]].key = Key(t)
      BY <1>a, <2>7 DEF LoadFill, FramesOK, Counting
    <3>2. fill'[t] <= counted[Key(t)] + 1 /\ pc'[t] = "store"
      BY <1>0, <1>a, <2>2, <2>7, <3>1, Counts, MthpAssumption DEF LoadFill, Goto
    <3>3. UNCHANGED <<density_map, hint_map, counted, rd>>
      BY <2>7 DEF LoadFill, maps, hist
    <3> QED
      BY <1>a, <2>1, <3>1, <3>2, <3>3 DEF KeysApart, HintEarned, Counting
  <2>8. CASE StoreFill(t)
    <3>1. rd[t] \in Elems /\ density_map[rd[t]].key = Key(t) /\ fill[t] <= counted[Key(t)] + 1
      BY <1>a, <2>8 DEF StoreFill, FramesOK, Counting
    <3>2. pc'[t] = "hint" /\ CountFault(t) /\ UNCHANGED <<hint_map, fill, rd>>
      BY <1>0, <2>8 DEF StoreFill, Goto, locals
    <3>3. \A e \in Elems :
             /\ density_map'[e].key = density_map[e].key
             /\ e # rd[t] => density_map'[e].fill = density_map[e].fill
             /\ e = rd[t] => density_map'[e].fill = fill[t]
      BY <1>0, <2>8 DEF StoreFill
    <3>4. \A e \in Elems : density_map'[e].key \in Keys =>
             density_map'[e].fill <= counted'[density_map'[e].key]
      BY <1>0, <1>a, <2>4, <3>1, <3>2, <3>3, MthpAssumption
    <3>5. \A u \in Ids : pc[u] \in Counting => density_map'[rd[u]].key = Key(u)
      BY <1>a, <3>3 DEF FramesOK
    <3>6. pc[t] \in Counting
      BY <2>8 DEF StoreFill, Counting
    <3> QED
      BY <1>0, <1>a, <1>b, <2>1, <2>4, <2>5, <3>1, <3>2, <3>4, <3>5, <3>6, MthpAssumption
         DEF KeysApart, Counting
  <2>9. CASE WriteHint(t)
    <3>1. PICK n \in Nat, o \in Orders : Written(t, n, o) /\ o <= FillToOrder(n)
      BY <2>9, HintFrom DEF KeysApart
    <3>2. n <= counted[Key(t)] /\ counted[Key(t)] \in Nat
      BY <1>0, <1>a, <2>2, <3>1 DEF Written, Reread, Counting
    <3>3. Earned(o, counted[Key(t)])
      BY <3>1, <3>2, FillEarns, EarnedMonotone
    <3> QED
      BY <1>a, <2>1, <3>1, <3>3 DEF Written, KeysApart, HintEarned, Counting
  <2>10. ASSUME UNCHANGED <<density_map, hint_map, counted, total>>,
                pc'[t] \notin {"store", "hint"}, pc'[t] = "load" => LookupDensity(t)
         PROVE  KeysApart' /\ HintEarned'
    <3>1. pc'[t] = "load" => density_map[rd'[t]].key = Key(t)
      <4>1. CASE LookupDensity(t)
        BY <1>0, <4>1 DEF LookupDensity, Goto, MthpTypeOK
      <4> QED
        BY <2>10, <4>1
    <3> QED
      BY <1>a, <2>1, <2>10, <3>1 DEF KeysApart, HintEarned, Counting
  <2> QED
    BY <1>1, <2>6, <2>7, <2>8, <2>9, <2>10, HandlerMaps
<1>2. ASSUME NEW t \in Ids, KernelStep(t) PROVE KeysApart' /\ HintEarned'
  <2>1. \A u \in Ids \ {t} : Key(u)' = Key(u)
    BY <1>2, KernelFrame DEF Key, others
  <2> QED
    BY <1>2, <1>a, <2>1, KernelFrame DEF KeysApart, HintEarned, Counting, others, maps, hist
<1>3. CASE World
  <2>1. /\ UNCHANGED <<pc, at, rd, fill, counted>>
        /\ \A t \in Ids : pc[t] # "idle" => Key(t)' = Key(t)
        /\ \A k \in Keys : hint_map'[k] \in {hint_map[k], NoOrder}
    BY <1>3, WorldFrame DEF locals, hist, Key
  <2>2. UNCHANGED density_map
    BY <1>3 DEF World, Clone, Spawn, Exit, Remap, EvictHint, EvictVma, EvictDensity,
       Refresh, others, maps
  <2>3. \A t \in Ids : tgid'[t] \in {t, NoTask}
    BY <1>0, <1>3, <1>a DEF World, Clone, Spawn, Exit, Remap, EvictHint, EvictVma,
       EvictDensity, Refresh, others
  <2> QED
    BY <1>0, <1>a, <2>1, <2>2, <2>3, NoneEarned DEF KeysApart, HintEarned, Counting
<1> QED
  BY <1>1, <1>2, <1>3 DEF MthpNext

--------------------------------------------------------------------------------
(* Hints stay within the buddy guard.                                       *)

LEMMA GuardStep ==
    ASSUME MthpTypeOK, FramesOK, HintsWithinGuard, MthpNext PROVE HintsWithinGuard'
<1> SUFFICES ASSUME "refresh" \notin world.may, world' = world PROVE HintsWithinGuard'
  <2>1. world' = world
    BY HandlerFrame, KernelFrame, WorldFrame DEF MthpNext, others
  <2> QED
    BY <2>1 DEF HintsWithinGuard
<1>0. hint_map \in [Keys -> Orders \cup {NoOrder}] /\ system \in Systems
  BY DEF MthpTypeOK
<1>a. \A k \in Keys : hint_map[k] > ORDER_4KB =>
         GuardOk(hint_map[k], system) /\ (system.fragmented => hint_map[k] <= ORDER_16KB)
  BY DEF HintsWithinGuard
<1>1. ASSUME NEW t \in Ids, Handler(t) PROVE HintsWithinGuard'
  <2>1. UNCHANGED system
    BY <1>1, HandlerFrame
  <2>2. CASE WriteHint(t)
    <3>1. PICK n \in Nat, o \in Orders : Written(t, n, o) /\ o <= FillToOrder(n)
      BY <2>2, HintFrom
    <3>2. o > ORDER_4KB => GuardOk(o, system) /\ (system.fragmented => o <= ORDER_16KB)
      BY <1>0, <3>1, Ideals, Ladder DEF Written
    <3> QED
      BY <1>a, <2>1, <3>1, <3>2 DEF Written, HintsWithinGuard
  <2>3. CASE UNCHANGED hint_map
    BY <1>a, <2>1, <2>3 DEF HintsWithinGuard
  <2> QED
    BY <1>1, <2>2, <2>3, HandlerMaps DEF InsertRecord, LoadFill, StoreFill, maps
<1>2. ASSUME NEW t \in Ids, KernelStep(t) PROVE HintsWithinGuard'
  BY <1>a, <1>2, KernelFrame DEF HintsWithinGuard, others, maps
<1>3. CASE World
  <2>1. UNCHANGED system
    BY <1>3 DEF World, Clone, Spawn, Exit, Remap, EvictHint, EvictVma, EvictDensity,
       Refresh, others
  <2>2. \A k \in Keys : hint_map'[k] \in {hint_map[k], NoOrder}
    BY <1>3, WorldFrame
  <2>3. ~(NoOrder > ORDER_4KB)
    BY DEF NoOrder, ORDER_4KB
  <2> QED
    BY <1>a, <2>1, <2>2, <2>3 DEF HintsWithinGuard
<1> QED
  BY <1>1, <1>2, <1>3 DEF MthpNext

--------------------------------------------------------------------------------
(* What is known of a VMA is true of it.                                    *)

(* A VMA that covers an address is the only one.                            *)
LEMMA TheVma ==
    ASSUME NEW p, NEW e, NEW a \in e.range, IsVma(p, e), Disjoint(layout[p])
    PROVE  \A v \in VmasAt(p, a) : v.range = e.range /\ v.kind = e.kind
BY DEF IsVma, Disjoint, VmasAt

(* What a task knows of VMAs depends on its own state only.                 *)
LEMMA KnowsFrame ==
    ASSUME NEW u \in Ids, KnowsVmas(u), pc[u] # "idle" => tgid[u] = u,
           UNCHANGED <<layout[u], tgid[u], at[u], pc[u], kind[u], order[u], vma_scratch[u]>>,
           \A r \in Regions : vma_cache'[<<u, r>>] = vma_cache[<<u, r>>]
                               \/ ~vma_cache'[<<u, r>>].found
    PROVE  KnowsVmas(u)'
<1>1. ASSUME NEW r \in Regions, vma_cache'[<<u, r>>].found
      PROVE  tgid'[u] = u /\ IsVma(u, vma_cache[<<u, r>>])'
  BY <1>1 DEF KnowsVmas, IsVma
<1>2. pc'[u] = "scratch" /\ vma_scratch'[u].found =>
         at'[u] \in vma_scratch'[u].range /\ IsVma(u, vma_scratch[u])'
  BY DEF KnowsVmas, IsVma
<1>3. \A v \in VmasAt(u, at[u])' : v \in VmasAt(u, at[u])
  BY DEF VmasAt
<1>4. order'[u] # NoOrder => pc'[u] \in {"hook", "reclaim"} /\ DataOnly(u)'
  BY <1>3 DEF KnowsVmas, DataOnly, VmasAt
<1>5. tgid'[u] \in {u, NoTask} /\ Disjoint(layout'[u])
  BY DEF KnowsVmas
<1>6. pc'[u] \in {"density", "insert"} \cup Counting =>
         (\A v \in VmasAt(u, at[u])' : v.kind = kind'[u]) /\ ~Excluded(kind'[u])
  BY <1>3 DEF KnowsVmas
<1> QED
  BY <1>1, <1>2, <1>4, <1>5, <1>6 DEF KnowsVmas

(* The handler's steps, by the task t: it takes the VMA from the cache ...  *)
LEMMA KindTaken ==
    ASSUME MthpTypeOK, NEW t \in Ids, KnowsVmas(t), tgid[t] = t,
           pc[t] \in {"cache", "scratch"}, UNCHANGED layout,
           NEW e, at[t] \in e.range, IsVma(t, e), TakeKind(t, e.kind)
    PROVE  /\ pc'[t] \in {"density", "insert"} \cup Counting =>
                /\ \A v \in VmasAt(t, at[t])' : v.kind = kind'[t]
                /\ ~Excluded(kind'[t])
           /\ order'[t] = NoOrder /\ pc'[t] # "scratch"
<1>0. pc \in [Ids -> Labels] /\ kind \in [Ids -> Kinds]
  BY DEF MthpTypeOK
<1>1. \A v \in VmasAt(t, at[t]) : v.kind = e.kind
  BY TheVma DEF KnowsVmas
<1>2. order'[t] = order[t] /\ order[t] = NoOrder /\ UNCHANGED at
  BY DEF TakeKind, KnowsVmas
<1>3. CASE Excluded(e.kind) /\ Return(t)
  BY <1>0, <1>2, <1>3 DEF Return, Goto, Counting
<1>4. CASE ~Excluded(e.kind) /\ Goto(t, "density") /\ kind' = [kind EXCEPT ![t] = e.kind]
  BY <1>0, <1>1, <1>2, <1>4 DEF Goto, VmasAt
<1> QED
  BY <1>3, <1>4 DEF TakeKind

(* ... or with a step that only moves on, or ends.                          *)
LEMMA MovesOn ==
    ASSUME MthpTypeOK, NEW t \in Ids, KnowsVmas(t), tgid[t] = t,
           UNCHANGED <<tgid, layout, at, vma_cache, vma_scratch>>, order'[t] = order[t],
           order[t] # NoOrder => pc'[t] \in {"hook", "reclaim"},
           \/ pc'[t] \in {"hook", "reclaim", "cache"}
           \/ /\ pc[t] \in {"density", "insert"} \cup Counting /\ kind'[t] = kind[t]
              /\ pc'[t] \in {"insert"} \cup Counting
    PROVE  KnowsVmas(t)'
<1>1. \A r \in Regions : vma_cache'[<<t, r>>].found =>
         tgid'[t] = t /\ IsVma(t, vma_cache[<<t, r>>])'
  BY DEF KnowsVmas, IsVma
<1>2. pc'[t] # "scratch"
  BY DEF Counting
<1>3. pc'[t] \in {"density", "insert"} \cup Counting =>
         (\A v \in VmasAt(t, at[t])' : v.kind = kind'[t]) /\ ~Excluded(kind'[t])
  BY DEF Counting, KnowsVmas, VmasAt
<1>4. order'[t] # NoOrder => DataOnly(t)'
  BY DEF KnowsVmas, DataOnly, VmasAt
<1> QED
  BY <1>1, <1>2, <1>3, <1>4 DEF KnowsVmas

LEMMA VmasStep ==
    ASSUME MthpTypeOK, FramesOK, VmasTrue, MthpNext PROVE VmasTrue'
<1> SUFFICES ASSUME world.may \cap {"clone", "remap", "exit"} = {}, NEW u \in Ids
             PROVE  KnowsVmas(u)'
  <2>1. world' = world
    BY HandlerFrame, KernelFrame, WorldFrame DEF MthpNext, others
  <2> QED
    BY <2>1 DEF VmasTrue
<1>0. /\ pc \in [Ids -> Labels] /\ at \in [Ids -> Addrs \cup {NoAddr}]
      /\ order \in [Ids -> Orders \cup {NoOrder}] /\ kind \in [Ids -> Kinds]
      /\ fill \in [Ids -> 0 .. FILL_VHOT] /\ rd \in [Ids -> Elems \cup {NoElem}]
      /\ tgid \in [Ids -> Ids \cup {NoTask}] /\ layout \in [Ids -> SUBSET Vmas]
  BY DEF MthpTypeOK
<1>a. \A t \in Ids : KnowsVmas(t)
  BY DEF VmasTrue
<1>b. \A t \in Ids : pc[t] # "idle" => tgid[t] = t
  BY <1>a, MthpAssumption DEF KnowsVmas, FramesOK
<1>1. ASSUME NEW t \in Ids, Handler(t) PROVE KnowsVmas(u)'
  <2>1. tgid[t] = t /\ Key(t) = <<t, RegionOf[at[t]]>> /\ KnowsVmas(t) /\ at[t] \in Addrs
        /\ UNCHANGED <<tgid, layout, at, system>> /\ Key(t) \in Keys
    BY <1>1, <1>a, <1>b, HandlerFrame, KeyTypes DEF Key, FramesOK
  <2>2. CASE u # t
    <3>1. /\ UNCHANGED <<layout[u], tgid[u], at[u], pc[u], kind[u], order[u]>>
      BY <1>1, <2>1, <2>2, HandlerFrame
    <3>2. /\ vma_scratch'[u] = vma_scratch[u]
          /\ \A r \in Regions : vma_cache'[<<u, r>>] = vma_cache[<<u, r>>]
      <4>1. /\ \A k \in Keys : k # Key(t) => vma_cache'[k] = vma_cache[k]
            /\ \A p \in Ids : p # t => vma_scratch'[p] = vma_scratch[p]
        BY <1>1, <2>1 DEF MthpTypeOK, Handler, CacheHit, CacheMiss, ScratchEmpty, ReadScratch,
           LookupDensity, InsertRecord, LoadFill, StoreFill, WriteHint, maps
      <4> QED
        BY <2>1, <2>2, <4>1 DEF Keys
    <3> QED
      BY <1>a, <1>b, <3>1, <3>2, KnowsFrame
  <2>3. ASSUME u = t PROVE KnowsVmas(t)'
    <3>1. CASE CacheHit(t)
      <4> DEFINE e == vma_cache[Key(t)]
      <4>1. e.found /\ at[t] \in e.range /\ pc[t] = "cache" /\ TakeKind(t, e.kind)
        BY <3>1 DEF CacheHit, Hit
      <4>2. IsVma(t, e)
        BY <2>1, <4>1 DEF KnowsVmas, Regions
      <4>3. /\ pc'[t] \in {"density", "insert"} \cup Counting =>
                 /\ \A v \in VmasAt(t, at[t])' : v.kind = kind'[t]
                 /\ ~Excluded(kind'[t])
            /\ order'[t] = NoOrder /\ pc'[t] # "scratch"
        <5> HIDE DEF e
        <5> QED
          BY <2>1, <4>1, <4>2, KindTaken
      <4>4. \A k \in Keys : /\ vma_cache'[k].found = vma_cache[k].found
                            /\ vma_cache'[k].range = vma_cache[k].range
                            /\ vma_cache'[k].kind = vma_cache[k].kind
        <5>1. /\ vma_cache' = [vma_cache EXCEPT ![Key(t)].hits = @ + 1]
              /\ vma_cache \in [Keys -> [found : BOOLEAN, range : SUBSET Addrs, kind : Kinds,
                                         hits : 0 .. VMA_CACHE_TTL]]
          BY <3>1 DEF CacheHit, MthpTypeOK
        <5> QED
          BY <5>1
      <4>5. \A r \in Regions : vma_cache'[<<t, r>>].found =>
               tgid'[t] = t /\ IsVma(t, vma_cache[<<t, r>>])'
        BY <2>1, <4>4 DEF KnowsVmas, IsVma, Keys
      <4> QED
        BY <2>1, <4>3, <4>5 DEF KnowsVmas
    <3>2. CASE CacheMiss(t)
      <4>1. UNCHANGED vma_cache /\ order'[t] = NoOrder
            /\ pc'[t] \notin {"density", "insert"} \cup Counting
        BY <1>0, <2>1, <3>2 DEF CacheMiss, Return, Goto, Counting, KnowsVmas
      <4>2. pc'[t] = "scratch" /\ vma_scratch'[t].found =>
               at'[t] \in vma_scratch'[t].range /\ IsVma(t, vma_scratch[t])'
        <5>1. CASE Return(t)
          BY <1>0, <5>1 DEF Return, Goto
        <5>2. ASSUME NEW v \in VmasAt(tgid[t], at[t]),
                     vma_scratch' = [vma_scratch EXCEPT ![tgid[t]] =
                                       [found |-> TRUE, range |-> v.range, kind |-> v.kind]]
              PROVE  at'[t] \in vma_scratch'[t].range /\ IsVma(t, vma_scratch[t])'
          BY <2>1, <5>2 DEF VmasAt, IsVma, MthpTypeOK
        <5> QED
          BY <3>2, <5>1, <5>2 DEF CacheMiss
      <4>3. \A r \in Regions : vma_cache'[<<t, r>>].found =>
               tgid'[t] = t /\ IsVma(t, vma_cache[<<t, r>>])'
        BY <2>1, <4>1 DEF KnowsVmas, IsVma
      <4> QED
        BY <2>1, <4>1, <4>2, <4>3 DEF KnowsVmas
    <3>3. CASE ReadScratch(t)
      <4> DEFINE e == vma_scratch[t]
      <4>1. e.found /\ at[t] \in e.range /\ IsVma(t, e) /\ pc[t] = "scratch"
            /\ TakeKind(t, e.kind)
        BY <2>1, <3>3 DEF ReadScratch, KnowsVmas
      <4>2. /\ pc'[t] \in {"density", "insert"} \cup Counting =>
                 /\ \A v \in VmasAt(t, at[t])' : v.kind = kind'[t]
                 /\ ~Excluded(kind'[t])
            /\ order'[t] = NoOrder /\ pc'[t] # "scratch"
        <5> HIDE DEF e
        <5> QED
          BY <2>1, <4>1, KindTaken
      <4>3. \A k \in Keys : \/ vma_cache'[k] = vma_cache[k]
                            \/ vma_cache'[k].range = e.range /\ vma_cache'[k].kind = e.kind
        BY <2>1, <3>3 DEF ReadScratch, MthpTypeOK
      <4>4. \A r \in Regions : vma_cache'[<<t, r>>].found =>
               tgid'[t] = t /\ IsVma(t, vma_cache[<<t, r>>])'
        BY <2>1, <4>1, <4>3 DEF KnowsVmas, IsVma, Keys
      <4> QED
        BY <2>1, <4>2, <4>4 DEF KnowsVmas
    <3>4. CASE WriteHint(t)
      <4>1. PICK n \in Nat, o \in Orders : Written(t, n, o) /\ o <= FillToOrder(n)
        BY <3>4, HintFrom
      <4>2. kind[t] = "file" => o <= ORDER_64KB
        <5>1. o = StepDown(Ideal(kind[t], n), system) /\ system \in Systems
          BY <4>1 DEF Written, MthpTypeOK
        <5>2. /\ Ideal(kind[t], n) \in Orders /\ o <= Ideal(kind[t], n)
              /\ kind[t] = "file" => Ideal(kind[t], n) <= ORDER_64KB
          BY <5>1, Ideals, Ladder
        <5> QED
          BY <5>2 DEF Orders, ORDER_4KB, ORDER_16KB, ORDER_64KB, ORDER_2MB
      <4>3. order'[t] = o /\ pc'[t] = "hook" /\ UNCHANGED vma_cache
        BY <4>1 DEF Written
      <4>4. \A v \in VmasAt(t, at[t]) : v.kind = kind[t] /\ ~Excluded(kind[t])
        BY <2>1, <3>4 DEF WriteHint, KnowsVmas, Counting
      <4>5. DataOnly(t)'
        BY <2>1, <4>2, <4>3, <4>4 DEF DataOnly, VmasAt
      <4>6. \A r \in Regions : vma_cache'[<<t, r>>].found =>
               tgid'[t] = t /\ IsVma(t, vma_cache[<<t, r>>])'
        BY <2>1, <4>3 DEF KnowsVmas, IsVma
      <4> QED
        BY <2>1, <4>3, <4>5, <4>6 DEF KnowsVmas, Counting
    <3>5. CASE ScratchEmpty(t) \/ InsertRecord(t)
      BY <1>0, <2>1, <3>5, MovesOn DEF ScratchEmpty, InsertRecord, Return, Goto, maps
    <3>6. CASE LookupDensity(t) \/ LoadFill(t) \/ StoreFill(t)
      <4>1. order[t] = NoOrder
        BY <2>1, <3>6 DEF LookupDensity, LoadFill, StoreFill, KnowsVmas
      <4> QED
        BY <1>0, <2>1, <3>6, <4>1, MovesOn
           DEF LookupDensity, LoadFill, StoreFill, Goto, maps, locals, Counting
    <3> QED
      BY <1>1, <3>1, <3>2, <3>3, <3>4, <3>5, <3>6 DEF Handler
  <2> QED
    BY <2>2, <2>3
<1>2. ASSUME NEW t \in Ids, KernelStep(t) PROVE KnowsVmas(u)'
  <2>1. UNCHANGED <<layout, tgid, vma_cache, vma_scratch, kind>>
    BY <1>2, KernelFrame DEF others, maps
  <2>2. CASE u # t
    <3>1. UNCHANGED <<at[u], pc[u], order[u]>>
      BY <1>0, <1>2, <2>2 DEF KernelStep, Fault, Served, ReclaimBegin, ReclaimEnd, FaultEnds,
         Goto, locals
    <3> QED
      BY <1>a, <1>b, <2>1, <3>1, KnowsFrame
  <2>3. ASSUME u = t PROVE KnowsVmas(t)'
    <3>1. ASSUME NEW a \in Addrs, Fault(t, a) PROVE KnowsVmas(t)'
      <4>1. order[t] = NoOrder /\ order'[t] = NoOrder /\ pc'[t] \in {"hook", "cache"}
        BY <1>0, <1>a, <3>1 DEF Fault, Goto, KnowsVmas
      <4> QED
        BY <1>a, <2>1, <4>1 DEF KnowsVmas, IsVma, Counting
    <3>2. CASE Served(t) \/ ReclaimEnd(t)
      <4>1. order'[t] = NoOrder /\ pc'[t] = "idle"
        BY <1>0, <3>2 DEF Served, ReclaimEnd, FaultEnds, Goto
      <4> QED
        BY <1>a, <2>1, <4>1 DEF KnowsVmas, IsVma, Counting
    <3>3. CASE ReclaimBegin(t)
      BY <1>0, <1>a, <1>b, <2>1, <3>3, MovesOn DEF ReclaimBegin, Goto, locals
    <3> QED
      BY <1>2, <3>1, <3>2, <3>3 DEF KernelStep
  <2> QED
    BY <2>2, <2>3
<1>3. CASE World
  <2>1. UNCHANGED <<pc, at, kind, order>>
    BY <1>3, WorldFrame DEF locals
  <2>2. ASSUME NEW w \in Ids, Spawn(w) PROVE KnowsVmas(u)'
    <3>1. UNCHANGED <<vma_cache, vma_scratch>>
      BY <2>2 DEF Spawn, maps
    <3>2. CASE w # u
      <4>1. UNCHANGED <<layout[u], tgid[u]>>
        BY <1>0, <2>2, <3>2 DEF Spawn
      <4> QED
        BY <1>a, <1>b, <2>1, <3>1, <4>1, KnowsFrame
    <3>3. CASE w = u
      <4>1. tgid[u] = NoTask /\ pc[u] = "idle" /\ order[u] = NoOrder /\ tgid[u] # u
        BY <1>0, <1>a, <1>b, <2>2, <3>3, MthpAssumption DEF Spawn, Unused, Live, KnowsVmas
      <4>2. \A r \in Regions : ~vma_cache'[<<u, r>>].found
        BY <1>a, <3>1, <4>1 DEF KnowsVmas
      <4>3. tgid'[u] = u /\ Disjoint(layout'[u])
        BY <1>0, <2>2, <3>3, WorldTypes DEF Spawn
      <4> QED
        BY <2>1, <4>1, <4>2, <4>3 DEF KnowsVmas, Counting
    <3> QED
      BY <3>2, <3>3
  <2>3. ASSUME UNCHANGED <<layout, tgid, vma_scratch>>,
               \A k \in Keys : vma_cache'[k] = vma_cache[k] \/ ~vma_cache'[k].found
        PROVE  KnowsVmas(u)'
    BY <1>a, <1>b, <2>1, <2>3, KnowsFrame DEF Keys
  <2>4. ASSUME NEW k \in Keys, EvictVma(k) PROVE KnowsVmas(u)'
    <3>1. \A l \in Keys : vma_cache'[l] = vma_cache[l] \/ ~vma_cache'[l].found
      BY <2>4 DEF EvictVma, Uncached, MthpTypeOK
    <3> QED
      BY <2>3, <2>4, <3>1 DEF EvictVma, others
  <2>5. CASE Refresh \/ (\E k \in Keys : EvictHint(k)) \/ (\E e \in Elems : EvictDensity(e))
    BY <2>3, <2>5 DEF Refresh, EvictHint, EvictDensity, maps, others
  <2>6. ~(\E t, w \in Ids : Clone(t, w)) /\ ~(\E t \in Ids : Exit(t) \/ Remap(t))
    BY DEF Clone, Exit, Remap
  <2> QED
    BY <1>3, <2>2, <2>4, <2>5, <2>6 DEF World
<1> QED
  BY <1>1, <1>2, <1>3 DEF MthpNext

--------------------------------------------------------------------------------
(* In a calm world, hints only grow.                                        *)

(* One thread per process, which works on its own keys.                     *)
LEMMA CalmTasks ==
    ASSUME MthpTypeOK, FramesOK, KeysApart, Calm
    PROVE  /\ \A t \in Ids : tgid[t] \in {t, NoTask}
           /\ \A t \in Ids : pc[t] # "idle" =>
                 tgid[t] = t /\ at[t] \in Addrs /\ Key(t) = <<t, RegionOf[at[t]]>> /\ Key(t) \in Keys
           /\ \A t, u \in Ids : pc[t] # "idle" /\ pc[u] # "idle" /\ t # u => Key(t) # Key(u)
           /\ \A t \in Ids : pc[t] \in Counting => density_map[rd[t]].key = Key(t)
<1>1. \A t \in Ids : tgid[t] \in {t, NoTask}
                   /\ (pc[t] \in Counting => density_map[rd[t]].key = Key(t))
  BY DEF Calm, KeysApart
<1>2. \A t \in Ids : pc[t] # "idle" => tgid[t] = t /\ at[t] \in Addrs /\ Key(t) \in Keys
  BY <1>1, MthpAssumption, KeyTypes DEF FramesOK
<1> QED
  BY <1>1, <1>2, KeysDiffer DEF Key

(* A hint a record of n faults backs, one of more does.                     *)
LEMMA EntitledGrows ==
    ASSUME MthpTypeOK, NEW k \in Keys, NEW n \in 0 .. FILL_VHOT, NEW m \in 0 .. FILL_VHOT,
           n <= m, Entitled(k, n)
    PROVE  Entitled(k, m)
<1> SUFFICES ASSUME NEW v \in layout[k[1]], InRegion(v, k)
             PROVE  hint_map[k] <= StepDown(Ideal(v.kind, m), system)
  BY DEF Entitled
<1>1. n \in Nat /\ m \in Nat /\ system \in Systems /\ hint_map[k] \in Orders \cup {NoOrder}
  BY MthpAssumption DEF MthpTypeOK
<1>2. hint_map[k] <= StepDown(Ideal(v.kind, n), system)
  BY DEF Entitled
<1>3. /\ StepDown(Ideal(v.kind, n), system) \in Orders
      /\ StepDown(Ideal(v.kind, m), system) \in Orders
  BY <1>1, Ideals, Ladder
<1>4. StepDown(Ideal(v.kind, n), system) <= StepDown(Ideal(v.kind, m), system)
  BY <1>1, PromiseGrows
<1> QED
  BY <1>1, <1>2, <1>3, <1>4 DEF Orders, NoOrder, ORDER_4KB, ORDER_16KB, ORDER_64KB, ORDER_2MB

(* No hint is backed by any count.                                          *)
LEMMA NoHintBacked ==
    ASSUME MthpTypeOK, NEW k \in Keys, NEW n \in 0 .. FILL_VHOT, hint_map[k] = NoOrder
    PROVE  Entitled(k, n)
<1> SUFFICES ASSUME NEW v \in layout[k[1]]
             PROVE  hint_map[k] <= StepDown(Ideal(v.kind, n), system)
  BY DEF Entitled
<1>1. n \in Nat /\ system \in Systems
  BY MthpAssumption DEF MthpTypeOK
<1>2. StepDown(Ideal(v.kind, n), system) \in Orders
  BY <1>1, Ideals, Ladder
<1> QED
  BY <1>2 DEF Orders, NoOrder, ORDER_4KB, ORDER_16KB, ORDER_64KB, ORDER_2MB

(* What is backed depends on the records, the hints and the address space.  *)
LEMMA BackedFrame ==
    ASSUME NEW k \in Keys, Backed(k), layout'[k[1]] = layout[k[1]], system' = system,
           hint_map'[k] = hint_map[k], UNCHANGED density_map
    PROVE  Backed(k)'
BY DEF Backed, Entitled, InRegion

(* The hint a task writes is what its one VMA's kind earns: no less than    *)
(* the hint there is.                                                       *)
LEMMA HintWritten ==
    ASSUME MthpTypeOK, FramesOK, KeysApart, VmasTrue, HintsBacked, Calm,
           NEW t \in Ids, WriteHint(t)
    PROVE  LET o == StepDown(Ideal(kind[t], fill[t]), system)
           IN  /\ Key(t) \in Keys /\ o \in Orders
               /\ \A k \in Keys : \/ hint_map'[k] = hint_map[k]
                                  \/ k = Key(t) /\ hint_map'[k] = o
               /\ OneKind(Key(t)) =>
                    /\ hint_map[Key(t)] <= o
                    /\ \A v \in layout[t] : InRegion(v, Key(t)) => v.kind = kind[t]
<1> DEFINE o == StepDown(Ideal(kind[t], fill[t]), system)
<1>1. /\ pc[t] = "hint" /\ tgid[t] = t /\ Key(t) = <<t, RegionOf[at[t]]>> /\ Key(t) \in Keys
      /\ at[t] \in Addrs /\ Key(t)[1] = t
  BY CalmTasks DEF WriteHint
<1>2. fill[t] \in Nat /\ o \in Orders
  BY Ideals, Ladder, MthpAssumption DEF MthpTypeOK
<1>3. \A k \in Keys : hint_map'[k] = hint_map[k] \/ (k = Key(t) /\ hint_map'[k] = o)
  <2>1. PICK n \in Nat, p \in Orders : Written(t, n, p)
    BY HintFrom
  <2>2. n = fill[t]
    BY <1>1, <2>1 DEF Written, Reread, HintsBacked, OneRecord
  <2> QED
    BY <2>1, <2>2 DEF Written
<1>4. PICK w \in layout[t] : at[t] \in w.range
  BY <1>1 DEF HintsBacked, OneRecord, VmasAt
<1>5. w.kind = kind[t]
  <2>1. KnowsVmas(t)
    BY DEF VmasTrue, Calm
  <2> QED
    BY <1>1, <1>4, <2>1 DEF KnowsVmas, Counting, VmasAt
<1>6. InRegion(w, Key(t))
  BY <1>1, <1>4 DEF InRegion
<1>7. ASSUME OneKind(Key(t)) PROVE hint_map[Key(t)] <= o
  <2>1. rd[t] \in Elems /\ density_map[rd[t]].key = Key(t) /\ density_map[rd[t]].fill = fill[t]
    BY <1>1, CalmTasks DEF HintsBacked, OneRecord, FramesOK, Counting
  <2>2. Entitled(Key(t), fill[t])
    BY <1>1, <1>7, <2>1 DEF HintsBacked, Backed
  <2> QED
    BY <1>1, <1>4, <1>5, <1>6, <2>2 DEF Entitled
<1>8. ASSUME OneKind(Key(t)), NEW v \in layout[t], InRegion(v, Key(t)) PROVE v.kind = kind[t]
  BY <1>1, <1>4, <1>5, <1>6, <1>8 DEF OneKind
<1> QED
  BY <1>1, <1>2, <1>3, <1>7, <1>8

(* A handler keeps the one record of each region ...                        *)
LEMMA RecordStep ==
    ASSUME MthpTypeOK, FramesOK, KeysApart, HintsBacked, Calm, NEW t \in Ids, Handler(t)
    PROVE  OneRecord'
<1>0. /\ density_map \in [Elems -> [key : Keys \cup {NoKey}, fill : 0 .. FILL_VHOT]]
      /\ pc \in [Ids -> Labels] /\ fill \in [Ids -> 0 .. FILL_VHOT]
      /\ rd \in [Ids -> Elems \cup {NoElem}] /\ FILL_VHOT \in Nat
  BY MthpAssumption DEF MthpTypeOK
<1>a. OneRecord
  BY DEF HintsBacked
<1>b. /\ \A u \in Ids \ {t} : UNCHANGED <<pc[u], rd[u], kind[u], fill[u]>>
      /\ pc[t] # "idle" /\ UNCHANGED <<tgid, layout, at>>
      /\ \A u \in Ids : Key(u)' = Key(u) /\ VmasAt(tgid[u], at[u])' = VmasAt(tgid[u], at[u])
  BY HandlerFrame DEF Key, VmasAt
<1>c. /\ Key(t) \in Keys
      /\ \A u \in Ids \ {t} : pc[u] # "idle" => Key(u) # Key(t)
      /\ \A u \in Ids : pc[u] \in Counting =>
            rd[u] \in Elems /\ density_map[rd[u]].key = Key(u) /\ Key(u) \in Keys
  BY <1>b, CalmTasks DEF FramesOK, Counting
<1>v. \A u \in Ids : pc'[u] # "idle" => VmasAt(tgid[u], at[u])' # {}
  BY <1>a, <1>b DEF OneRecord
<1>1. CASE InsertRecord(t)
  <2>1. PICK new \in NewElems :
           density_map' = [e \in Elems |->
            IF e = new THEN [key |-> Key(t), fill |-> 1]
            ELSE IF density_map[e].key = Key(t) THEN [density_map[e] EXCEPT !.key = NoKey]
            ELSE density_map[e]]
    BY <1>1 DEF InsertRecord
  <2>2. new \in Elems /\ density_map[new].key = NoKey
    <3>1. NewElems \subseteq FreeElems
      BY DEF NewElems, Calm
    <3> QED
      BY <2>1, <3>1, NewElemTypes DEF FreeElems
  <2>3. \A e \in Elems : density_map[e].key # Key(t)
    BY <1>1, <1>a DEF InsertRecord, OneRecord
  <2>4. /\ density_map'[new].key = Key(t)
        /\ \A e \in Elems \ {new} : density_map'[e] = density_map[e]
    BY <2>1, <2>2, <2>3
  <2>5. pc'[t] = "hook"
    BY <1>0, <1>1 DEF InsertRecord, Return, Goto
  <2>6. \A e, f \in Elems :
           density_map'[e].key \in Keys /\ density_map'[f].key = density_map'[e].key => e = f
    BY <1>a, <2>3, <2>4 DEF OneRecord
  <2>7. \A u \in Ids \ {t} : pc[u] \in {"store", "hint"} => rd[u] # new
    BY <1>c, <2>2, NoKeyApart DEF Counting
  <2> QED
    BY <1>a, <1>b, <1>c, <1>v, <2>4, <2>5, <2>6, <2>7 DEF OneRecord, Counting
<1>2. CASE LoadFill(t)
  <2>1. pc[t] = "load" /\ pc'[t] = "store" /\ rd[t] \in Elems
        /\ fill'[t] = Count(density_map[rd[t]].fill + 1) /\ UNCHANGED <<density_map, rd>>
    BY <1>0, <1>2, <1>c DEF LoadFill, Goto, maps, Counting
  <2>2. density_map[rd[t]].fill \in Nat /\ density_map[rd[t]].fill <= FILL_VHOT
    BY <1>0, <2>1
  <2>3. density_map[rd[t]].fill <= fill'[t]
    BY <2>1, <2>2, Counts
  <2> QED
    BY <1>a, <1>b, <1>v, <2>1, <2>3 DEF OneRecord
<1>3. CASE StoreFill(t)
  <2>1. /\ pc[t] = "store" /\ pc'[t] = "hint" /\ rd[t] \in Elems /\ UNCHANGED <<rd, fill>>
        /\ density_map[rd[t]].key = Key(t) /\ density_map'[rd[t]].fill = fill[t]
        /\ \A e \in Elems : /\ density_map'[e].key = density_map[e].key
                            /\ e # rd[t] => density_map'[e] = density_map[e]
    BY <1>0, <1>3, <1>c DEF StoreFill, Goto, locals, Counting
  <2>2. \A u \in Ids \ {t} : pc[u] \in {"store", "hint"} => rd[u] # rd[t] /\ rd[u] \in Elems
    BY <1>c, <2>1 DEF Counting
  <2> QED
    BY <1>a, <1>b, <1>v, <2>1, <2>2 DEF OneRecord
<1>4. CASE WriteHint(t)
  <2>1. pc'[t] = "hook" /\ UNCHANGED density_map
    BY <1>0, <1>4 DEF WriteHint, Return, Goto
  <2> QED
    BY <1>a, <1>b, <1>v, <2>1 DEF OneRecord
<1>5. ASSUME UNCHANGED density_map, pc'[t] \notin {"store", "hint"} PROVE OneRecord'
  <2>1. pc'[t] = "insert" => LookupDensity(t)
    BY <1>0 DEF Handler, CacheHit, CacheMiss, ScratchEmpty, ReadScratch, TakeKind,
       InsertRecord, LoadFill, StoreFill, WriteHint, Return, Goto
  <2>2. pc'[t] = "insert" => \A e \in Elems : density_map[e].key # Key(t)
    BY <1>0, <2>1 DEF LookupDensity, Goto
  <2> QED
    BY <1>5, <1>a, <1>b, <1>v, <2>2 DEF OneRecord
<1> QED
  BY <1>1, <1>2, <1>3, <1>4, <1>5, HandlerMaps

(* ... and that it backs the hint.                                          *)
LEMMA BackedStep ==
    ASSUME MthpTypeOK, MthpTypeOK', FramesOK, KeysApart, VmasTrue, HintsBacked, Calm,
           NEW t \in Ids, Handler(t), NEW k \in Keys, OneKind(k)
    PROVE  Backed(k)'
<1>0. /\ density_map \in [Elems -> [key : Keys \cup {NoKey}, fill : 0 .. FILL_VHOT]]
      /\ hint_map \in [Keys -> Orders \cup {NoOrder}] /\ fill \in [Ids -> 0 .. FILL_VHOT]
  BY DEF MthpTypeOK
<1>a. OneRecord /\ Backed(k)
  BY DEF HintsBacked
<1>b. UNCHANGED <<layout, system, tgid, at>> /\ pc[t] # "idle"
  BY HandlerFrame
<1>c. Key(t) \in Keys /\ tgid[t] = t /\ Key(t)[1] = t
  BY <1>b, CalmTasks
<1>d. ASSUME NEW n, hint_map'[k] = hint_map[k], Entitled(k, n) PROVE Entitled(k, n)'
  BY <1>b, <1>d DEF Entitled, InRegion
<1>1. CASE InsertRecord(t)
  <2>1. PICK new \in NewElems :
           density_map' = [e \in Elems |->
            IF e = new THEN [key |-> Key(t), fill |-> 1]
            ELSE IF density_map[e].key = Key(t) THEN [density_map[e] EXCEPT !.key = NoKey]
            ELSE density_map[e]]
    BY <1>1 DEF InsertRecord
  <2>2. new \in Elems /\ density_map[new].key = NoKey
    <3>1. NewElems \subseteq FreeElems
      BY DEF NewElems, Calm
    <3> QED
      BY <2>1, <3>1, NewElemTypes DEF FreeElems
  <2>3. (\A e \in Elems : density_map[e].key # Key(t)) /\ UNCHANGED hint_map
    BY <1>1, <1>a DEF InsertRecord, OneRecord
  <2>4. /\ density_map'[new].key = Key(t)
        /\ \A e \in Elems \ {new} : density_map'[e] = density_map[e]
    BY <2>1, <2>2, <2>3
  <2>5. CASE k = Key(t)
    <3>1. hint_map'[k] = NoOrder
      BY <1>a, <2>3, <2>5 DEF Backed
    <3>2. \A e \in Elems : Entitled(k, density_map[e].fill)'
      <4>1. \A e \in Elems : density_map'[e].fill \in 0 .. FILL_VHOT
        BY DEF MthpTypeOK
      <4>2. \A n \in 0 .. FILL_VHOT : Entitled(k, n)
        BY <2>3, <3>1, NoHintBacked
      <4> QED
        BY <1>d, <2>3, <4>1, <4>2
    <3> QED
      BY <3>1, <3>2 DEF Backed
  <2>6. CASE k # Key(t)
    <3>1. \A e \in Elems : density_map'[e].key = k => e # new /\ density_map'[e] = density_map[e]
      BY <2>4, <2>6
    <3>2. \A e \in Elems : density_map[e].key = k => density_map'[e].key = k
      BY <2>2, <2>4, NoKeyApart
    <3> QED
      BY <1>a, <1>d, <2>3, <3>1, <3>2 DEF Backed
  <2> QED
    BY <2>5, <2>6
<1>2. CASE StoreFill(t)
  <2>1. /\ rd[t] \in Elems /\ density_map[rd[t]].fill <= fill[t]
        /\ density_map'[rd[t]].fill = fill[t] /\ UNCHANGED hint_map
        /\ \A e \in Elems : /\ density_map'[e].key = density_map[e].key
                            /\ e # rd[t] => density_map'[e] = density_map[e]
    BY <1>0, <1>2, <1>a DEF StoreFill, FramesOK, OneRecord, Counting
  <2>2. ASSUME NEW e \in Elems, density_map'[e].key = k PROVE Entitled(k, density_map[e].fill)'
    <3>1. Entitled(k, density_map[e].fill)
      BY <1>a, <2>1, <2>2 DEF Backed
    <3>2. Entitled(k, density_map'[e].fill)
      <4>1. density_map[e].fill <= density_map'[e].fill
        BY <1>0, <2>1
      <4>2. density_map[e].fill \in 0 .. FILL_VHOT /\ density_map'[e].fill \in 0 .. FILL_VHOT
        BY DEF MthpTypeOK
      <4> QED
        BY <3>1, <4>1, <4>2, EntitledGrows
    <3> QED
      BY <1>d, <2>1, <3>2
  <2> QED
    BY <1>a, <2>1, <2>2 DEF Backed
<1>3. CASE WriteHint(t)
  <2> DEFINE o == StepDown(Ideal(kind[t], fill[t]), system)
  <2>1. /\ o \in Orders
        /\ hint_map'[k] = hint_map[k] \/ (k = Key(t) /\ hint_map'[k] = o)
        /\ k = Key(t) => \A v \in layout[t] : InRegion(v, k) => v.kind = kind[t]
    BY <1>3, HintWritten
  <2>2. UNCHANGED density_map /\ pc[t] = "hint"
    BY <1>3 DEF WriteHint
  <2>3. CASE hint_map'[k] = hint_map[k]
    BY <1>a, <1>d, <2>2, <2>3 DEF Backed
  <2>4. CASE k = Key(t) /\ hint_map'[k] = o
    <3>1. rd[t] \in Elems /\ density_map[rd[t]].key = k /\ density_map[rd[t]].fill = fill[t]
      BY <1>a, <2>2, <2>4, CalmTasks DEF OneRecord, FramesOK, Counting
    <3>2. \A e \in Elems : density_map[e].key = k => density_map[e].fill = fill[t]
      BY <1>a, <3>1 DEF OneRecord
    <3>3. \A v \in layout'[k[1]] : InRegion(v, k)' =>
             hint_map'[k] <= StepDown(Ideal(v.kind, fill[t]), system')
      <4> SUFFICES ASSUME NEW v \in layout[t], InRegion(v, k)
                   PROVE  hint_map'[k] <= StepDown(Ideal(v.kind, fill[t]), system)
        BY <1>b, <1>c, <2>4 DEF InRegion
      <4>1. v.kind = kind[t]
        BY <2>1, <2>4
      <4>2. o <= o
        <5> HIDE DEF o
        <5> QED
          BY <2>1 DEF Orders, ORDER_4KB, ORDER_16KB, ORDER_64KB, ORDER_2MB
      <4> QED
        BY <2>4, <4>1, <4>2
    <3>4. \A e \in Elems : density_map'[e].key = k => Entitled(k, density_map[e].fill)'
      BY <2>2, <3>2, <3>3 DEF Entitled
    <3> QED
      BY <2>2, <3>1, <3>4 DEF Backed
  <2> QED
    BY <2>1, <2>3, <2>4
<1>4. CASE UNCHANGED <<density_map, hint_map>>
  BY <1>4, <1>a, <1>b, BackedFrame
<1> QED
  BY <1>1, <1>2, <1>3, <1>4, HandlerMaps DEF LoadFill, maps

LEMMA HintsStep ==
    ASSUME MthpTypeOK, MthpTypeOK', FramesOK, KeysApart, VmasTrue, HintsBacked, MthpNext
    PROVE  HintsBacked'
<1> SUFFICES ASSUME Calm, world' = world PROVE HintsBacked'
  <2>1. world' = world
    BY HandlerFrame, KernelFrame, WorldFrame DEF MthpNext, others
  <2> QED
    BY <2>1 DEF HintsBacked, Calm
<1>a. /\ OneRecord
      /\ \A k \in Keys : tgid[k[1]] = NoTask => hint_map[k] = NoOrder
      /\ \A k \in Keys : OneKind(k) => Backed(k)
  BY DEF HintsBacked
<1>b. \A t \in Ids : pc[t] # "idle" => tgid[t] = t /\ Key(t)[1] = t
  BY CalmTasks
<1>1. ASSUME NEW t \in Ids, Handler(t) PROVE HintsBacked'
  <2>1. UNCHANGED <<tgid, layout, at>> /\ pc[t] # "idle"
    BY <1>1, HandlerFrame
  <2>2. \A k \in Keys : tgid'[k[1]] = NoTask => hint_map'[k] = NoOrder
    <3>1. CASE WriteHint(t)
      <4>1. \A k \in Keys : hint_map'[k] = hint_map[k] \/ k = Key(t)
        BY <3>1, HintWritten
      <4>2. tgid[t] # NoTask
        BY <1>b, <2>1, MthpAssumption
      <4> QED
        BY <1>a, <1>b, <2>1, <4>1, <4>2
    <3>2. CASE UNCHANGED hint_map
      BY <1>a, <2>1, <3>2
    <3> QED
      BY <1>1, <3>1, <3>2, HandlerMaps DEF InsertRecord, LoadFill, StoreFill, maps
  <2>3. \A k \in Keys : OneKind(k)' => Backed(k)'
    BY <1>1, <2>1, BackedStep DEF OneKind, InRegion
  <2> QED
    BY <1>1, <2>2, <2>3, RecordStep DEF HintsBacked
<1>2. ASSUME NEW t \in Ids, KernelStep(t) PROVE HintsBacked'
  <2>1. /\ UNCHANGED <<tgid, layout, system, density_map, hint_map, rd, fill>>
        /\ pc'[t] \in {"cache", "hook", "reclaim", "idle"}
        /\ \A u \in Ids \ {t} : UNCHANGED <<pc[u], at[u]>>
    BY <1>2, KernelFrame DEF others, maps
  <2>2. pc'[t] # "idle" => VmasAt(tgid[t], at[t])' # {}
    <3>1. ASSUME NEW a \in Addrs, Fault(t, a) PROVE VmasAt(tgid[t], at[t])' # {}
      BY <2>1, <3>1 DEF Fault, VmasAt, MthpTypeOK
    <3>2. CASE Served(t) \/ ReclaimEnd(t)
      BY <3>2 DEF Served, ReclaimEnd, FaultEnds, Goto, MthpTypeOK
    <3>3. CASE ReclaimBegin(t)
      BY <1>a, <2>1, <3>3 DEF ReclaimBegin, OneRecord, VmasAt, locals
    <3> QED
      BY <1>2, <3>1, <3>2, <3>3 DEF KernelStep
  <2>3. \A u \in Ids \ {t} : Key(u)' = Key(u) /\ VmasAt(tgid[u], at[u])' = VmasAt(tgid[u], at[u])
    BY <2>1 DEF Key, VmasAt
  <2>4. OneRecord'
    BY <1>a, <2>1, <2>2, <2>3 DEF OneRecord
  <2>5. \A k \in Keys : OneKind(k)' => Backed(k)'
    BY <1>a, <2>1, BackedFrame DEF OneKind, InRegion
  <2> QED
    BY <1>a, <2>1, <2>4, <2>5 DEF HintsBacked
<1>3. CASE World
  <2>1. UNCHANGED <<pc, at, rd, fill>>
    BY <1>3, WorldFrame DEF locals
  <2>2. ASSUME NEW u \in Ids, Spawn(u) PROVE HintsBacked'
    <3>1. /\ tgid[u] = NoTask /\ tgid' = [tgid EXCEPT ![u] = u]
          /\ UNCHANGED <<density_map, hint_map, system>>
          /\ \A p \in Ids \ {u} : layout'[p] = layout[p] /\ tgid'[p] = tgid[p]
      BY <2>2 DEF Spawn, Unused, Live, maps, MthpTypeOK
    <3>2. \A t \in Ids : pc[t] # "idle" => t # u
      BY <1>b, <3>1, MthpAssumption
    <3>3. \A t \in Ids : pc[t] # "idle" =>
             Key(t)' = Key(t) /\ VmasAt(tgid[t], at[t])' = VmasAt(tgid[t], at[t])
      BY <1>b, <2>1, <3>1, <3>2 DEF Key, VmasAt
    <3>4. OneRecord'
      BY <1>a, <2>1, <3>1, <3>3 DEF OneRecord
    <3>5. \A k \in Keys : tgid'[k[1]] = NoTask => hint_map'[k] = NoOrder
      BY <1>a, <3>1, MthpAssumption DEF MthpTypeOK, Keys
    <3>6. ASSUME NEW k \in Keys, OneKind(k)' PROVE Backed(k)'
      <4>1. CASE k[1] = u
        <5>1. hint_map'[k] = NoOrder
          BY <1>a, <3>1, <4>1
        <5>2. \A e \in Elems : Entitled(k, density_map[e].fill)'
          <6>1. \A e \in Elems : density_map'[e].fill \in 0 .. FILL_VHOT
            BY DEF MthpTypeOK
          <6>2. ASSUME NEW n \in 0 .. FILL_VHOT, NEW v
                PROVE  hint_map'[k] <= StepDown(Ideal(v.kind, n), system')
            <7>1. StepDown(Ideal(v.kind, n), system') \in Orders
              BY Ideals, Ladder, MthpAssumption DEF MthpTypeOK
            <7> QED
              BY <5>1, <7>1
                 DEF Orders, NoOrder, ORDER_4KB, ORDER_16KB, ORDER_64KB, ORDER_2MB
          <6> QED
            BY <6>1, <6>2 DEF Entitled
        <5> QED
          BY <5>1, <5>2 DEF Backed
      <4>2. CASE k[1] # u
        <5>1. layout'[k[1]] = layout[k[1]]
          BY <3>1, <4>2 DEF Keys
        <5> QED
          BY <1>a, <3>1, <3>6, <5>1, BackedFrame DEF OneKind, InRegion
      <4> QED
        BY <4>1, <4>2
    <3> QED
      BY <3>4, <3>5, <3>6 DEF HintsBacked
  <2>3. ASSUME NEW k \in Keys, EvictVma(k) PROVE HintsBacked'
    <3>1. UNCHANGED <<tgid, layout, system, density_map, hint_map>>
      BY <2>3 DEF EvictVma, others
    <3>2. OneRecord'
      BY <1>a, <2>1, <3>1 DEF OneRecord, Key, VmasAt
    <3>3. \A l \in Keys : OneKind(l)' => Backed(l)'
      BY <1>a, <3>1, BackedFrame DEF OneKind, InRegion
    <3> QED
      BY <1>a, <3>1, <3>2, <3>3 DEF HintsBacked
  <2>4. /\ ~(\E t, u \in Ids : Clone(t, u)) /\ ~(\E t \in Ids : Exit(t) \/ Remap(t))
        /\ ~(\E k \in Keys : EvictHint(k)) /\ ~(\E e \in Elems : EvictDensity(e)) /\ ~Refresh
    BY DEF Calm, Clone, Exit, Remap, EvictHint, EvictDensity, Refresh
  <2> QED
    BY <1>3, <2>2, <2>3, <2>4 DEF World
<1> QED
  BY <1>1, <1>2, <1>3 DEF MthpNext

--------------------------------------------------------------------------------
(* The invariant.                                                           *)

LEMMA InitHolds == MthpInit => MthpIInv /\ HintsWithinGuard
<1> SUFFICES ASSUME MthpInit PROVE MthpIInv /\ HintsWithinGuard
  OBVIOUS
<1>1. /\ world \in Worlds /\ system \in Systems /\ world.layouts \subseteq SUBSET Vmas
      /\ \A L \in world.layouts : Disjoint(L)
  BY MthpAssumption DEF MthpInit
<1>2. PICK t \in Ids, L \in world.layouts :
         /\ tgid = [u \in Ids |-> IF u = t THEN t ELSE NoTask]
         /\ layout = [u \in Ids |-> IF u = t THEN L ELSE {}]
  BY DEF MthpInit
<1>3. MthpTypeOK
  <2>1. NoVma \in [found : BOOLEAN, range : SUBSET Addrs, kind : Kinds]
        /\ Uncached \in [found : BOOLEAN, range : SUBSET Addrs, kind : Kinds,
                         hits : 0 .. VMA_CACHE_TTL]
    BY MthpAssumption DEF NoVma, Uncached, Kinds
  <2>2. tgid \in [Ids -> Ids \cup {NoTask}] /\ layout \in [Ids -> SUBSET Vmas]
    BY <1>1, <1>2
  <2>3. /\ vma_cache = [k \in Keys |-> Uncached] /\ vma_scratch = [p \in Ids |-> NoVma]
        /\ counted = [k \in Keys |-> 0] /\ total = 0 /\ FILL_VHOT \in Nat
        /\ hint_map = [k \in Keys |-> NoOrder] /\ order = [u \in Ids |-> NoOrder]
        /\ density_map = [e \in Elems |-> [key |-> NoKey, fill |-> 0]]
    BY MthpAssumption DEF MthpInit
  <2>4. /\ density_map \in [Elems -> [key : Keys \cup {NoKey}, fill : 0 .. FILL_VHOT]]
        /\ counted \in [Keys -> 0 .. FILL_VHOT] /\ total \in 0 .. FILL_VHOT
    BY <2>3
  <2>5. /\ vma_cache \in [Keys -> [found : BOOLEAN, range : SUBSET Addrs, kind : Kinds,
                                   hits : 0 .. VMA_CACHE_TTL]]
        /\ vma_scratch \in [Ids -> [found : BOOLEAN, range : SUBSET Addrs, kind : Kinds]]
    BY <2>1, <2>3
  <2>6. hint_map \in [Keys -> Orders \cup {NoOrder}] /\ order \in [Ids -> Orders \cup {NoOrder}]
    BY <2>3
  <2>7. /\ reclaiming = FALSE /\ pc \in [Ids -> Labels] /\ at \in [Ids -> Addrs \cup {NoAddr}]
        /\ rd \in [Ids -> Elems \cup {NoElem}] /\ kind \in [Ids -> Kinds]
        /\ fill \in [Ids -> 0 .. FILL_VHOT]
    BY MthpAssumption DEF MthpInit, Labels, Kinds
  <2> QED
    BY <1>1, <2>2, <2>4, <2>5, <2>6, <2>7 DEF MthpTypeOK
<1>4. FramesOK /\ NothingMadeUp
  BY MthpAssumption DEF MthpInit, FramesOK, NothingMadeUp, Counting
<1>5. OrderNeedsFaults /\ HintEarned
  BY NoneEarned DEF MthpInit, OrderNeedsFaults, HintEarned
<1>6. KeysApart
  BY <1>2, NoKeyApart DEF MthpInit, KeysApart, Counting
<1>7. VmasTrue
  <2> SUFFICES ASSUME NEW u \in Ids PROVE KnowsVmas(u)
    BY DEF VmasTrue
  <2>1. tgid[u] \in {u, NoTask} /\ Disjoint(layout[u])
    BY <1>1, <1>2 DEF Disjoint
  <2>2. pc[u] = "idle" /\ order[u] = NoOrder /\ \A r \in Regions : ~vma_cache[<<u, r>>].found
    BY DEF MthpInit, Keys, Uncached
  <2> QED
    BY <2>1, <2>2 DEF KnowsVmas, Counting
<1>8. HintsWithinGuard
  BY DEF MthpInit, HintsWithinGuard, NoOrder, ORDER_4KB
<1>9. HintsBacked
  <2>1. /\ \A e \in Elems : density_map[e].key \notin Keys
        /\ \A k \in Keys : hint_map[k] = NoOrder
        /\ \A u \in Ids : pc[u] = "idle"
    BY NoKeyApart DEF MthpInit
  <2>2. OneRecord
    BY <2>1 DEF OneRecord
  <2>3. \A k \in Keys : Backed(k)
    BY <2>1 DEF Backed
  <2> QED
    BY <2>1, <2>2, <2>3 DEF HintsBacked
<1> QED
  BY <1>3, <1>4, <1>5, <1>6, <1>7, <1>8, <1>9 DEF MthpIInv

LEMMA StepHolds ==
    MthpIInv /\ HintsWithinGuard /\ [MthpNext]_vars => (MthpIInv /\ HintsWithinGuard)'
<1> SUFFICES ASSUME MthpIInv, HintsWithinGuard, [MthpNext]_vars
             PROVE  (MthpIInv /\ HintsWithinGuard)'
  OBVIOUS
<1> USE DEF MthpIInv
<1>1. CASE MthpNext
  <2>1. MthpTypeOK'
    BY <1>1, HandlerTypes, KernelTypes, WorldStepTypes DEF MthpNext
  <2> QED
    BY <1>1, <2>1, FramesStep, MadeUpStep, ApartStep, VmasStep, HintsStep, GuardStep
<1>2. CASE UNCHANGED vars
  <2> USE <1>2 DEF vars, others, maps, locals, hist
  <2>1. MthpTypeOK' /\ FramesOK' /\ NothingMadeUp' /\ OrderNeedsFaults'
    BY DEF MthpTypeOK, FramesOK, NothingMadeUp, OrderNeedsFaults
  <2>2. KeysApart' /\ HintEarned' /\ HintsWithinGuard'
    BY DEF KeysApart, HintEarned, HintsWithinGuard, Key
  <2>3. VmasTrue'
    BY DEF VmasTrue, KnowsVmas, DataOnly, VmasAt, IsVma
  <2>4. HintsBacked'
    BY DEF HintsBacked, Calm, OneRecord, Backed, OneKind, Entitled, InRegion, Key, VmasAt
  <2> QED
    BY <2>1, <2>2, <2>3, <2>4
<1> QED
  BY <1>1, <1>2

(* In every state of every behaviour: the state is well typed, no handler    *)
(* works on a dead task, no fill_count is made up, and where threads and     *)
(* evictions do not mix keys, each record and each VMA known is true of its  *)
(* region.                                                                    *)
THEOREM MthpInvariant == MthpSpec => []MthpIInv
<1>1. MthpSpec => [](MthpIInv /\ HintsWithinGuard)
  BY InitHolds, StepHolds, PTL DEF MthpSpec
<1> QED
  BY <1>1, PTL

(* No hint exceeds what the faults counted have earned, whatever threads     *)
(* overwrite, the LRU reuses or a new process inherits.                      *)
THEOREM NoOrderForNothing == MthpSpec => []OrderNeedsFaults
<1>1. MthpIInv => OrderNeedsFaults
  BY DEF MthpIInv
<1> QED
  BY <1>1, MthpInvariant, PTL

(* With one thread per process and room in density_map, a region's hint is   *)
(* earned by the faults of its own process in it.                            *)
THEOREM HintsEarned == MthpSpec => []HintEarned
<1>1. MthpIInv => HintEarned
  BY DEF MthpIInv
<1> QED
  BY <1>1, MthpInvariant, PTL

(* With one thread per process and VMAs that stay, no fault on a stack or on *)
(* code is given an order, and none on a file more than 64KB.                *)
THEOREM DataIsPromoted == MthpSpec => []PromotesDataOnly
<1>1. MthpIInv => PromotesDataOnly
  <2> SUFFICES ASSUME MthpIInv, world.may \cap {"clone", "remap", "exit"} = {}, NEW t \in Live
               PROVE  DataOnly(t)
    BY DEF PromotesDataOnly
  <2>1. KnowsVmas(t)
    BY DEF MthpIInv, VmasTrue, Live
  <2> QED
    BY <2>1 DEF KnowsVmas, DataOnly
<1> QED
  BY <1>1, MthpInvariant, PTL

(* Until system_map is written anew, no hint asks for an order the buddy     *)
(* guard refuses.                                                            *)
THEOREM GuardKept == MthpSpec => []HintsWithinGuard
<1>1. MthpSpec => [](MthpIInv /\ HintsWithinGuard)
  BY InitHolds, StepHolds, PTL DEF MthpSpec
<1> QED
  BY <1>1, PTL

(* With one thread per process, no map full and no new system_map, the hint  *)
(* of a region of one kind never falls, whoever forks and however often the  *)
(* VMA cache forgets: the region has one record, and it backs the hint.      *)
THEOREM HintsGrow == MthpSpec => HintsOnlyGrow
<1>1. MthpIInv /\ [MthpNext]_vars
         => [Calm => \A k \in Keys : OneKind(k) => hint_map'[k] >= hint_map[k]]_hint_map
  <2> SUFFICES ASSUME MthpIInv, [MthpNext]_vars, Calm, hint_map' # hint_map,
                      NEW k \in Keys, OneKind(k)
               PROVE  hint_map'[k] >= hint_map[k]
    OBVIOUS
  <2>0. /\ hint_map[k] \in Orders \cup {NoOrder} /\ MthpTypeOK /\ FramesOK /\ KeysApart
        /\ VmasTrue /\ HintsBacked /\ MthpNext
    BY DEF MthpIInv, MthpTypeOK, vars, maps
  <2>1. ASSUME NEW t \in Ids, WriteHint(t) PROVE hint_map'[k] >= hint_map[k]
    <3> DEFINE o == StepDown(Ideal(kind[t], fill[t]), system)
    <3>1. /\ o \in Orders
          /\ hint_map'[k] = hint_map[k] \/ (k = Key(t) /\ hint_map'[k] = o)
          /\ k = Key(t) => hint_map[k] <= o
      BY <2>0, <2>1, HintWritten
    <3> HIDE DEF o
    <3> QED
      BY <2>0, <3>1 DEF Orders, NoOrder, ORDER_4KB, ORDER_16KB, ORDER_64KB, ORDER_2MB
  <2>2. ASSUME NEW t \in Ids, Handler(t) PROVE WriteHint(t)
    BY <2>0, <2>2, HandlerMaps DEF InsertRecord, LoadFill, StoreFill, maps
  <2>3. ~World /\ ~(\E t \in Ids : KernelStep(t))
    BY <2>0, KernelFrame DEF World, Clone, Spawn, Exit, Remap, EvictHint, EvictVma,
       EvictDensity, Refresh, maps, Calm
  <2> QED
    BY <2>0, <2>1, <2>2, <2>3 DEF MthpNext
<1> QED
  BY <1>1, MthpInvariant, PTL DEF MthpSpec, HintsOnlyGrow
================================================================================
