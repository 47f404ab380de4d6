-------------------------- MODULE StopMachine_proofs ---------------------------
(* Proofs about StopMachine, for any set of threads and any timing.          *)
EXTENDS StopMachine, FiniteSetTheorems, TLAPS

(* The part of IInv in which the interrupts have no say, and the other one,  *)
(* of one thread.                                                            *)
LockInv == TypeOK /\ LockStep /\ AdvanceAlone /\ AckCountIsMissing /\ SomebodyOwes
OffDuring(t) == curstate[t] >= DISABLE_IRQ /\ pc[t] # "done" => ~irq[t]

LEMMA IInvParts == IInv <=> LockInv /\ \A t \in Threads : OffDuring(t)
BY DEF IInv, LockInv, IrqsStayOff, OffDuring

LEMMA IInvPartsNext ==
    ASSUME LockInv', \A t \in Threads : OffDuring(t)' PROVE IInv'
BY DEF IInv, LockInv, IrqsStayOff, OffDuring

(* An acknowledgement by c, of the last state it has read, takes exactly c   *)
(* out of the set of threads still missing.                                  *)
LEMMA AckRemovesOne ==
    ASSUME LockInv, NEW c \in Threads, AckDec(c)
    PROVE  /\ Missing' = Missing \ {c}
           /\ \A t \in Threads : ~Setting(t)
           /\ thread_ack = Cardinality(Missing)
           /\ Cardinality(Missing') = Cardinality(Missing) - 1
           /\ Cardinality(Missing) \in 1 .. Cardinality(Threads)
           /\ IsFiniteSet(Missing')
           /\ Cardinality(Threads) \in Nat
<1>1. ~Acked(c)
  BY DEF AckDec, Acked
<1>2. \A t \in Threads : ~Setting(t)
  BY <1>1 DEF LockInv, AdvanceAlone
<1>3. thread_ack = Cardinality(Missing)
  BY <1>2 DEF LockInv, AckCountIsMissing
<1>4. curstate[c] = state /\ pc \in [Threads -> PcValues]
  BY DEF LockInv, TypeOK, LockStep, AckDec
<1>5. Missing' = Missing \ {c}
  <2>1. \A t \in Threads : Acked(t)' <=> Acked(t) \/ t = c
    BY <1>4 DEF AckDec, Goto, Acked
  <2> QED
    BY <2>1 DEF Missing
<1>6. IsFiniteSet(Threads) /\ Missing \subseteq Threads /\ c \in Missing
  BY <1>1, StopAssumption DEF Missing
<1>7. IsFiniteSet(Missing) /\ Cardinality(Missing) <= Cardinality(Threads)
  BY <1>6, FS_Subset
<1>8. /\ Cardinality(Missing \ {c}) = Cardinality(Missing) - 1
      /\ Cardinality(Missing) # 0
      /\ IsFiniteSet(Missing \ {c})
  BY <1>6, <1>7, FS_RemoveElement, FS_EmptySet
<1> QED
  BY <1>2, <1>3, <1>5, <1>6, <1>7, <1>8, FS_CardinalityType

(* The operation starts with every thread missing and none ahead.            *)
LEMMA InitIInv == Init => IInv
<1> SUFFICES ASSUME Init PROVE IInv
  OBVIOUS
<1>1. Cardinality(Threads) \in Nat
  BY StopAssumption, FS_CardinalityType
<1>2. Missing = Threads
  BY DEF Init, Missing, Acked, NONE, PREPARE
<1>3. TypeOK
  <2>1. irq \in [CPU -> BOOLEAN]
    BY Zenon DEF Init
  <2>2. timed_out \in [Threads -> BOOLEAN] /\ panicked \in BOOLEAN /\ barked \in BOOLEAN
    BY DEF Init
  <2> QED
    BY <1>1, <2>1, <2>2 DEF Init, TypeOK, PcValues, NONE, PREPARE, EXIT
<1>4. LockStep /\ AdvanceAlone /\ IrqsStayOff
  BY DEF Init, LockStep, AdvanceAlone, IrqsStayOff, Setting, NONE, PREPARE,
         DISABLE_IRQ
<1>5. AckCountIsMissing
  BY <1>2 DEF AckCountIsMissing, Init
<1>6. SomebodyOwes
  BY <1>2 DEF SomebodyOwes, Missing
<1> QED
  BY <1>3, <1>4, <1>5, <1>6 DEF IInv

(* A step that touches neither the barrier's state nor the program counters  *)
(* keeps the lock-step, as long as it keeps the types.                       *)
LEMMA QuietStep ==
    ASSUME LockInv, TypeOK', UNCHANGED <<state, thread_ack, pc, curstate>>
    PROVE  LockInv'
<1>1. LockStep' /\ AdvanceAlone'
  BY DEF LockInv, LockStep, AdvanceAlone, Setting, Acked
<1>2. Missing' = Missing
  BY DEF Missing, Acked
<1>3. AckCountIsMissing'
  BY <1>2 DEF LockInv, AckCountIsMissing, Setting
<1>4. SomebodyOwes'
  BY DEF LockInv, SomebodyOwes, Setting, Acked
<1> QED
  BY <1>1, <1>3, <1>4 DEF LockInv

(* So does a step of one thread that only moves its program counter between  *)
(* places that owe nothing, or from fn to ack.                               *)
LEMMA PcStep ==
    ASSUME LockInv, TypeOK', NEW c \in Threads, NEW label \in PcValues,
           Goto(c, label), UNCHANGED <<state, thread_ack, curstate>>,
           pc[c] \notin {"ack", "reset", "set", "done"},
           label \notin {"fn", "reset", "set", "queued", "done"},
           (pc[c] = "fn") <=> (label = "ack"),
           label = "loop" => curstate[c] < EXIT,
           label = "restore" => curstate[c] = EXIT
    PROVE  LockInv'
<1>1. LockStep'
  BY DEF LockInv, TypeOK, LockStep, Goto
<1>2. \A t \in Threads : (Acked(t)' <=> Acked(t)) /\ (Setting(t)' <=> Setting(t))
  BY DEF LockInv, TypeOK, Acked, Setting, Goto
<1>3. Missing' = Missing
  BY <1>2 DEF Missing
<1>4. AdvanceAlone'
  BY <1>2 DEF LockInv, TypeOK, AdvanceAlone, Goto, Setting
<1>5. AckCountIsMissing'
  BY <1>2, <1>3 DEF LockInv, AckCountIsMissing
<1>6. SomebodyOwes'
  BY <1>2 DEF LockInv, SomebodyOwes
<1> QED
  BY <1>1, <1>4, <1>5, <1>6 DEF LockInv

(* Reading a new state: the thread was behind, so nobody is advancing the    *)
(* state, and it still owes its acknowledgement afterwards.                  *)
LEMMA NewStateKeeps ==
    ASSUME LockInv, NEW c \in Threads, NewState(c) PROVE LockInv'
<1> USE DEF NONE, PREPARE, DISABLE_IRQ, RUN, EXIT
<1>1. /\ curstate[c] = state - 1 /\ ~Acked(c) /\ curstate[c] < EXIT
      /\ state \in PREPARE .. EXIT /\ state \in Int
  BY DEF LockInv, TypeOK, LockStep, NewState, Acked
<1>2. \A t \in Threads : ~Setting(t)
  BY <1>1 DEF LockInv, AdvanceAlone
<1> DEFINE label == IF state = RUN /\ c \in Active THEN "fn" ELSE "ack"
<1>3. /\ pc' = [pc EXCEPT ![c] = label] /\ label \in {"fn", "ack"}
      /\ curstate' = [curstate EXCEPT ![c] = state]
      /\ label = "fn" => state = RUN /\ c \in Active
      /\ UNCHANGED <<state, thread_ack>>
  BY DEF NewState, Goto
<1>4. irq' \in [CPU -> BOOLEAN]
  BY DEF LockInv, TypeOK, NewState
<1>5. TypeOK'
  BY <1>1, <1>3, <1>4 DEF LockInv, TypeOK, PcValues, NewState, detectVars, clockVars,
                         haltVars
<1>6. LockStep'
  BY <1>1, <1>3 DEF LockInv, TypeOK, LockStep
<1>7. \A t \in Threads : (Acked(t)' <=> Acked(t)) /\ ~Setting(t)'
  BY <1>1, <1>2, <1>3 DEF LockInv, TypeOK, Acked, Setting
<1>8. AdvanceAlone' /\ AckCountIsMissing'
  <2>1. Missing' = Missing
    BY <1>7 DEF Missing
  <2> QED
    BY <1>2, <1>3, <1>7, <2>1 DEF LockInv, AdvanceAlone, AckCountIsMissing
<1>9. SomebodyOwes'
  BY <1>1, <1>7 DEF SomebodyOwes
<1> QED
  BY <1>5, <1>6, <1>8, <1>9 DEF LockInv

(* ack_state(): the last thread to count itself off is alone to advance.     *)
LEMMA AckDecKeeps ==
    ASSUME LockInv, NEW c \in Threads, AckDec(c) PROVE LockInv'
<1> USE DEF NONE, PREPARE, DISABLE_IRQ, RUN, EXIT
<1>1. /\ Missing' = Missing \ {c} /\ \A t \in Threads : ~Setting(t)
      /\ thread_ack = Cardinality(Missing)
      /\ Cardinality(Missing') = Cardinality(Missing) - 1
      /\ Cardinality(Missing) \in 1 .. Cardinality(Threads)
      /\ IsFiniteSet(Missing') /\ Cardinality(Threads) \in Nat
  BY AckRemovesOne
<1>2. /\ thread_ack' = thread_ack - 1
      /\ thread_ack' = Cardinality(Missing')
      /\ pc' = [pc EXCEPT ![c] = IF thread_ack' = 0 THEN "reset" ELSE "check"]
      /\ UNCHANGED <<state, curstate, irq>>
  BY <1>1 DEF AckDec, Goto
<1>3. TypeOK'
  BY <1>1, <1>2 DEF LockInv, TypeOK, PcValues, AckDec, detectVars, clockVars, haltVars
<1>4. curstate[c] = state
  BY DEF LockInv, LockStep, AckDec
<1>5. LockStep'
  BY <1>2, <1>4 DEF LockInv, TypeOK, LockStep
<1>7. CASE thread_ack' = 0
  <2>1. \A t \in Threads : Acked(t)'
    BY <1>1, <1>2, <1>7, FS_EmptySet DEF Missing
  <2>2. \A t \in Threads : Setting(t)' => t = c
    BY <1>1, <1>2 DEF LockInv, TypeOK, Setting
  <2>3. pc'[c] = "reset"
    BY <1>2, <1>7 DEF LockInv, TypeOK
  <2>4. AdvanceAlone'
    BY <1>7, <2>1, <2>2, <2>3 DEF AdvanceAlone
  <2>5. AckCountIsMissing'
    BY <2>3 DEF AckCountIsMissing, Setting
  <2>6. SomebodyOwes'
    BY <2>3 DEF SomebodyOwes, Setting
  <2> QED
    BY <1>3, <1>5, <2>4, <2>5, <2>6 DEF LockInv
<1>8. CASE thread_ack' # 0
  <2>1. \A t \in Threads : ~Setting(t)'
    BY <1>1, <1>2, <1>8 DEF LockInv, TypeOK, Setting
  <2>2. AdvanceAlone' /\ AckCountIsMissing'
    BY <1>2, <2>1 DEF AdvanceAlone, AckCountIsMissing
  <2>3. Missing' # {}
    BY <1>2, <1>8, FS_EmptySet
  <2>4. SomebodyOwes'
    BY <2>3 DEF SomebodyOwes, Missing
  <2> QED
    BY <1>3, <1>5, <2>2, <2>4 DEF LockInv
<1> QED
  BY <1>7, <1>8

(* set_state(), first half: the count is full again, the state still old.    *)
LEMMA ResetAckKeeps ==
    ASSUME LockInv, NEW c \in Threads, ResetAck(c) PROVE LockInv'
<1>1. /\ pc[c] = "reset" /\ pc' = [pc EXCEPT ![c] = "set"]
      /\ thread_ack' = Cardinality(Threads) /\ UNCHANGED <<state, curstate, irq>>
  BY DEF ResetAck, Goto
<1>2. Cardinality(Threads) \in Nat
  BY StopAssumption, FS_CardinalityType
<1>3. TypeOK'
  BY <1>1, <1>2 DEF LockInv, TypeOK, PcValues, ResetAck, detectVars, clockVars, haltVars
<1>4. LockStep'
  BY <1>1 DEF LockInv, TypeOK, LockStep
<1>5. \A t \in Threads : (Acked(t)' <=> Acked(t)) /\ (Setting(t)' <=> Setting(t))
  BY <1>1 DEF LockInv, TypeOK, Acked, Setting
<1>6. AdvanceAlone'
  BY <1>1, <1>5 DEF LockInv, TypeOK, AdvanceAlone, Setting
<1>7. AckCountIsMissing'
  BY <1>1, <1>5 DEF AckCountIsMissing, Setting
<1>8. SomebodyOwes'
  BY <1>1, <1>5 DEF SomebodyOwes, Setting
<1> QED
  BY <1>3, <1>4, <1>6, <1>7, <1>8 DEF LockInv

(* set_state(), second half: everybody has acked the old state, so everybody *)
(* is missing from the new one.                                              *)
LEMMA SetStateKeeps ==
    ASSUME LockInv, NEW c \in Threads, SetState(c) PROVE LockInv'
<1> USE DEF NONE, PREPARE, DISABLE_IRQ, RUN, EXIT
<1>1. /\ pc[c] = "set" /\ pc' = [pc EXCEPT ![c] = "check"] /\ state' = state + 1
      /\ UNCHANGED <<thread_ack, curstate, irq>>
  BY DEF SetState, Goto
<1>2. /\ \A t \in Threads : Acked(t) /\ (Setting(t) => t = c)
      /\ thread_ack = Cardinality(Threads)
  BY <1>1 DEF LockInv, AdvanceAlone, Setting
<1>3. state \in PREPARE .. EXIT
  BY <1>2 DEF LockInv, TypeOK, Acked
<1>4. TypeOK'
  BY <1>1, <1>3 DEF LockInv, TypeOK, PcValues, SetState, detectVars, clockVars, haltVars
<1>5. LockStep'
  BY <1>1, <1>2, <1>3 DEF LockInv, TypeOK, LockStep, Acked, Setting
<1>6. \A t \in Threads : ~Acked(t)' /\ ~Setting(t)'
  BY <1>1, <1>2, <1>3 DEF LockInv, TypeOK, Acked, Setting
<1>7. Missing' = Threads
  BY <1>6 DEF Missing
<1>8. AdvanceAlone' /\ AckCountIsMissing'
  BY <1>1, <1>2, <1>6, <1>7 DEF AdvanceAlone, AckCountIsMissing
<1>9. SomebodyOwes'
  BY <1>6 DEF SomebodyOwes
<1> QED
  BY <1>4, <1>5, <1>8, <1>9 DEF LockInv

(* Every step of a thread keeps the lock-step ...                            *)
LEMMA StepLock ==
    ASSUME LockInv, NEW c \in Threads, Step(c) PROVE LockInv'
<1> USE DEF PcValues
<1>1. CASE Enter(c)
  <2>1. TypeOK'
    BY <1>1 DEF LockInv, TypeOK, Enter, Goto, clockVars, haltVars
  <2>2. curstate[c] < EXIT
    BY <1>1 DEF Enter, LockInv, LockStep, NONE, EXIT
  <2> QED
    BY <1>1, <2>1, <2>2, PcStep DEF Enter
<1>2. CASE NewState(c)
  BY <1>2, NewStateKeeps
<1>3. CASE SameState(c)
  <2>1. TypeOK'
    BY <1>3 DEF LockInv, TypeOK, SameState, Goto, clockVars, detectVars, haltVars
  <2> QED
    BY <1>3, <2>1, PcStep DEF SameState
<1>4. CASE FnReturn(c)
  <2>1. TypeOK'
    BY <1>4 DEF LockInv, TypeOK, FnReturn, Goto, clockVars, detectVars, haltVars
  <2> QED
    BY <1>4, <2>1, PcStep DEF FnReturn
<1>5. CASE AckDec(c)
  BY <1>5, AckDecKeeps
<1>6. CASE ResetAck(c)
  BY <1>6, ResetAckKeeps
<1>7. CASE SetState(c)
  BY <1>7, SetStateKeeps
<1>8. CASE Detect(c)
  <2>1. TypeOK'
    BY <1>8 DEF LockInv, TypeOK, Detect, Goto, clockVars, haltVars
  <2> QED
    BY <1>8, <2>1, PcStep DEF Detect
<1>9. CASE CheckPasses(c)
  <2>1. TypeOK'
    BY <1>9 DEF LockInv, TypeOK, CheckPasses, Goto, clockVars, detectVars, haltVars
  <2>2. curstate[c] \in NONE .. EXIT
    BY DEF LockInv, TypeOK
  <2>3. CASE curstate[c] = EXIT
    BY <1>9, <2>1, <2>3, PcStep DEF CheckPasses
  <2>4. CASE curstate[c] # EXIT
    <3>1. curstate[c] < EXIT
      BY <2>2, <2>4 DEF NONE, EXIT
    <3> QED
      BY <1>9, <2>1, <2>4, <3>1, PcStep DEF CheckPasses
  <2> QED
    BY <2>3, <2>4
<1>10. CASE Restore(c)
  <2>1. /\ pc[c] = "restore" /\ pc' = [pc EXCEPT ![c] = "done"]
        /\ UNCHANGED <<state, thread_ack, curstate>> /\ curstate[c] = EXIT
    BY <1>10 DEF LockInv, LockStep, Restore, Goto
  <2>2. irq' \in [CPU -> BOOLEAN]
    BY <1>10, StopAssumption DEF LockInv, TypeOK, Restore
  <2>3. TypeOK'
    BY <1>10, <2>1, <2>2 DEF LockInv, TypeOK, Restore, clockVars, detectVars, haltVars
  <2>4. LockStep'
    BY <2>1 DEF LockInv, TypeOK, LockStep, EXIT
  <2>5. \A t \in Threads : (Acked(t)' <=> Acked(t)) /\ (Setting(t)' <=> Setting(t))
    BY <2>1 DEF LockInv, TypeOK, Acked, Setting
  <2>6. Missing' = Missing
    BY <2>5 DEF Missing
  <2>7. AdvanceAlone' /\ AckCountIsMissing'
    BY <2>1, <2>5, <2>6 DEF LockInv, TypeOK, AdvanceAlone, AckCountIsMissing, Setting
  <2>8. SomebodyOwes'
    BY <2>5 DEF LockInv, SomebodyOwes
  <2> QED
    BY <2>3, <2>4, <2>7, <2>8 DEF LockInv
<1>11. CASE BeginBacktrace(c)
  <2>1. TypeOK'
    BY <1>11 DEF LockInv, TypeOK, BeginBacktrace, Goto, clockVars, haltVars
  <2> QED
    BY <1>11, <2>1, PcStep DEF BeginBacktrace
<1>12. CASE EndBacktrace(c)
  <2>1. TypeOK'
    BY <1>12 DEF LockInv, TypeOK, EndBacktrace, Goto, clockVars, detectVars, haltVars
  <2> QED
    BY <1>12, <2>1, PcStep DEF EndBacktrace
<1>13. CASE Panic(c)
  <2>1. TypeOK'
    BY <1>13 DEF LockInv, TypeOK, Panic, clockVars, detectVars, barrierVars
  <2> QED
    BY <1>13, <2>1, QuietStep DEF Panic, barrierVars
<1> QED
  BY <1>1, <1>2, <1>3, <1>4, <1>5, <1>6, <1>7, <1>8, <1>9, <1>10, <1>11, <1>12, <1>13
     DEF Step

(* ... and leaves off the interrupts of each thread that has them off.       *)
LEMMA StepIrqs ==
    ASSUME LockInv, NEW c \in Threads, Step(c), NEW t \in Threads, OffDuring(t)
    PROVE  OffDuring(t)'
<1> USE DEF NONE, PREPARE, DISABLE_IRQ, RUN, EXIT
<1>1. /\ t \in CPU /\ c \in CPU /\ pc \in [Threads -> PcValues]
      /\ curstate \in [Threads -> NONE .. EXIT] /\ irq \in [CPU -> BOOLEAN]
  BY StopAssumption DEF LockInv, TypeOK
<1>2. CASE NewState(c)
  <2>1. curstate[c] = state - 1 /\ state \in Int /\ pc[c] = "loop"
    BY <1>2 DEF LockInv, TypeOK, LockStep, NewState
  <2>2. /\ irq' = IF state = DISABLE_IRQ THEN [irq EXCEPT ![c] = FALSE] ELSE irq
        /\ curstate' = [curstate EXCEPT ![c] = state]
        /\ \A u \in Threads \ {c} : pc'[u] = pc[u]
    BY <1>1, <1>2 DEF NewState, Goto
  <2>3. CASE t = c
    <3>1. state > DISABLE_IRQ => ~irq[c]
      BY <1>1, <2>1, <2>3 DEF OffDuring
    <3>2. state >= DISABLE_IRQ => ~irq'[c]
      BY <1>1, <2>1, <2>2, <3>1
    <3>3. curstate'[c] = state
      BY <1>1, <2>2
    <3> QED
      BY <2>3, <3>2, <3>3 DEF OffDuring
  <2>4. CASE t # c
    <3>1. curstate'[t] = curstate[t] /\ pc'[t] = pc[t] /\ (~irq[t] => ~irq'[t])
      BY <1>1, <2>2, <2>4
    <3> QED
      BY <3>1 DEF OffDuring
  <2> QED
    BY <2>3, <2>4
<1>3. CASE Restore(c)
  <2>1. curstate' = curstate /\ pc' = [pc EXCEPT ![c] = "done"] /\ irq' = [irq EXCEPT ![c] = TRUE]
    BY <1>3 DEF Restore, Goto
  <2> QED
    BY <1>1, <2>1 DEF OffDuring
<1>4. CASE UNCHANGED <<irq, curstate>> /\ pc[c] # "done"
  <2>1. pc' = pc \/ \E label \in PcValues : pc' = [pc EXCEPT ![c] = label]
    BY DEF Step, Enter, NewState, SameState, FnReturn, AckDec, ResetAck, SetState, Detect,
           CheckPasses, Restore, BeginBacktrace, EndBacktrace, Panic, Goto, PcValues, barrierVars
  <2>2. pc'[t] = "done" \/ pc[t] # "done" \/ pc'[t] = pc[t]
    BY <1>1, <1>4, <2>1
  <2> QED
    BY <1>1, <1>4, <2>1, <2>2 DEF OffDuring
<1> QED
  BY <1>2, <1>3, <1>4
     DEF Step, Enter, SameState, FnReturn, AckDec, ResetAck, SetState, Detect,
         CheckPasses, BeginBacktrace, EndBacktrace, Panic, barrierVars

(* So does the clock.                                                        *)
LEMMA ClockLock ==
    ASSUME LockInv, Advance \/ Bark \/ \E c \in CPU : TimerIrq(c)
    PROVE  LockInv' /\ UNCHANGED barrierVars
<1> USE DEF LockInv, TypeOK, barrierVars, detectVars, clockVars, haltVars
<1>1. UNCHANGED <<barrierVars, detectVars>>
  BY DEF Advance, Bark, TimerIrq
<1>2. now' \in Nat /\ jiffies' \in 0 .. now'
  BY DEF Advance, Bark, TimerIrq
<1>3. panicked' \in BOOLEAN /\ barked' \in BOOLEAN
  BY DEF Advance, Bark, TimerIrq
<1> QED
  BY <1>1, <1>2, <1>3, QuietStep

LEMMA StutterLock ==
    ASSUME LockInv, UNCHANGED vars PROVE LockInv'
<1>1. TypeOK' /\ UNCHANGED <<state, thread_ack, pc, curstate>>
  BY DEF LockInv, TypeOK, vars, barrierVars, detectVars, clockVars, haltVars
<1> QED
  BY <1>1, QuietStep

(* Every step of the specification keeps the inductive invariant.            *)
LEMMA NextIInv == IInv /\ [Next]_vars => IInv'
<1> SUFFICES ASSUME IInv, [Next]_vars PROVE IInv'
  OBVIOUS
<1>1. LockInv /\ \A t \in Threads : OffDuring(t)
  BY IInvParts
<1>2. CASE \E c \in Threads : Step(c)
  BY <1>1, <1>2, StepLock, StepIrqs, IInvPartsNext
<1>3. CASE Clock
  <2>1. LockInv' /\ UNCHANGED barrierVars
    BY <1>1, <1>3, ClockLock DEF Clock, Tick
  <2> QED
    BY <1>1, <2>1, IInvPartsNext DEF OffDuring, barrierVars
<1>4. CASE UNCHANGED vars
  BY <1>1, <1>4, StutterLock, IInvPartsNext DEF OffDuring, vars, barrierVars
<1> QED
  BY <1>2, <1>3, <1>4 DEF Next, Terminated

(* The inductive invariant, TypeOK among its parts, holds of every run of    *)
(* multi_cpu_stop(), whatever the threads, their speed and the clock do.     *)
THEOREM Inductive == Spec => []IInv
<1> QED
  BY InitIInv, NextIInv, PTL DEF Spec

(* While msdata->fn runs on an active CPU, every thread of the operation has *)
(* its interrupts off and is still inside multi_cpu_stop().                  *)
THEOREM CallbackRunsAlone == Spec => []FnRunsAlone
<1>1. IInv => FnRunsAlone
  BY DEF IInv, TypeOK, LockStep, IrqsStayOff, FnRunsAlone, NONE, PREPARE,
         DISABLE_IRQ, RUN, EXIT
<1> QED
  BY <1>1, Inductive, PTL

(* Nobody is out of multi_cpu_stop(), interrupts restored, while another     *)
(* thread is in front of or inside the callback.                             *)
THEOREM LeaveTogether == Spec => []NobodyLeavesEarly
<1>1. IInv => NobodyLeavesEarly
  BY DEF IInv, TypeOK, LockStep, NobodyLeavesEarly, NONE, PREPARE, RUN, EXIT
<1> QED
  BY <1>1, Inductive, PTL

(* No thread misses a state of the machine or sees one twice.                *)
THEOREM EveryStateSeen == Spec => NoStateSkipped
<1>1. IInv /\ [Next]_vars
        => [\A c \in Threads : curstate'[c] \in {curstate[c], curstate[c] + 1}]_vars
  <2> SUFFICES ASSUME IInv, Next, NEW c \in Threads
               PROVE  curstate'[c] \in {curstate[c], curstate[c] + 1}
    BY DEF vars, barrierVars
  <2>1. CASE UNCHANGED curstate
    BY <2>1
  <2>2. CASE \E t \in Threads : NewState(t)
    BY <2>2 DEF IInv, TypeOK, LockStep, NewState, NONE, PREPARE, EXIT
  <2> QED
    BY <2>1, <2>2 DEF Next, Step, Clock, Terminated, vars, Enter, SameState,
         FnReturn, AckDec, ResetAck, SetState, Detect, CheckPasses, Restore,
         BeginBacktrace, EndBacktrace, Panic, Tick, Advance, Bark, TimerIrq, barrierVars
<1> QED
  BY <1>1, Inductive, PTL DEF Spec, NoStateSkipped

(* If no thread has a step of its own to take and none is in a callback or   *)
(* in a dump, all have acked, and then nobody owes: the operation is over.   *)
LEMMA NobodyStuck == LockInv => HangHasCause
<1> USE DEF NONE, PREPARE, EXIT
<1> SUFFICES ASSUME LockInv, Threads # {},
                    \A t \in Threads : /\ ~Due(t) /\ t \notin Wedged
                                      /\ pc[t] \notin {"fn", "backtrace"}
             PROVE  Returned
  BY DEF HangHasCause, Returned
<1>1. \A t \in Threads : \/ pc[t] \in {"loop", "check"} /\ curstate[t] = state
                         \/ pc[t] = "done" /\ curstate[t] = EXIT
  <2> TAKE t \in Threads
  <2>1. /\ pc[t] \notin {"queued", "ack", "reset", "set", "dump", "panic", "restore"}
        /\ pc[t] \in {"loop", "check"} => curstate[t] = state
    BY DEF Due
  <2>2. pc[t] \in PcValues /\ pc[t] \notin {"fn", "backtrace"}
    BY DEF LockInv, TypeOK
  <2>3. pc[t] = "done" => curstate[t] = EXIT
    BY DEF LockInv, LockStep
  <2>4. pc[t] \in {"loop", "check", "done"}
    BY <2>1, <2>2 DEF PcValues
  <2> QED
    BY <2>1, <2>3, <2>4
<1>2. PICK t \in Threads : Setting(t) \/ ~Acked(t)
  BY DEF LockInv, SomebodyOwes
<1>3. curstate[t] = EXIT /\ state # EXIT
  BY <1>1, <1>2 DEF Setting, Acked
<1>4. state = EXIT + 1 /\ \A u \in Threads : curstate[u] # state
  BY <1>3 DEF LockInv, LockStep, TypeOK
<1> QED
  BY <1>1, <1>4 DEF Returned

(* multi_cpu_stop() does not hang by itself: as long as it is not over some  *)
(* thread has work to do, or a wedged stopper, a callback or a dump holds    *)
(* it up, which is all a deadlock report has to look for.                    *)
THEOREM HangsOnlyWithCause == Spec => []HangHasCause
<1>1. IInv => HangHasCause
  BY NobodyStuck, IInvParts
<1> QED
  BY <1>1, Inductive, PTL

(* Where a thread stands in the barrier, in the terms of StopMachine.        *)
Done(c) == IF pc[c] \in {"fn", "ack"} THEN curstate[c] - 1 ELSE curstate[c]

(* A thread that reads a new state begins a phase everyone is ready for.     *)
LEMMA NewStateBegins ==
    ASSUME LockInv, NEW c \in Threads, NewState(c) PROVE Barrier!Begin(c)
<1> USE DEF NONE, PREPARE, RUN, EXIT
<1>1. /\ pc[c] = "loop" /\ curstate[c] = state - 1 /\ curstate[c] < EXIT
      /\ state \in Int
  BY DEF LockInv, TypeOK, LockStep, NewState
<1>2. \A u \in Threads : Done(u) >= curstate[c]
  BY <1>1 DEF LockInv, TypeOK, LockStep, Done
<1>3. curstate' = [curstate EXCEPT ![c] = @ + 1]
  BY <1>1 DEF LockInv, TypeOK, NewState
<1>4. \A u \in Threads : Done(u)' = Done(u)
  BY <1>1 DEF LockInv, TypeOK, NewState, Goto, Done
<1> QED
  BY <1>1, <1>2, <1>3, <1>4 DEF Barrier!Begin, Done

(* A thread that counts itself off has finished its phase.                   *)
LEMMA AckDecFinishes ==
    ASSUME LockInv, NEW c \in Threads, AckDec(c) PROVE Barrier!Finish(c)
<1>1. pc[c] = "ack" /\ curstate[c] \in Int /\ Done(c) < curstate[c]
  BY DEF LockInv, TypeOK, AckDec, Done, NONE, EXIT
<1>2. Done(c)' = curstate[c] /\ \A u \in Threads \ {c} : Done(u)' = Done(u)
  BY <1>1 DEF LockInv, TypeOK, AckDec, Goto, Done
<1>3. [u \in Threads |-> Done(u)]' = [[u \in Threads |-> Done(u)] EXCEPT ![c] = curstate[c]]
  BY <1>2
<1> QED
  BY <1>1, <1>3 DEF Barrier!Finish, Done, AckDec

(* Every other step leaves the barrier where it is.                          *)
LEMMA StepsBarrier ==
    ASSUME LockInv, NEW c \in Threads, Step(c)
    PROVE  [Barrier!Next]_(Barrier!vars)
<1>1. CASE NewState(c)
  BY <1>1, NewStateBegins DEF Barrier!Next
<1>2. CASE AckDec(c)
  BY <1>2, AckDecFinishes DEF Barrier!Next
<1>3. CASE ~NewState(c) /\ ~AckDec(c)
  <2>1. curstate' = curstate /\ \A u \in Threads : Done(u)' = Done(u)
    BY <1>3 DEF LockInv, TypeOK, Done, Step, Enter, SameState, FnReturn, ResetAck, SetState,
         Detect, CheckPasses, Restore, Goto, BeginBacktrace, EndBacktrace, Panic, barrierVars
  <2> QED
    BY <2>1 DEF Barrier!vars, Done
<1> QED
  BY <1>1, <1>2, <1>3

LEMMA BarrierAtRest ==
    ASSUME UNCHANGED <<pc, curstate>> PROVE UNCHANGED Barrier!vars
BY DEF Barrier!vars

(* multi_cpu_stop(), with its counter, its two-write set_state(), its        *)
(* interrupts, its detector and its clock, implements the abstract barrier:  *)
(* no thread begins a state before every thread has finished the one before. *)
THEOREM ImplementsBarrier == Spec => BarrierSpec
<1>1. Init => Barrier!Init
  BY DEF Init, Barrier!Init, NONE
<1>2. IInv /\ [Next]_vars => [Barrier!Next]_(Barrier!vars)
  <2> SUFFICES ASSUME IInv, [Next]_vars PROVE [Barrier!Next]_(Barrier!vars)
    OBVIOUS
  <2>1. CASE \E c \in Threads : Step(c)
    BY <2>1, StepsBarrier, IInvParts
  <2>2. CASE Clock \/ UNCHANGED vars
    <3>1. UNCHANGED <<pc, curstate>>
      BY <2>2 DEF Clock, Tick, Advance, Bark, TimerIrq, vars, barrierVars
    <3> QED
      BY <3>1, BarrierAtRest
  <2> QED
    BY <2>1, <2>2 DEF Next, Terminated
<1> QED
  BY <1>1, <1>2, Inductive, PTL DEF Spec, BarrierSpec, Barrier!Spec
================================================================================
