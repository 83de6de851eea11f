--------------------------- MODULE HwMutexProofs ----------------------------
(***************************************************************************)
(* What HwMutex keeps for any number of column threads and of resets.      *)
(* Books ties the program counters to the processors' start-up, to the     *)
(* messages left and to the end of main_prog; Held is the strengthening    *)
(* that exclusion needs: main_prog, which no column runs beside, and the   *)
(* display hold the register while they print.                             *)
(***************************************************************************)
EXTENDS HwMutex, TLAPS

TypeOK ==
  /\ reg \in [owner : Processors, locked : BOOLEAN]
  /\ boot \in [Processors -> {"check", "free", "up"}]
  /\ pc \in [Printers -> {"lock", "verify", "print", "free"}]
  /\ left \in [Printers -> 0 .. 2]
  /\ resets \in 0 .. MAX_RESETS

Single == {MainProg, Display}

Printing(p) == pc[p] \in {"print", "free"}

Books == \A p \in Printers : pc[p] # "lock" => AtPrintf(p)

Held ==
  \A p \in Single : Printing(p) => reg = [owner |-> Cpu(p), locked |-> TRUE]

IInv == TypeOK /\ Books /\ Held /\ NeverOrphaned

(* Printers belong to processors; whoever shares one with main_prog is a   *)
(* column, and nobody shares one with the display.                         *)
LEMMA CpuFacts ==
  /\ \A p \in Printers : Cpu(p) \in Processors
  /\ \A p, q \in Printers :
       Cpu(p) = Cpu(q) /\ p # q =>
         p # Display /\ q # Display /\ (q = MainProg => p \in Columns)
  /\ Single \subseteq Printers /\ Columns \subseteq Printers
  /\ MainProg \in Printers /\ MainProg \notin Columns
  /\ \A p \in Columns : Cpu(p) = Cpu(MainProg)
  BY BoundsAssumption DEF Printers, Cpu, Processors, Display, MainProg, Columns, Single

(* The initial state satisfies the inductive invariant.                    *)
LEMMA InitIInv == Init => IInv
<1> SUFFICES ASSUME Init PROVE IInv
  OBVIOUS
<1>1. TypeOK
  BY BoundsAssumption, CpuFacts DEF Init, TypeOK, Messages, Processors
<1>2. Books
  BY DEF Init, Books
<1>3. Held
  BY CpuFacts DEF Init, Held, Printing
<1>4. NeverOrphaned
  BY DEF Init, NeverOrphaned
<1> QED
  BY <1>1, <1>2, <1>3, <1>4 DEF IInv

(* Every step keeps the types.                                             *)
LEMMA NextTypeOK == ASSUME IInv, [Next]_vars PROVE TypeOK'
<1> USE CpuFacts DEF IInv, TypeOK
<1>1. ASSUME NEW c \in Processors, BootCheck(c) PROVE TypeOK'
  BY <1>1 DEF BootCheck
<1>2. ASSUME NEW c \in Processors, BootFree(c) PROVE TypeOK'
  BY <1>2 DEF BootFree, WriteReg
<1>3. ASSUME NEW c \in Processors, Reset(c) PROVE TypeOK'
  BY <1>3, BoundsAssumption DEF Reset, Messages
<1>4. ASSUME NEW p \in Printers, Lock(p) PROVE TypeOK'
  BY <1>4 DEF Lock, Move, WriteReg
<1>5. ASSUME NEW p \in Printers, Verify(p) PROVE TypeOK'
  BY <1>5 DEF Verify, Move
<1>6. ASSUME NEW p \in Printers, UnlockCheck(p) PROVE TypeOK'
  <2>1. left[p] - 1 \in 0 .. 2
    BY <1>6 DEF UnlockCheck, Books, AtPrintf
  <2> QED
    BY <1>6, <2>1 DEF UnlockCheck, Move, Return
<1>7. ASSUME NEW p \in Printers, UnlockFree(p) PROVE TypeOK'
  <2>1. left[p] - 1 \in 0 .. 2
    BY <1>7 DEF UnlockFree, Books, AtPrintf
  <2> QED
    BY <1>7, <2>1 DEF UnlockFree, Return, WriteReg
<1>8. ASSUME UNCHANGED vars PROVE TypeOK'
  BY <1>8 DEF vars
<1> QED
  BY <1>1, <1>2, <1>3, <1>4, <1>5, <1>6, <1>7, <1>8 DEF Next, SafePrintf

(* A printer past its write keeps its processor up and a message to print. *)
LEMMA NextBooks == ASSUME IInv, [Next]_vars PROVE Books'
<1> USE CpuFacts DEF IInv, TypeOK, Books, AtPrintf
<1>1. ASSUME NEW c \in Processors, BootCheck(c) PROVE Books'
  BY <1>1 DEF BootCheck
<1>2. ASSUME NEW c \in Processors, BootFree(c) PROVE Books'
  BY <1>2 DEF BootFree
<1>3. ASSUME NEW c \in Processors, Reset(c) PROVE Books'
  BY <1>3 DEF Reset
<1>4. ASSUME NEW p \in Printers, Lock(p) PROVE Books'
  BY <1>4 DEF Lock, Move
<1>5. ASSUME NEW p \in Printers, Verify(p) PROVE Books'
  BY <1>5 DEF Verify, Move
<1>6. ASSUME NEW p \in Printers, UnlockCheck(p) PROVE Books'
  BY <1>6 DEF UnlockCheck, Move, Return
<1>7. ASSUME NEW p \in Printers, UnlockFree(p) PROVE Books'
  BY <1>7 DEF UnlockFree, Return
<1>8. ASSUME UNCHANGED vars PROVE Books'
  BY <1>8 DEF vars
<1> QED
  BY <1>1, <1>2, <1>3, <1>4, <1>5, <1>6, <1>7, <1>8 DEF Next, SafePrintf

(* No step takes the register away from main_prog or the display while it  *)
(* prints.                                                                 *)
LEMMA NextHeld == ASSUME IInv, [Next]_vars PROVE Held'
<1> SUFFICES ASSUME NEW q \in Single, Printing(q)'
             PROVE  (reg = [owner |-> Cpu(q), locked |-> TRUE])'
  BY DEF Held
<1> USE CpuFacts DEF IInv, TypeOK, Held, Printing
<1>1. ASSUME NEW c \in Processors, BootCheck(c)
      PROVE  (reg = [owner |-> Cpu(q), locked |-> TRUE])'
  BY <1>1 DEF BootCheck
<1>2. ASSUME NEW c \in Processors, BootFree(c)
      PROVE  (reg = [owner |-> Cpu(q), locked |-> TRUE])'
  <2>1. reg = [owner |-> Cpu(q), locked |-> TRUE]
    BY <1>2 DEF BootFree
  <2>2. Cpu(q) # c
    BY <1>2 DEF BootFree, Books, AtPrintf
  <2> QED
    BY <1>2, <2>1, <2>2 DEF BootFree, WriteReg
<1>3. ASSUME NEW c \in Processors, Reset(c)
      PROVE  (reg = [owner |-> Cpu(q), locked |-> TRUE])'
  BY <1>3 DEF Reset
<1>4. ASSUME NEW p \in Printers, Lock(p)
      PROVE  (reg = [owner |-> Cpu(q), locked |-> TRUE])'
  <2>1. Printing(q)
    BY <1>4 DEF Lock, Move
  <2>2. reg = [owner |-> Cpu(q), locked |-> TRUE]
    BY <2>1
  <2> QED
    BY <1>4, <2>2 DEF Lock, WriteReg
<1>5. ASSUME NEW p \in Printers, Verify(p)
      PROVE  (reg = [owner |-> Cpu(q), locked |-> TRUE])'
  BY <1>5 DEF Verify, Move
<1>6. ASSUME NEW p \in Printers, UnlockCheck(p)
      PROVE  (reg = [owner |-> Cpu(q), locked |-> TRUE])'
  BY <1>6 DEF UnlockCheck, Move, Return
<1>7. ASSUME NEW p \in Printers, UnlockFree(p)
      PROVE  (reg = [owner |-> Cpu(q), locked |-> TRUE])'
  <2>1. p # q /\ Printing(q)
    BY <1>7 DEF UnlockFree, Return
  <2>2. ~(q = MainProg /\ p \in Columns)
    BY <1>7, <2>1 DEF UnlockFree, Books, AtPrintf
  <2>3. Cpu(p) # Cpu(q)
    BY <2>1, <2>2 DEF Single
  <2>4. reg = [owner |-> Cpu(q), locked |-> TRUE]
    BY <2>1
  <2> QED
    BY <1>7, <2>3, <2>4 DEF UnlockFree, WriteReg
<1>8. ASSUME UNCHANGED vars
      PROVE  (reg = [owner |-> Cpu(q), locked |-> TRUE])'
  BY <1>8 DEF vars
<1> QED
  BY <1>1, <1>2, <1>3, <1>4, <1>5, <1>6, <1>7, <1>8 DEF Next, SafePrintf

(* Whoever leaves the lock behind unlocks it first, or is about to boot.   *)
LEMMA NextNeverOrphaned == ASSUME IInv, [Next]_vars PROVE NeverOrphaned'
<1> USE CpuFacts DEF IInv, TypeOK, NeverOrphaned
<1>1. ASSUME NEW c \in Processors, BootCheck(c) PROVE NeverOrphaned'
  BY <1>1 DEF BootCheck
<1>2. ASSUME NEW c \in Processors, BootFree(c) PROVE NeverOrphaned'
  BY <1>2 DEF BootFree, WriteReg
<1>3. ASSUME NEW c \in Processors, Reset(c) PROVE NeverOrphaned'
  BY <1>3 DEF Reset
<1>4. ASSUME NEW p \in Printers, Lock(p) PROVE NeverOrphaned'
  BY <1>4 DEF Lock, Move, WriteReg
<1>5. ASSUME NEW p \in Printers, Verify(p) PROVE NeverOrphaned'
  BY <1>5 DEF Verify, Move
<1>6. ASSUME NEW p \in Printers, UnlockCheck(p) PROVE NeverOrphaned'
  BY <1>6 DEF UnlockCheck, Move, Return
<1>7. ASSUME NEW p \in Printers, UnlockFree(p) PROVE NeverOrphaned'
  BY <1>7 DEF UnlockFree, Return, WriteReg
<1>8. ASSUME UNCHANGED vars PROVE NeverOrphaned'
  BY <1>8 DEF vars
<1> QED
  BY <1>1, <1>2, <1>3, <1>4, <1>5, <1>6, <1>7, <1>8 DEF Next, SafePrintf

LEMMA Invariance == Spec => []IInv
<1>1. IInv /\ [Next]_vars => IInv'
  BY NextTypeOK, NextBooks, NextHeld, NextNeverOrphaned DEF IInv
<1> QED
  BY InitIInv, <1>1, PTL DEF Spec

(* A locked register always has somebody who will unlock it, whichever     *)
(* processor is reset and when.                                            *)
THEOREM HwMutexNeverOrphaned == Spec => []NeverOrphaned
<1>1. IInv => NeverOrphaned
  BY DEF IInv
<1> QED
  BY Invariance, <1>1, PTL

(* However many columns print and whatever is reset, nobody begins to print  *)
(* into a message of main_prog or of the display thread.                   *)
THEOREM HwMutexNobodyCutsIn == Spec => NobodyCutsIn
<1>1. ASSUME IInv, [Next]_vars,
             NEW p \in Single, NEW q \in Printers,
             pc[p] = "print", pc[q] # "print"
      PROVE  pc'[q] # "print"
  <2> USE CpuFacts, <1>1 DEF IInv, TypeOK
  <2>1. reg = [owner |-> Cpu(p), locked |-> TRUE]
    BY DEF Held, Printing
  <2>2. ASSUME Verify(q) PROVE pc'[q] # "print"
    <3>1. p # q /\ pc[q] = "verify"
      BY <2>2 DEF Verify, Move
    <3>2. ~(p = MainProg /\ q \in Columns)
      BY <3>1 DEF Books, AtPrintf
    <3>3. Cpu(q) # Cpu(p)
      BY <3>1, <3>2 DEF Single
    <3>4. reg # [owner |-> Cpu(q), locked |-> TRUE]
      BY <2>1, <3>3
    <3> QED
      BY <2>2, <3>4 DEF Verify, Move
  <2>3. ASSUME NEW r \in Printers, SafePrintf(r), ~Verify(q) PROVE pc'[q] # "print"
    BY <2>3 DEF SafePrintf, Lock, Verify, UnlockCheck, UnlockFree, Move, Return
  <2>4. ASSUME NEW c \in Processors, BootCheck(c) \/ BootFree(c) \/ Reset(c)
        PROVE  pc'[q] # "print"
    BY <2>4 DEF BootCheck, BootFree, Reset
  <2>5. ASSUME UNCHANGED vars PROVE pc'[q] # "print"
    BY <2>5 DEF vars
  <2> QED
    BY <2>2, <2>3, <2>4, <2>5 DEF Next
<1>2. IInv /\ [Next]_vars =>
        [\A p \in {MainProg, Display}, q \in Printers :
           pc[p] = "print" /\ pc[q] # "print" => pc'[q] # "print"]_vars
  BY <1>1 DEF Single
<1> QED
  BY Invariance, <1>2, PTL DEF Spec, NobodyCutsIn
=============================================================================
