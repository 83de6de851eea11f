------------------------------ MODULE HwMutex -------------------------------
(***************************************************************************)
(* safe_printf (config.h): a message to the shared serial port is printed  *)
(* between XMutex_Lock and XMutex_Unlock (xmutex.c) of one register of the *)
(* hardware mutex, which both processors see.  The printers are the        *)
(* main_prog of MicroBlaze 1, its column threads, which have one priority  *)
(* and are time-sliced, and the display thread of MicroBlaze 0.            *)
(*                                                                         *)
(* The register knows a processor, not a thread: a processor that writes   *)
(* the lock pattern while it already owns the lock reads that pattern back *)
(* and takes it for its own.                                               *)
(*                                                                         *)
(* A processor may be reset alone, between any two accesses to the         *)
(* register; the register keeps its contents, and XMutex_CfgInitialize,    *)
(* the first thing its main_prog does, releases what that processor held.  *)
(***************************************************************************)
EXTENDS Integers

CONSTANTS
  NB_COLUMNS,   \* column threads of MicroBlaze 1
  MAX_RESETS    \* bound on the resets of the processors

ASSUME BoundsAssumption ==
  /\ NB_COLUMNS \in Nat
  /\ MAX_RESETS \in Nat

Processors == 0 .. 1          \* XPAR_CPU_ID
MainProg == -1
Display == 0
Columns == 1 .. NB_COLUMNS
Printers == {MainProg, Display} \cup Columns
Cpu(p) == IF p = Display THEN 0 ELSE 1

VARIABLES
  reg,      \* the mutex register: its owner and its lock bit
  boot,     \* per processor, where main_prog is in XMutex_CfgInitialize
  pc,       \* per printer, where it is in safe_printf
  left,     \* calls of safe_printf it has still to finish
  resets    \* resets that may still happen

vars == <<reg, boot, pc, left, resets>>

(* A column thread prints that it has been launched; main_prog so of the   *)
(* bar and of the ball thread; the display thread two messages of its own. *)
Messages(p) == IF p \in Columns THEN 1 ELSE 2

Init ==
  /\ reg = [owner |-> 0, locked |-> FALSE]
  /\ boot = [c \in Processors |-> "check"]
  /\ pc = [p \in Printers |-> "lock"]
  /\ left = [p \in Printers |-> Messages(p)]
  /\ resets = MAX_RESETS

(* A write of processor c reaches the register unless the other one holds  *)
(* the lock.                                                               *)
WriteReg(c, bit) ==
  reg' = IF reg.locked /\ reg.owner # c THEN reg
         ELSE [owner |-> c, locked |-> bit]

-----------------------------------------------------------------------------
(* XMutex_CfgInitialize: XMutex_Unlock on the register, without a lock.    *)

BootWithoutUnlock(c) ==
  /\ boot[c] = "check"
  /\ boot' = [boot EXCEPT ![c] = "up"]
  /\ UNCHANGED <<reg, pc, left, resets>>

BootCheck(c) ==
  /\ boot[c] = "check"
  /\ boot' = [boot EXCEPT ![c] = IF reg.owner = c THEN "free" ELSE "up"]
  /\ UNCHANGED <<reg, pc, left, resets>>

BootFree(c) ==
  /\ boot[c] = "free"
  /\ WriteReg(c, FALSE)
  /\ boot' = [boot EXCEPT ![c] = "up"]
  /\ UNCHANGED <<pc, left, resets>>

-----------------------------------------------------------------------------
(* safe_printf of printer p.                                               *)

Move(p, from, to) == pc[p] = from /\ pc' = [pc EXCEPT ![p] = to]

(* Printer p has reached a call of safe_printf.  The columns, of priority  *)
(* 2, do not run before main_prog, of priority 0, has returned.            *)
AtPrintf(p) ==
  /\ boot[Cpu(p)] = "up"
  /\ left[p] > 0
  /\ p \in Columns => left[MainProg] = 0

(* XMutex_Lock writes the lock pattern ...                                 *)
Lock(p) ==
  /\ AtPrintf(p)
  /\ Move(p, "lock", "verify")
  /\ WriteReg(Cpu(p), TRUE)
  /\ UNCHANGED <<boot, left, resets>>

VerifyBitOnly(p) ==
  /\ Move(p, "verify", IF reg.locked THEN "print" ELSE "lock")
  /\ UNCHANGED <<reg, boot, left, resets>>

(* ... and reads the register back: any other value, and it writes again.  *)
Verify(p) ==
  /\ Move(p, "verify",
          IF reg = [owner |-> Cpu(p), locked |-> TRUE] THEN "print" ELSE "lock")
  /\ UNCHANGED <<reg, boot, left, resets>>

Return(p) == pc' = [pc EXCEPT ![p] = "lock"] /\ left' = [left EXCEPT ![p] = @ - 1]

UnlockCheckWhole(p) ==
  /\ pc[p] = "print"
  /\ IF reg = [owner |-> Cpu(p), locked |-> FALSE]
       THEN Move(p, "print", "free") /\ left' = left
       ELSE Return(p)
  /\ UNCHANGED <<reg, boot, resets>>

(* The message is out; XMutex_Unlock reads the register and returns at     *)
(* once when it names the other processor ...                              *)
UnlockCheck(p) ==
  /\ pc[p] = "print"
  /\ IF reg.owner = Cpu(p)
       THEN Move(p, "print", "free") /\ left' = left
       ELSE Return(p)
  /\ UNCHANGED <<reg, boot, resets>>

(* ... and else writes the unlock pattern.                                 *)
UnlockFree(p) ==
  /\ pc[p] = "free"
  /\ WriteReg(Cpu(p), FALSE)
  /\ Return(p)
  /\ UNCHANGED <<boot, resets>>

SafePrintf(p) == Lock(p) \/ Verify(p) \/ UnlockCheck(p) \/ UnlockFree(p)

-----------------------------------------------------------------------------
(* Processor c is reset: its threads are lost and started anew.            *)
Reset(c) ==
  /\ resets > 0
  /\ resets' = resets - 1
  /\ boot' = [boot EXCEPT ![c] = "check"]
  /\ pc' = [p \in Printers |-> IF Cpu(p) = c THEN "lock" ELSE pc[p]]
  /\ left' = [p \in Printers |-> IF Cpu(p) = c THEN Messages(p) ELSE left[p]]
  /\ UNCHANGED reg

Next ==
  \/ \E c \in Processors : BootCheck(c) \/ BootFree(c) \/ Reset(c)
  \/ \E p \in Printers : SafePrintf(p)

Spec == Init /\ [][Next]_vars

FairSpec ==
  /\ Spec
  /\ \A c \in Processors : WF_vars(BootCheck(c) \/ BootFree(c))
  /\ \A p \in Printers : WF_vars(SafePrintf(p))

-----------------------------------------------------------------------------
(* What "thread- and process-safe" (config.h 14) asks of the macro: no two *)
(* messages are on their way to the port at once.  The column threads, all *)
(* of which print when they start (196), break it: the register takes two  *)
(* of them for one.                                                        *)
OnePrinter ==
  \A p, q \in Printers : pc[p] = "print" /\ pc[q] = "print" => p = q

(* What is left of it: nobody begins to print into a message of main_prog  *)
(* (666, 678) or of the display thread (main_display.c 54, 83), with all   *)
(* the columns printing and whatever is reset.                             *)
NobodyCutsIn ==
  [][\A p \in {MainProg, Display}, q \in Printers :
       pc[p] = "print" /\ pc[q] # "print" => pc'[q] # "print"]_vars

(* The register is never locked without somebody who will unlock it: a     *)
(* thread of the owner that is past its write, or the owner's coming       *)
(* initialisation.  A printer that finds the register locked does not spin *)
(* on a lock that a reset, or a sibling's unlock, has orphaned.            *)
NeverOrphaned ==
  reg.locked =>
    \/ boot[reg.owner] # "up"
    \/ \E p \in Printers : Cpu(p) = reg.owner /\ pc[p] # "lock"

(* Once the resets are over every message gets out, although the lock is   *)
(* taken by spinning and without a queue.                                  *)
EverythingPrinted == <>[](\A p \in Printers : left[p] = 0)
=============================================================================
