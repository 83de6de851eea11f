------------------------------ MODULE Mailbox -------------------------------
(***************************************************************************)
(* The mailbox between the processors (xmbox.c): a FIFO of words in the    *)
(* fabric.  The model sends its model_state with XMbox_WriteBlocking, the  *)
(* display receives it with XMbox_ReadBlocking, each word by word; the     *)
(* FIFO is shorter than a message, so that both must be at work for one    *)
(* to get through.  There is one writer and one reader, so the answer of a *)
(* poll of the status register cannot turn stale against its poller, and   *)
(* poll and access are one step.  There is no header and no end mark: the  *)
(* reader takes words until it has counted a message.                      *)
(***************************************************************************)
EXTENDS Integers, Sequences

CONSTANTS
  WORDS,    \* words of a message, sizeof(Model_state) / 4
  DEPTH     \* words the FIFO holds, C_MAILBOX_DEPTH of the design

VARIABLES
  fifo,      \* the words in the fabric, oldest first
  out,       \* the writer's buffer, model_state
  writing,   \* the writer is in XMbox_WriteBlocking
  nout,      \* words of out it has written
  in,        \* the reader's buffer, data
  nin        \* words of in it has read, 0 between two messages

vars == <<fifo, out, writing, nout, in, nin>>

IsEmptyHw == fifo = <<>>
IsFullHwOffByOne == Len(fifo) > DEPTH
IsFullHw == Len(fifo) = DEPTH

Init(first, zero) ==
  /\ fifo = <<>>
  /\ out = first /\ writing = FALSE /\ nout = 0
  /\ in = zero /\ nin = 0

(* XMbox_WriteBlocking is called with message m ...                        *)
StartWrite(m) ==
  /\ ~writing
  /\ writing' = TRUE
  /\ out' = m
  /\ nout' = 0
  /\ UNCHANGED <<fifo, in, nin>>

WriteWordOrDrop ==
  /\ writing
  /\ fifo' = IF IsFullHw THEN fifo ELSE Append(fifo, out[nout + 1])
  /\ nout' = nout + 1
  /\ writing' = (nout' # WORDS)
  /\ UNCHANGED <<out, in, nin>>

(* ... and writes one word whenever there is room, until all are written.  *)
WriteWord ==
  /\ writing /\ ~IsFullHw
  /\ fifo' = Append(fifo, out[nout + 1])
  /\ nout' = nout + 1
  /\ writing' = (nout' # WORDS)
  /\ UNCHANGED <<out, in, nin>>

ReadWordUntilEmpty ==
  /\ ~IsEmptyHw
  /\ in' = [in EXCEPT ![nin + 1] = Head(fifo)]
  /\ fifo' = Tail(fifo)
  /\ nin' = IF fifo' = <<>> THEN 0 ELSE (nin + 1) % WORDS
  /\ UNCHANGED <<out, writing, nout>>

(* XMbox_ReadBlocking takes one word whenever there is one, until all are  *)
(* read; the next call starts at the first word again.                     *)
ReadWord ==
  /\ ~IsEmptyHw
  /\ in' = [in EXCEPT ![nin + 1] = Head(fifo)]
  /\ fifo' = Tail(fifo)
  /\ nin' = (nin + 1) % WORDS
  /\ UNCHANGED <<out, writing, nout>>

-----------------------------------------------------------------------------
(* The messages under way, as the two ends cut the stream of words.        *)

Unwritten == IF writing /\ nout > 0 THEN SubSeq(out, nout + 1, WORDS) ELSE <<>>
Stream == fifo \o Unwritten

Midway == nin > 0
Owed == IF Midway THEN WORDS - nin ELSE 0      \* words the reader still waits for

Taken == IF Midway THEN SubSeq(in, 1, nin) \o SubSeq(Stream, 1, Owed) ELSE in
Behind == SubSeq(Stream, Owed + 1, Len(Stream))
Waiting == IF Behind = <<>> THEN <<>> ELSE <<Behind>>

=============================================================================
