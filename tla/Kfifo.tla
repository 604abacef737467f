-------------------------------- MODULE Kfifo --------------------------------
(***************************************************************************)
(* Control/kfifo.c and kfifo.h: a ring of size bytes indexed by two        *)
(* free-running unsigned counters.  Only the writer moves in, only the     *)
(* reader moves out, and no lock is taken: the comments at kfifo.c:88 and  *)
(* kfifo.c:120 say one concurrent reader and one concurrent writer need    *)
(* none.  In this program the writer is the USART6 receive interrupt       *)
(* (usart.c:619) and the reader is the shell task (shell_port.c:56).       *)
(*                                                                         *)
(* Both calls are split where the other side can be seen or can see them:  *)
(* the evaluation of the other side's counter, every byte memcpy moves,    *)
(* and the update of the own counter.                                      *)
(*                                                                         *)
(* min(a,b) is a macro (kfifo.c:5) that evaluates its arguments twice, and *)
(* a is a read of the counter the other side moves.  MergedReads says      *)
(* whether the build folds the two reads into one: the optimised image of  *)
(* the repository does, the text of the source does not.                   *)
(***************************************************************************)
EXTENDS Naturals, Sequences

CONSTANTS Size,        (* kfifo.size, a power of two                       *)
          Laps,        (* times the ring fits in the range of a counter    *)
          MaxIn,       (* most bytes one kfifo_in offers                   *)
          MaxReq,      (* most bytes one kfifo_out asks for                *)
          Byte,        (* the byte values                                  *)
          MergedReads  (* TRUE: min() reads the moving counter once        *)

ASSUME KfifoAssumption == /\ Size \in Nat \ {0}
                          /\ Laps \in Nat \ {0, 1}
                          /\ MaxIn \in Nat \ {0}
                          /\ MaxReq \in Nat \ {0}
                          /\ Byte # {}
                          /\ MergedReads \in BOOLEAN

VARIABLES buffer, in, out,          (* struct kfifo                        *)
          wpc, from, inLen, inAt,   (* kfifo_in: program counter, the      *)
                                    (* caller's bytes, len, bytes copied   *)
          rpc, need, outLen, to,    (* kfifo_out: the same, and the        *)
                                    (* destination as filled so far        *)
          got                       (* what the last kfifo_out returned    *)

ringVars   == <<buffer, in, out>>
writerVars == <<wpc, from, inLen, inAt>>
readerVars == <<rpc, need, outLen, to, got>>
vars == <<buffer, in, out, wpc, from, inLen, inAt, rpc, need, outLen, to, got>>

(* Mutant: the macro returns the larger.                                   *)
Largest(a, b) == IF a <= b THEN b ELSE a

(* min, kfifo.c:5.                                                         *)
Least(a, b) == IF a <= b THEN a ELSE b

------------------------------------------------------------------------------
(* The counters are unsigned ints: they wrap at W, 2^32 in the program.    *)
W == Laps * Size
Counter == 0..W-1
Slots == 0..Size-1

(* Mutant: the counter may reach W.                                        *)
AddLate(x, n) == IF x + n <= W THEN x + n ELSE x + n - W

Add(x, n) == IF x + n < W THEN x + n ELSE x + n - W
Distance(x, y) == IF x >= y THEN x - y ELSE x + W - y

(* __kfifo_off: x & (size - 1), which for a power of two is the remainder. *)
Slot(x) == x % Size

(* Where the two memcpys put byte i of a call that starts at counter x:    *)
(* from the slot of x to the end of the buffer, the rest at its start.     *)
Place(x, i) == IF i < Size - Slot(x) THEN Slot(x) + i ELSE i - (Size - Slot(x))

Used  == Distance(in, out)    \* kfifo_len

(* Mutant: one byte too many.                                              *)
AvailPlusOne == Size - Used + 1

Avail == Size - Used          \* kfifo_avail

Requests == UNION { [1..n -> Byte] : n \in 1..MaxIn }

Init == /\ buffer \in [Slots -> Byte]
        /\ in = 0 /\ out = 0
        /\ wpc = "idle" /\ from = << >> /\ inLen = 0 /\ inAt = 0
        /\ rpc = "idle" /\ need = 0 /\ outLen = 0 /\ to = << >> /\ got = << >>

------------------------------------------------------------------------------
(* kfifo_in(fifo, s, Len(s)).                                              *)
InCall(s) ==
  /\ wpc = "idle"
  /\ wpc' = "size"
  /\ from' = s
  /\ UNCHANGED <<ringVars, inLen, inAt, readerVars>>

(* min(kfifo_avail(fifo), len).  With the reads as written, the answer     *)
(* "avail is smaller" sends the code to a second evaluation of avail.      *)
InSize ==
  /\ wpc = "size"
  /\ IF ~MergedReads /\ Avail < Len(from)
     THEN wpc' = "resize" /\ UNCHANGED inLen
     ELSE wpc' = "copy" /\ inLen' = Least(Avail, Len(from))
  /\ inAt' = 0
  /\ UNCHANGED <<ringVars, from, readerVars>>

InResize ==
  /\ wpc = "resize"
  /\ wpc' = "copy"
  /\ inLen' = Avail
  /\ UNCHANGED <<ringVars, from, inAt, readerVars>>

(* One byte of __kfifo_in_data.  Past the caller's array any byte may be   *)
(* read.                                                                   *)
InCopy ==
  /\ wpc = "copy"
  /\ inAt < inLen
  /\ \E b \in Byte :
        /\ inAt < Len(from) => b = from[inAt + 1]
        /\ buffer' = [buffer EXCEPT ![Place(in, inAt)] = b]
  /\ inAt' = inAt + 1
  /\ UNCHANGED <<in, out, wpc, from, inLen, readerVars>>

(* __kfifo_add_in and the return.                                          *)
InAdvance ==
  /\ wpc = "copy"
  /\ inAt = inLen
  /\ in' = Add(in, inLen)
  /\ wpc' = "idle"
  /\ from' = << >>
  /\ inLen' = 0
  /\ inAt' = 0
  /\ UNCHANGED <<buffer, out, readerVars>>

------------------------------------------------------------------------------
(* kfifo_out(fifo, to, n).                                                 *)
OutCall(n) ==
  /\ rpc = "idle"
  /\ rpc' = "size"
  /\ need' = n
  /\ UNCHANGED <<ringVars, writerVars, outLen, to, got>>

(* min(kfifo_len(fifo), len).                                              *)
OutSize ==
  /\ rpc = "size"
  /\ IF ~MergedReads /\ Used < need
     THEN rpc' = "resize" /\ UNCHANGED outLen
     ELSE rpc' = "copy" /\ outLen' = Least(Used, need)
  /\ UNCHANGED <<ringVars, writerVars, need, to, got>>

OutResize ==
  /\ rpc = "resize"
  /\ rpc' = "copy"
  /\ outLen' = Used
  /\ UNCHANGED <<ringVars, writerVars, need, to, got>>

(* One byte of __kfifo_out_data.                                           *)
OutCopy ==
  /\ rpc = "copy"
  /\ Len(to) < outLen
  /\ to' = Append(to, buffer[Place(out, Len(to))])
  /\ UNCHANGED <<ringVars, writerVars, rpc, need, outLen, got>>

(* __kfifo_add_out and the return.                                         *)
OutAdvance ==
  /\ rpc = "copy"
  /\ Len(to) = outLen
  /\ out' = Add(out, outLen)
  /\ got' = to
  /\ rpc' = "idle"
  /\ need' = 0
  /\ outLen' = 0
  /\ to' = << >>
  /\ UNCHANGED <<buffer, in, writerVars>>

(* Mutant: the counter starts over.                                        *)
ResetOutZero ==
  /\ rpc = "idle"
  /\ out' = 0
  /\ UNCHANGED <<buffer, in, writerVars, readerVars>>

(* kfifo_reset_out(fifo), a call of the reader.                            *)
ResetOut ==
  /\ rpc = "idle"
  /\ out' = in
  /\ UNCHANGED <<buffer, in, writerVars, readerVars>>

------------------------------------------------------------------------------
Writer == \/ \E s \in Requests : InCall(s)
          \/ InSize \/ InResize \/ InCopy \/ InAdvance
Reader == \/ \E n \in 1..MaxReq : OutCall(n)
          \/ OutSize \/ OutResize \/ OutCopy \/ OutAdvance \/ ResetOut

Next == Writer \/ Reader
Spec == Init /\ [][Next]_vars

------------------------------------------------------------------------------
TypeOK ==
  /\ buffer \in [Slots -> Byte]
  /\ in \in Counter /\ out \in Counter
  /\ wpc \in {"idle", "size", "resize", "copy"}
  /\ from \in Seq(Byte) /\ inLen \in Nat /\ inAt \in Nat
  /\ rpc \in {"idle", "size", "resize", "copy"}
  /\ need \in 0..MaxReq /\ outLen \in Nat
  /\ to \in Seq(Byte) /\ got \in Seq(Byte)

(* The bytes between the counters, oldest first.                           *)
Unread == [k \in 1..Used |-> buffer[Place(out, k - 1)]]

(* The writer fills only free room and the reader takes only stored bytes, *)
(* whatever the other side did since the length was sampled: the claim     *)
(* that no lock is needed (kfifo.c:88, kfifo.c:120).                       *)
LengthsStayValid ==
  /\ Used <= Size
  /\ wpc = "copy" => inLen <= Avail
  /\ rpc = "copy" => outLen <= Used

(* kfifo.c:117: kfifo_out copies at most len bytes to the caller's buffer; *)
(* one more overruns it (the shell's is a single char, shell.c:1829).      *)
(* With min() reading twice this takes two bytes between its reads: the    *)
(* second read happens only when the first is below len, so that one byte  *)
(* brings it to len at most.                                               *)
AtMostLen == Len(to) <= need

(* A byte that is stored and unread keeps its value and its rank until the *)
(* reader advances, whatever the writer copies in the meantime and however *)
(* often the counters wrapped: [][.]_vars.                                 *)
UnreadIsStable ==
  out' = out => /\ Used' >= Used
                /\ \A k \in 0..Used-1 :
                      buffer'[Place(out, k)] = buffer[Place(out, k)]
UnreadNeverOverwritten == [][UnreadIsStable]_vars

(* The inductive invariant behind these: the calls' own bookkeeping, and   *)
(* what each has copied so far.                                            *)
CallsWellFormed ==
  /\ wpc = "idle" <=> from = << >>
  /\ Len(from) <= MaxIn
  /\ wpc # "copy" => inAt = 0
  /\ wpc = "copy" => inAt <= inLen
  /\ rpc = "idle" <=> need = 0
  /\ rpc # "copy" => to = << >>
  /\ rpc = "copy" => Len(to) <= outLen

LengthsRequested ==
  MergedReads => /\ wpc # "resize" /\ rpc # "resize"
                 /\ wpc = "copy" => inLen <= Len(from)
                 /\ rpc = "copy" => outLen <= need

CopiedFaithfully ==
  /\ wpc = "copy" => \A i \in 0..inAt-1 :
        i < Len(from) => buffer[Place(in, i)] = from[i + 1]
  /\ rpc = "copy" => \A i \in 0..Len(to)-1 :
        to[i + 1] = buffer[Place(out, i)]

IInv == /\ TypeOK /\ LengthsStayValid
        /\ CallsWellFormed /\ LengthsRequested /\ CopiedFaithfully

(* kfifo implements the bounded queue.                                     *)
Fifo == INSTANCE BoundedFifo WITH Capacity <- Size, queue <- Unread
FifoSpec == Fifo!Spec
==============================================================================
