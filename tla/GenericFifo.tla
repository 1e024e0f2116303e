----------------------------- MODULE GenericFifo -----------------------------
(***************************************************************************)
(* The fifo that genericFiFo.h makes for a type and a size: a ring with    *)
(* the index of its oldest element, the index behind its youngest one and  *)
(* their number.  An operation is atomic where GEN_FIFO_CLI_FUNCTION locks *)
(* the mutex.  Errors are told by the predicates ...Okay; with an error a  *)
(* fifo is not changed.  NULL arguments are left out.                      *)
(*                                                                         *)
(* GenericFifoProofs proves that a fifo is a queue of at most FifoSize     *)
(* elements, its Contents.                                                 *)
(***************************************************************************)
EXTENDS Integers, Sequences

CONSTANT FifoSize  \* fifoCnt

ASSUME FifoAssumption == FifoSize \in Nat \ {0}

Index == 0 .. FifoSize - 1

\* The fifos of elements of a type.
Fifos(Type) ==
  [data : [Index -> Type], start : Index, end : Index, count : 0 .. FifoSize]

\* What is kept twice agrees.
IsConsistent(f) == f.end = (f.start + f.count) % FifoSize

\* fifo_init leaves the data as they are.
InitFifo(data) == [data |-> data, start |-> 0, end |-> 0, count |-> 0]

PutOkay(f) == f.count < FifoSize

Put(f, element) ==
  [f EXCEPT !.data[f.end] = element, !.end = (f.end + 1) % FifoSize, !.count = f.count + 1]

PeekOkay(f, i) == i < f.count

Peek(f, i) == f.data[(f.start + i) % FifoSize]

GetOkay(f) == f.count > 0

Get(f) == [f EXCEPT !.start = (f.start + 1) % FifoSize, !.count = f.count - 1]

\* The elements, oldest first.
Contents(f) == [n \in 1 .. f.count |-> Peek(f, n - 1)]

===============================================================================
