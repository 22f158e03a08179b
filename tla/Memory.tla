------------------------------- MODULE Memory -------------------------------
(***************************************************************************)
(* memset, memcpy and memmove of util.c, one turn of a loop at a time, the *)
(* loops of memcpy_fast and memset_fast (assembly) among them.             *)
(*                                                                         *)
(* A byte is named by the address it had when the call was made, so that   *)
(* the memory says where each of its bytes has come from.                  *)
(***************************************************************************)
EXTENDS Integers

CONSTANTS
  MemSize,   \* bytes of memory
  Block,     \* bytes moved at once: 32, eight registers
  Align      \* if the addresses are multiples of: 4

ASSUME MemoryAssumption ==
  MemSize \in Nat /\ Block \in Nat \ {0} /\ Align \in Nat \ {0}

VARIABLES
  mem,       \* what is at each address
  call       \* the call: its arguments and its local variables

memoryVars == <<mem, call>>

Addresses == 0 .. MemSize - 1
Fill      == -1                      \* the byte memset is given

Aligned(x) == x % Align = 0

NoCall == [fn |-> "none", d |-> 0, s |-> 0, n |-> 0,
           at |-> "done", p |-> 0, q |-> 0, left |-> 0]

\* k bytes further on.
Advanced(c, k) == [c EXCEPT !.p = @ + k, !.q = @ + k, !.left = @ - k]

\* The remainder, byte by byte.
Remainder(c) == [c EXCEPT !.at = IF c.left = 0 THEN "done" ELSE "bytes"]

\* Large and aligned?  Then in blocks first.
Forward(c) ==
  IF c.left >= Block /\ Aligned(c.d) /\ (c.fn # "memset" => Aligned(c.s))
    THEN [c EXCEPT !.at = "blocks"]
    ELSE Remainder(c)

\* From the end, when the destination is not below the source.
Backward(c) ==
  [c EXCEPT !.p = c.d + c.n, !.q = c.s + c.n,
            !.at = IF c.n = 0 THEN "done" ELSE "back"]

MovesUp(d, s)  == TRUE               \* mutant
CopiesUp(d, s) == d < s

Called(fn, d, s, n) ==
  LET c == [fn |-> fn, d |-> d, s |-> s, n |-> n,
            at |-> "done", p |-> d, q |-> s, left |-> n]
  IN IF fn = "memmove" /\ ~CopiesUp(d, s) THEN Backward(c) ELSE Forward(c)

\* memcpy may not be given areas that overlap.
Apart(d, s, n) == d + n <= s \/ s + n <= d

Call ==
  /\ call = NoCall
  /\ \E d, s \in Addresses, n \in 0 .. MemSize :
       /\ d + n <= MemSize /\ s + n <= MemSize
       /\ \/ call' = Called("memset", d, d, n)
          \/ call' = Called("memmove", d, s, n)
          \/ Apart(d, s, n) /\ call' = Called("memcpy", d, s, n)
  /\ UNCHANGED mem

\* What is to be stored i bytes on: all is loaded before any is stored.
Loaded(i) == IF call.fn = "memset" THEN Fill ELSE mem[call.q + i]

\* memcpy_fast, memset_fast: a block, as long as there is one.
MoveBlock ==
  /\ call.at = "blocks"
  /\ mem' = [x \in Addresses |->
               IF call.p <= x /\ x < call.p + Block THEN Loaded(x - call.p) ELSE mem[x]]
  /\ LET c == Advanced(call, Block)
     IN call' = IF c.left >= Block THEN c ELSE Remainder(c)

\* memset, memcpy: *p++ = *q++
MoveByte ==
  /\ call.at = "bytes"
  /\ mem' = [mem EXCEPT ![call.p] = Loaded(0)]
  /\ call' = Remainder(Advanced(call, 1))

\* memmove: *--p = *--q
MoveBack ==
  /\ call.at = "back"
  /\ mem' = [mem EXCEPT ![call.p - 1] = mem[call.q - 1]]
  /\ call' = [call EXCEPT !.p = @ - 1, !.q = @ - 1, !.left = @ - 1,
                          !.at = IF call.left = 1 THEN "done" ELSE "back"]

MemoryInit ==
  /\ mem = [x \in Addresses |-> x]
  /\ call = NoCall

MemoryNext == Call \/ MoveBlock \/ MoveByte \/ MoveBack

MemorySpec == MemoryInit /\ [][MemoryNext]_memoryVars

-----------------------------------------------------------------------------
(* Properties *)

\* What a call is to leave at an address.
Wanted(c, x) ==
  IF c.d <= x /\ x < c.d + c.n
    THEN IF c.fn = "memset" THEN Fill ELSE c.s + (x - c.d)
    ELSE x

\* When a call is over, all of its bytes are where they belong and no other was
\* touched: as if all had been read before any was written, whether the areas
\* overlap, and whether there were blocks, a remainder, both or neither.
MemoryRight == call.at = "done" => \A x \in Addresses : mem[x] = Wanted(call, x)

-----------------------------------------------------------------------------
(* What the property rests on *)

CallType ==
  [fn : {"none", "memset", "memcpy", "memmove"}, d : Nat, s : Nat, n : Nat,
   at : {"blocks", "bytes", "back", "done"}, p : Int, q : Int, left : Nat]

\* How far a call is: upwards, no byte to come is in the way of the ones that are
\* there, as the areas are apart or the destination is below; downwards, it is not
\* below.
Progress(c) ==
  /\ c.d + c.n <= MemSize /\ c.s + c.n <= MemSize
  /\ c.left <= c.n
  /\ c.at = "blocks" => c.left >= Block
  /\ c.at = "done" => c.left = 0
  /\ c.at \in {"bytes", "back"} => c.left > 0
  /\ c.at \in {"blocks", "bytes"} =>
       /\ c.p = c.d + (c.n - c.left) /\ c.q = c.s + (c.n - c.left)
       /\ c.fn = "memset" \/ c.d < c.s \/ Apart(c.d, c.s, c.n)
  /\ c.at = "back" =>
       /\ c.p = c.d + c.left /\ c.q = c.s + c.left
       /\ c.fn = "memmove" /\ c.s <= c.d

\* The bytes that have been moved.
Moved(c, x) ==
  /\ c.d <= x /\ x < c.d + c.n
  /\ c.at \in {"blocks", "bytes"} => x < c.p
  /\ c.at = "back" => c.p <= x

MemoryInv ==
  /\ mem \in [Addresses -> Int] /\ call \in CallType
  /\ Progress(call)
  /\ \A x \in Addresses : mem[x] = IF Moved(call, x) THEN Wanted(call, x) ELSE x
=============================================================================
