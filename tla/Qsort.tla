------------------------------- MODULE Qsort -------------------------------
(***************************************************************************)
(* qsort_p of util.c, one call of compar or one step of its outer loop at  *)
(* a time, with the calls of __qsort_p that are under way as a stack.  (The *)
(* firmware calls it nowhere; the linker drops it.)                        *)
(***************************************************************************)
EXTENDS Integers, Sequences

CONSTANTS
  Keys,      \* what compar goes by
  MaxNr      \* bound: how many items there are

ASSUME QsortAssumption == Keys \subseteq Int /\ MaxNr \in Nat

VARIABLES
  nr,        \* how many items qsort_p was given
  items,     \* the pointers, each with its key and the place it began at
  frames,    \* the calls under way, the innermost last: l and r, and how many
             \* items the call was given (history)
  scan       \* where the innermost is: in its outer loop, looking upwards or
             \* downwards or where these met; its i, j and pivot

qsortVars == <<nr, items, frames, scan>>

Slots == 0 .. nr - 1

Frame(l, r, given) == [l |-> l, r |-> r, given |-> given]

Innermost == Len(frames)
Top       == frames[Innermost]

Swapped(a, x, y) == [a EXCEPT ![x] = a[y], ![y] = a[x]]

\* The item in the middle is the pivot, and goes to the end.
Partition ==
  /\ frames # <<>> /\ scan.at = "loop" /\ Top.l < Top.r
  /\ LET m == (Top.l + Top.r) \div 2
     IN /\ items' = Swapped(items, m, Top.r)
        /\ scan' = [at |-> "up", i |-> Top.l - 1, j |-> Top.r, pivot |-> items[m]]
  /\ UNCHANGED <<nr, frames>>

\* Up to an item that is not smaller than the pivot.
LookUp ==
  /\ scan.at = "up"
  /\ LET i == scan.i + 1
     IN scan' = [scan EXCEPT !.i = i,
                   !.at = IF items[i].key < scan.pivot.key THEN "up" ELSE "down"]
  /\ UNCHANGED <<nr, items, frames>>

\* Down to one that is, or to where the other search is; the two items change
\* places and both go on, unless they have met.
LookDown ==
  /\ scan.at = "down"
  /\ LET i == scan.i
         j == scan.j - 1
     IN \/ /\ items[j].key >= scan.pivot.key /\ i < j
           /\ scan' = [scan EXCEPT !.j = j]
           /\ UNCHANGED items
        \/ /\ items[j].key < scan.pivot.key /\ i < j
           /\ scan' = [scan EXCEPT !.j = j, !.at = "up"]
           /\ items' = Swapped(items, i, j)
        \/ /\ i >= j
           /\ scan' = [scan EXCEPT !.j = j, !.at = "met"]
           /\ UNCHANGED items
  /\ UNCHANGED <<nr, frames>>

LargerFirst(l, i, r)  == i - l >= r - i          \* mutant
SmallerFirst(l, i, r) == i - l < r - i

\* The pivot goes where they met; one side is sorted by a call, and the loop goes on
\* with the other.
Recurse ==
  /\ scan.at = "met"
  /\ LET i == scan.i
         l == Top.l
         r == Top.r
     IN /\ items' = [items EXCEPT ![r] = items[i], ![i] = scan.pivot]
        /\ \/ /\ SmallerFirst(l, i, r)
              /\ frames' = Append([frames EXCEPT ![Innermost].l = i + 1],
                                  Frame(l, i - 1, i - l))
           \/ /\ ~SmallerFirst(l, i, r)
              /\ frames' = Append([frames EXCEPT ![Innermost].r = i - 1],
                                  Frame(i + 1, r, r - i))
  /\ scan' = [scan EXCEPT !.at = "loop"]
  /\ UNCHANGED nr

Return ==
  /\ frames # <<>> /\ scan.at = "loop" /\ Top.l >= Top.r
  /\ frames' = SubSeq(frames, 1, Innermost - 1)
  /\ UNCHANGED <<nr, items, scan>>

\* The call.
QsortInit ==
  /\ nr \in 0 .. MaxNr
  /\ \E key \in [Slots -> Keys] :
       items = [k \in Slots |-> [key |-> key[k], id |-> k]]
  /\ frames = <<Frame(0, nr - 1, nr)>>
  /\ scan = [at |-> "loop", i |-> 0, j |-> 0, pivot |-> [key |-> 0, id |-> 0]]

QsortNext == Partition \/ LookUp \/ LookDown \/ Recurse \/ Return

QsortSpec == QsortInit /\ [][QsortNext]_qsortVars

-----------------------------------------------------------------------------
(* Properties *)

\* The item that is to be compared next is one of those the call was given: the
\* searches have no bounds but the pivot, the items they have passed and each other.
LooksInside ==
  /\ scan.at = "up"   => scan.i + 1 \in Top.l .. Top.r
  /\ scan.at = "down" => scan.j - 1 \in Top.l .. Top.r

\* qsort_p sorts, loses nothing, compares no pointer outside the array, and each
\* call is given less than half of what its caller was: the stack is as deep as the
\* logarithm of the number of items at most.
Sorted ==
  /\ frames = <<>> => \A k \in 1 .. nr - 1 : items[k - 1].key <= items[k].key
  /\ {items[k].id : k \in Slots} = Slots
  /\ LooksInside
  /\ \A q \in 1 .. Innermost - 1 : 2 * frames[q + 1].given < frames[q].given

-----------------------------------------------------------------------------
(* What the property rests on *)

Item      == [key : Int, id : Int]
FrameType == [l : Int, r : Int, given : Int]

QsortType ==
  /\ nr \in Nat /\ items \in [Slots -> Item]
  /\ frames \in Seq(FrameType)
  /\ scan \in [at : {"loop", "up", "down", "met"}, i : Int, j : Int, pivot : Item]

\* Nothing is lost.
Kept(a) ==
  /\ \A k \in Slots : a[k].id \in Slots
  /\ \A id \in Slots : \E k \in Slots : a[k].id = id

In(x, f) == f.l <= x /\ x <= f.r

\* No place belongs to two calls, and a call's fit into what it was given.
FramesApart(fs) ==
  /\ \A q \in 1 .. Len(fs) :
       /\ 0 <= fs[q].l /\ fs[q].l <= fs[q].r + 1 /\ fs[q].r < nr
       /\ fs[q].r - fs[q].l < fs[q].given
  /\ \A p, q \in 1 .. Len(fs) : p # q => \A x \in Slots : ~(In(x, fs[p]) /\ In(x, fs[q]))
  /\ \A q \in 1 .. Len(fs) - 1 : 2 * fs[q + 1].given < fs[q].given

\* Two items are in order unless some call still has them both.
Separated(a, fs) ==
  \A x, y \in Slots :
    x < y => \/ a[x].key <= a[y].key
             \/ \E q \in 1 .. Len(fs) : In(x, fs[q]) /\ In(y, fs[q])

\* Below the one search all are smaller than the pivot, above the other none is.
Searched ==
  scan.at # "loop" =>
    /\ frames # <<>> /\ Top.l < Top.r
    /\ items[Top.r] = scan.pivot
    /\ Top.l - 1 <= scan.i
    /\ \A k \in Slots : Top.l <= k /\ k < scan.i => items[k].key < scan.pivot.key
    /\ scan.at \in {"up", "down"} =>
         /\ Top.l < scan.j /\ scan.j <= Top.r /\ scan.i <= scan.j
         /\ \A k \in Slots : scan.j <= k /\ k <= Top.r => items[k].key >= scan.pivot.key
    /\ scan.at = "up" =>
         scan.i < scan.j /\ (scan.i >= Top.l => items[scan.i].key < scan.pivot.key)
    /\ scan.at \in {"down", "met"} =>
         Top.l <= scan.i /\ items[scan.i].key >= scan.pivot.key
    /\ scan.at = "met" =>
         /\ scan.i <= Top.r
         /\ \A k \in Slots : scan.i <= k /\ k <= Top.r => items[k].key >= scan.pivot.key

QsortInv ==
  QsortType /\ Kept(items) /\ FramesApart(frames) /\ Separated(items, frames) /\ Searched
=============================================================================
