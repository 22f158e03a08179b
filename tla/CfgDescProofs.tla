--------------------------- MODULE CfgDescProofs ---------------------------
(***************************************************************************)
(* Proofs about the parser of the configuration descriptor: for all        *)
(* devices that describe themselves correctly, in any number and order.    *)
(***************************************************************************)
EXTENDS CfgDesc, FiniteSetTheorems, NaturalsInduction, WellFoundedInduction, TLAPS

-----------------------------------------------------------------------------
(* Descriptors *)

\* The fields of the descriptors of a device.
LEMMA Fields ==
  ASSUME NEW d, AddsUp(d)
  PROVE  /\ Len(d) \in Nat \ {0} /\ DOMAIN d = 1 .. Len(d)
         /\ \A i \in 1 .. Len(d) :
              /\ d[i].len \in Nat \ {0} /\ d[i].pos \in Nat
              /\ IsItf(d[i]) => /\ d[i].len = 9 /\ d[i].num \in Nat /\ d[i].alt \in Nat
                                /\ d[i].eps \in Nat
              /\ IsEp(d[i]) => /\ ~IsItf(d[i]) /\ d[i].size \in Nat /\ d[i].dir \in {"in", "out"}
<1> DEFINE X == [type : {"interface"}, len : {9}, pos : Nat, num : Nat, alt : Nat,
                 eps : Nat, class : STRING]
           Y == [type : {"endpoint"}, len : {7}, pos : Nat, dir : {"in", "out"}, size : Nat]
           Z == [type : {"functional"}, len : Nat \ {0}, pos : Nat]
<1>1. d \in Seq(X \cup Y \cup Z) /\ d # <<>>
  BY DEF AddsUp
<1>2. Len(d) \in Nat /\ DOMAIN d = 1 .. Len(d) /\ \A i \in 1 .. Len(d) : d[i] \in X \cup Y \cup Z
  <2> HIDE DEF X, Y, Z
  <2> QED BY <1>1
<1>3. Len(d) # 0
  <2> HIDE DEF X, Y, Z
  <2> QED BY <1>1
<1>4. ASSUME NEW x \in X \cup Y \cup Z
      PROVE  /\ x.len \in Nat \ {0} /\ x.pos \in Nat
             /\ IsItf(x) => /\ x.len = 9 /\ x.num \in Nat /\ x.alt \in Nat
                            /\ x.eps \in Nat
             /\ IsEp(x) => /\ ~IsItf(x) /\ x.size \in Nat /\ x.dir \in {"in", "out"}
  <2>1. CASE x \in X
    BY <2>1 DEF IsItf, IsEp
  <2>2. CASE x \in Y
    BY <2>2 DEF IsItf, IsEp
  <2>3. CASE x \in Z
    BY <2>3 DEF IsItf, IsEp
  <2>4. QED
    BY <2>1, <2>2, <2>3
<1> HIDE DEF X, Y, Z
<1>5. QED
  BY <1>2, <1>3, <1>4

\* The order of the numbers, as a set of pairs.
LessThan == {s \in Nat \X Nat : s[1] < s[2]}

\* The numbers are well-founded, so that there is a first place where something fails.
LEMMA LessThanWellFounded == IsWellFoundedOn(LessThan, Nat)
<1>1. OpToRel(<, Nat) = LessThan
  BY DEF OpToRel, LessThan
<1>2. QED
  BY <1>1, NatLessThanWellFounded, Zenon

\* Every set of numbers has a least one.
LEMMA LeastNumber ==
  ASSUME NEW T \in SUBSET Nat, T # {}
  PROVE  \E x \in T : \A y \in T : x <= y
<1>1. PICK x \in T : \A y \in T : ~ (<<y, x>> \in LessThan)
  BY LessThanWellFounded, WFMin, Zenon
<1>2. ASSUME NEW y \in T PROVE x <= y
  <2>1. ~ (<<y, x>> \in LessThan)
    BY <1>1, Zenon
  <2>2. x \in Nat /\ y \in Nat
    OBVIOUS
  <2>3. QED
    BY <2>1, <2>2 DEF LessThan
<1>3. QED
  BY <1>2

\* The descriptors lie one behind the other.
LEMMA OneBehind ==
  ASSUME NEW d, AddsUp(d), NEW i \in 1 .. Len(d), NEW j \in 1 .. Len(d), i < j
  PROVE  d[j].pos >= d[i].pos + d[i].len
<1> DEFINE S == {k \in 1 .. Len(d) : i < k /\ ~(d[k].pos >= d[i].pos + d[i].len)}
<1>1. Len(d) \in Nat /\ \A k \in 1 .. Len(d) : d[k].len \in Nat \ {0} /\ d[k].pos \in Nat
  BY Fields
<1>2. \A k \in 1 .. Len(d) - 1 : d[k + 1].pos = d[k].pos + d[k].len
  BY DEF AddsUp
<1>3. S = {}
  <2> SUFFICES ASSUME S # {} PROVE FALSE
    OBVIOUS
  <2>1. PICK k \in S : \A m \in S : k <= m
    <3>1. S \in SUBSET Nat /\ S # {}
      BY <1>1
    <3> HIDE DEF S
    <3>2. QED
      BY <3>1, LeastNumber
  <2>2. k \in 1 .. Len(d) /\ i < k /\ ~(d[k].pos >= d[i].pos + d[i].len)
    OBVIOUS
  <2>3. k - 1 \in 1 .. Len(d) - 1 /\ k - 1 \in 1 .. Len(d) /\ k - 1 + 1 = k /\ i <= k - 1
    BY <1>1, <2>2
  <2>4. d[k].pos = d[k - 1].pos + d[k - 1].len
    BY <1>2, <2>3
  <2>5. k - 1 = i \/ d[k - 1].pos >= d[i].pos + d[i].len
    BY <1>1, <2>1, <2>2, <2>3
  <2>6. /\ d[i].pos \in Nat /\ d[i].len \in Nat /\ d[k].pos \in Nat
        /\ d[k - 1].pos \in Nat /\ d[k - 1].len \in Nat
    BY <1>1, <2>2, <2>3
  <2>7. QED
    BY <2>2, <2>4, <2>5, <2>6
<1>4. QED
  BY <1>3

\* As long as an interface is to come the outer loop goes on; and it stops at
\* the last descriptor.
LEMMA OuterGoesOn ==
  ASSUME NEW d, AddsUp(d), NEW m \in 1 .. Len(d)
  PROVE  /\ wTotalLength(d) \in Nat
         /\ \A j \in m + 1 .. Len(d) : IsItf(d[j]) => HeaderLength + d[m].pos < wTotalLength(d)
         /\ HeaderLength + d[m].pos < wTotalLength(d) => m < Len(d)
<1>1. /\ Len(d) \in Nat \ {0}
      /\ \A k \in 1 .. Len(d) : /\ d[k].len \in Nat \ {0} /\ d[k].pos \in Nat
                                /\ IsItf(d[k]) => d[k].len = 9
  BY Fields
<1>2. /\ wTotalLength(d) = d[Len(d)].pos + d[Len(d)].len /\ d[Len(d)].len <= 9
      /\ HeaderLength = 9 /\ Len(d) \in 1 .. Len(d)
  BY <1>1 DEF wTotalLength, AddsUp, HeaderLength
<1>3. ASSUME NEW j \in m + 1 .. Len(d), IsItf(d[j])
      PROVE  9 + d[m].pos < wTotalLength(d)
  <2>1. j \in 1 .. Len(d) /\ m < j
    BY <1>1
  <2>2. d[j].pos >= d[m].pos + d[m].len
    BY <2>1, OneBehind
  <2>3. d[Len(d)].pos + d[Len(d)].len >= d[j].pos + 9
    <3>1. CASE j = Len(d)
      BY <1>1, <1>3, <2>1, <3>1
    <3>2. CASE j < Len(d)
      <4>1. d[Len(d)].pos >= d[j].pos + d[j].len
        BY <1>2, <2>1, <3>2, OneBehind
      <4>2. QED
        BY <1>1, <1>2, <1>3, <2>1, <4>1
    <3>3. QED
      BY <1>1, <2>1, <3>1, <3>2
  <2>4. /\ d[m].pos \in Nat /\ d[m].len \in Nat \ {0} /\ d[j].pos \in Nat
        /\ d[Len(d)].pos \in Nat /\ d[Len(d)].len \in Nat
    BY <1>1, <1>2, <2>1
  <2>5. QED
    BY <1>2, <2>2, <2>3, <2>4, SMTT(30)
<1>4. ~(9 + d[m].pos < wTotalLength(d)) \/ m # Len(d)
  BY <1>1, <1>2
<1>5. QED
  BY <1>1, <1>2, <1>3, <1>4

-----------------------------------------------------------------------------
(* The endpoints of an interface *)

\* They are finite sets.
LEMMA OwnFinite ==
  ASSUME NEW d, AddsUp(d), NEW i \in 1 .. Len(d), NEW m \in Nat
  PROVE  /\ IsFiniteSet(Own(d, i)) /\ IsFiniteSet(OwnTo(d, i, m))
         /\ Cardinality(Own(d, i)) \in Nat /\ Cardinality(OwnTo(d, i, m)) \in Nat
         /\ OwnTo(d, i, m) \subseteq Own(d, i) /\ Own(d, i) \subseteq 1 .. Len(d)
<1>1. Own(d, i) \subseteq 1 .. Len(d) /\ Len(d) \in Nat
  BY Fields DEF Own
<1>2. IsFiniteSet(1 .. Len(d))
  BY <1>1, FS_Interval
<1>3. OwnTo(d, i, m) \subseteq Own(d, i)
  BY DEF OwnTo
<1>4. IsFiniteSet(Own(d, i))
  BY <1>1, <1>2, FS_Subset
<1>5. IsFiniteSet(OwnTo(d, i, m))
  BY <1>3, <1>4, FS_Subset
<1>6. QED
  BY <1>1, <1>3, <1>4, <1>5, FS_CardinalityType

\* While some of them are to come the next descriptor is there, and is no
\* interface: the inner loop stays between two interfaces.
LEMMA Room ==
  ASSUME NEW d, AddsUp(d), NEW i \in 1 .. Len(d), IsItf(d[i]), NEW m \in i .. Len(d),
         \A j \in i + 1 .. m : ~IsItf(d[j]), Cardinality(OwnTo(d, i, m)) < d[i].eps
  PROVE  m + 1 \in i + 1 .. Len(d) /\ ~IsItf(d[m + 1])
<1>1. d[i].eps = Cardinality(Own(d, i)) /\ Len(d) \in Nat /\ d[i].eps \in Nat
  BY Fields DEF AddsUp
<1>2. Own(d, i) # OwnTo(d, i, m)
  <2>1. Cardinality(OwnTo(d, i, m)) # Cardinality(Own(d, i))
    BY <1>1, OwnFinite
  <2>2. QED
    BY <2>1
<1>3. PICK k \in Own(d, i) : ~(k <= m)
  BY <1>2 DEF OwnTo
<1>4. k \in i + 1 .. Len(d) /\ \A j \in i + 1 .. k : ~IsItf(d[j])
  BY DEF Own
<1>5. m + 1 \in i + 1 .. k
  BY <1>1, <1>3, <1>4
<1>6. QED
  BY <1>1, <1>4, <1>5

\* One descriptor more: an endpoint is one more of them.
LEMMA OneMore ==
  ASSUME NEW d, AddsUp(d), NEW i \in 1 .. Len(d), NEW m \in i .. Len(d) - 1,
         \A j \in i + 1 .. m + 1 : ~IsItf(d[j])
  PROVE  IF IsEp(d[m + 1])
           THEN /\ m + 1 \in Own(d, i)
                /\ OwnTo(d, i, m + 1) = OwnTo(d, i, m) \cup {m + 1}
                /\ Cardinality(OwnTo(d, i, m + 1)) = Cardinality(OwnTo(d, i, m)) + 1
           ELSE OwnTo(d, i, m + 1) = OwnTo(d, i, m)
<1>1. Len(d) \in Nat /\ i \in Nat /\ m \in Nat /\ m + 1 \in i + 1 .. Len(d)
  BY Fields
<1>2. Own(d, i) \subseteq Int
  BY <1>1 DEF Own
<1>3. ASSUME IsEp(d[m + 1])
      PROVE  m + 1 \in Own(d, i) /\ OwnTo(d, i, m + 1) = OwnTo(d, i, m) \cup {m + 1}
  <2>1. m + 1 \in Own(d, i)
    BY <1>1, <1>3 DEF Own
  <2>2. QED
    BY <1>1, <1>2, <2>1 DEF OwnTo
<1>4. ASSUME ~IsEp(d[m + 1]) PROVE OwnTo(d, i, m + 1) = OwnTo(d, i, m)
  <2>1. m + 1 \notin Own(d, i)
    BY <1>4 DEF Own
  <2>2. QED
    BY <1>1, <1>2, <2>1 DEF OwnTo
<1>5. m + 1 \notin OwnTo(d, i, m) /\ IsFiniteSet(OwnTo(d, i, m))
  BY <1>1, OwnFinite DEF OwnTo
<1>6. Cardinality(OwnTo(d, i, m) \cup {m + 1}) = Cardinality(OwnTo(d, i, m)) + 1
  BY <1>5, FS_AddElement
<1>7. QED
  BY <1>3, <1>4, <1>6

\* When as many were seen as there are, they are all.
LEMMA AllSeen ==
  ASSUME NEW d, AddsUp(d), NEW i \in 1 .. Len(d), IsItf(d[i]), NEW m \in Nat,
         ~(Cardinality(OwnTo(d, i, m)) < d[i].eps)
  PROVE  OwnTo(d, i, m) = Own(d, i)
<1>1. d[i].eps = Cardinality(Own(d, i))
  BY Fields DEF AddsUp
<1>2. /\ IsFiniteSet(Own(d, i)) /\ OwnTo(d, i, m) \subseteq Own(d, i)
      /\ Cardinality(Own(d, i)) \in Nat /\ Cardinality(OwnTo(d, i, m)) \in Nat
  BY OwnFinite
<1>3. Cardinality(OwnTo(d, i, m)) <= Cardinality(Own(d, i))
  BY <1>2, FS_Subset
<1>4. Cardinality(OwnTo(d, i, m)) = Cardinality(Own(d, i))
  BY <1>1, <1>2, <1>3
<1>5. QED
  BY <1>2, <1>4, FS_Subset

-----------------------------------------------------------------------------
(* The parser stays inside the descriptors and inside its arrays *)

\* The device on the port describes itself correctly.
LEMMA Known ==
  ASSUME Based, stage # "none"
  PROVE  device \in Devices /\ device # "none" /\ AddsUp(Descriptor)
BY CfgDescAssumption DEF Based, DescTypeOK, Descriptor

\* How many interfaces it has is a number.
LEMMA ItfCount ==
  ASSUME NEW d, AddsUp(d)
  PROVE  bNumInterfaces(d) \in Nat
<1> DEFINE J == {j \in 1 .. Len(d) : IsItf(d[j])}
           T == {d[j].num : j \in J}
           f == [j \in J |-> d[j].num]
<1>1. bNumInterfaces(d) = Cardinality(T) /\ Len(d) \in Nat
  BY Fields DEF bNumInterfaces
<1>2. IsFiniteSet(1 .. Len(d))
  BY <1>1, FS_Interval
<1>3. IsFiniteSet(J)
  BY <1>2, FS_Subset
<1>4. f \in Surjection(J, T)
  BY DEF Surjection
<1> HIDE DEF J, T, f
<1>5. QED
  BY <1>1, <1>3, <1>4, FS_Surjection, FS_CardinalityType

\* The numbers of its interfaces are those of the arrays, when it has not too
\* many of them.
LEMMA NumOfItf ==
  ASSUME NEW d, AddsUp(d), bNumInterfaces(d) <= USBH_MAX_NUM_INTERFACES,
         NEW i \in 1 .. Len(d), IsItf(d[i])
  PROVE  d[i].num \in ItfNums
<1>1. d[i].num \in Nat /\ d[i].num < bNumInterfaces(d)
  BY Fields DEF AddsUp
<1>2. QED
  BY <1>1, ItfCount DEF ItfNums, USBH_MAX_NUM_INTERFACES

\* A turn of the outer loop looks at a descriptor that is there, and leaves ptr
\* where it belongs.
LEMMA OuterTurn ==
  ASSUME Based, Outer
  PROVE  /\ parse.at \in Nat /\ parse.at + 1 \in 1 .. Len(Descriptor)
         /\ Ahead = HeaderLength + Descriptor[parse.at + 1].pos /\ Ahead \in Nat
<1> DEFINE d == Descriptor
<1>1. AddsUp(d) /\ parse.at \in 0 .. Len(d) /\ parse.ptr \in Nat
      /\ parse.ptr = HeaderLength + (IF parse.at = 0 THEN 0 ELSE d[parse.at].pos)
  BY Known DEF Based, Inside, Outer
<1>2. Len(d) \in Nat \ {0} /\ \A k \in 1 .. Len(d) : d[k].len \in Nat \ {0} /\ d[k].pos \in Nat
  BY <1>1, Fields
<1>3. parse.at < Len(d)
  <2>1. CASE parse.at = 0
    BY <1>2, <2>1
  <2>2. CASE parse.at # 0
    <3>1. parse.at \in 1 .. Len(d) /\ ~(parse.ptr >= wTotalLength(d))
      BY <1>1, <1>2, <2>2 DEF Outer, OuterEnds
    <3>2. /\ wTotalLength(d) \in Nat
          /\ HeaderLength + d[parse.at].pos < wTotalLength(d) => parse.at < Len(d)
      BY <1>1, <3>1, OuterGoesOn
    <3>3. QED
      BY <1>1, <2>2, <3>1, <3>2
  <2>3. QED
    BY <2>1, <2>2
<1>4. d[1].pos = 9 /\ \A k \in 1 .. Len(d) - 1 : d[k + 1].pos = d[k].pos + d[k].len
  BY <1>1 DEF AddsUp, HeaderLength
<1>5. Ahead = HeaderLength + d[parse.at + 1].pos
  <2>1. CASE parse.at = 0
    BY <1>1, <1>4, <2>1 DEF Ahead, HeaderLength
  <2>2. CASE parse.at # 0
    <3>1. parse.at \in 1 .. Len(d) - 1 /\ parse.at \in 1 .. Len(d)
      BY <1>1, <1>2, <1>3, <2>2
    <3>2. d[parse.at + 1].pos = d[parse.at].pos + d[parse.at].len
          /\ d[parse.at].pos \in Nat /\ d[parse.at].len \in Nat
      BY <1>2, <1>4, <3>1
    <3>3. Ahead = HeaderLength + d[parse.at].pos + d[parse.at].len
      BY <1>1, <2>2 DEF Ahead
    <3>4. QED
      BY <3>2, <3>3 DEF HeaderLength
  <2>3. QED
    BY <2>1, <2>2
<1>6. parse.at \in Nat /\ parse.at + 1 \in 1 .. Len(d)
  BY <1>1, <1>2, <1>3
<1>7. d[parse.at + 1].pos \in Nat
  BY <1>2, <1>6
<1>8. QED
  BY <1>5, <1>6, <1>7 DEF HeaderLength

\* So does a turn of the inner loop, and it looks at no interface.
LEMMA InnerTurn ==
  ASSUME Based, Inner
  PROVE  LET d == Descriptor
             i == parse.pif
         IN  /\ AddsUp(d) /\ bNumInterfaces(d) <= USBH_MAX_NUM_INTERFACES
             /\ parse.at \in Nat /\ parse.at + 1 \in i + 1 .. Len(d)
             /\ i \in 1 .. parse.at /\ i \in 1 .. Len(d) /\ IsItf(d[i]) /\ d[i].alt < 3
             /\ d[i].eps \in Nat /\ d[i].eps <= USBH_MAX_NUM_ENDPOINTS
             /\ \A j \in i + 1 .. parse.at + 1 : ~IsItf(d[j])
             /\ parse.ep_ix = Cardinality(OwnTo(d, i, parse.at))
             /\ parse.ep_ix \in Nat /\ parse.ep_ix < d[i].eps
             /\ Ahead = HeaderLength + d[parse.at + 1].pos /\ Ahead \in Nat
<1> DEFINE d == Descriptor
           i == parse.pif
<1>1. /\ AddsUp(d) /\ bNumInterfaces(d) <= USBH_MAX_NUM_INTERFACES
      /\ parse.at \in 0 .. Len(d) /\ parse.ptr \in Nat
      /\ parse.ptr = HeaderLength + (IF parse.at = 0 THEN 0 ELSE d[parse.at].pos)
  BY Known DEF Based, Inside, Inner
<1>2. /\ i \in 1 .. parse.at /\ IsItf(d[i]) /\ d[i].alt < 3 /\ ~TooMany(d[i])
      /\ \A j \in i + 1 .. parse.at : ~IsItf(d[j])
      /\ parse.ep_ix = Cardinality(OwnTo(d, i, parse.at)) /\ parse.ep_ix < d[i].eps
  BY DEF Based, Inside, Inner
<1>4. Len(d) \in Nat \ {0} /\ \A k \in 1 .. Len(d) : d[k].len \in Nat \ {0} /\ d[k].pos \in Nat
      /\ (IsItf(d[k]) => d[k].eps \in Nat)
  BY <1>1, Fields
<1>5. parse.at \in Nat /\ i \in 1 .. Len(d) /\ parse.at \in i .. Len(d)
  BY <1>1, <1>2, <1>4
<1>6. parse.at + 1 \in i + 1 .. Len(d) /\ ~IsItf(d[parse.at + 1])
  <2> HIDE DEF d, i
  <2>1. QED
    BY <1>1, <1>2, <1>5, Room
<1>7. \A j \in i + 1 .. parse.at + 1 : ~IsItf(d[j])
  BY <1>2, <1>5, <1>6
<1>8. d[i].eps \in Nat /\ d[i].eps <= USBH_MAX_NUM_ENDPOINTS
  BY <1>2, <1>4, <1>5 DEF TooMany, USBH_MAX_NUM_ENDPOINTS
<1>9. parse.ep_ix \in Nat
  BY <1>1, <1>2, <1>5, OwnFinite
<1>10. Ahead = HeaderLength + d[parse.at + 1].pos /\ Ahead \in Nat
  <2>1. parse.at \in 1 .. Len(d) - 1 /\ parse.at \in 1 .. Len(d) /\ parse.at # 0
        /\ parse.at + 1 \in 1 .. Len(d)
    BY <1>1, <1>2, <1>4, <1>5, <1>6
  <2>2. d[parse.at + 1].pos = d[parse.at].pos + d[parse.at].len
        /\ d[parse.at].pos \in Nat /\ d[parse.at].len \in Nat
    BY <1>1, <1>4, <2>1 DEF AddsUp
  <2>3. Ahead = HeaderLength + d[parse.at].pos + d[parse.at].len
    BY <1>1, <2>1 DEF Ahead
  <2>4. QED
    BY <2>2, <2>3 DEF HeaderLength
<1>11. QED
  BY <1>1, <1>2, <1>5, <1>6, <1>7, <1>8, <1>9, <1>10

-----------------------------------------------------------------------------
(* Each action keeps the state of the parser in order *)

\* What the parser leaves alone.
LEMMA SameDevice ==
  ASSUME Based, Outer \/ Inner \/ ParseEnd
  PROVE  /\ device' = device /\ Descriptor' = Descriptor /\ Dev_Desc' = Dev_Desc
         /\ stage = "parse" /\ device # "none" /\ AddsUp(Descriptor)
         /\ tainted' = tainted
<1>1. device' = device /\ Dev_Desc' = Dev_Desc /\ tainted' = tainted /\ stage = "parse"
  BY DEF Outer, Inner, ParseEnd, propVars, pastVars
<1>2. QED
  BY <1>1, Known DEF Descriptor

LEMMA RefuseBased ==
  ASSUME Based, Refuse, stage \in {"cfg_full", "parse"}, device' = device,
         tainted' \in BOOLEAN, UNCHANGED <<propVars, staticVars, pipeVars>>
  PROVE  Based'
<1>1. /\ device \in Devices \cup {"none"} /\ device # "none"
      /\ DOMAIN Itf_Desc = ItfNums /\ DOMAIN Ep_Desc = ItfNums
      /\ \A n \in ItfNums : DOMAIN Ep_Desc[n] = EpNums
      /\ prev_itf \in ItfNums /\ prev_ep_size \in Nat /\ supported \in BOOLEAN
      /\ Dev_Desc = [head |-> device, tail |-> device]
  BY DEF Based, DescTypeOK, Stages
<1>2. stage' = "cfg_full" /\ parse' = NoParse /\ rejected' = TRUE
  BY DEF Refuse
<1>3. DescTypeOK'
  BY <1>1, <1>2 DEF DescTypeOK, Stages, NoParse, propVars, staticVars, pipeVars
<1>4. Inside' /\ Statics' /\ Blame'
  BY <1>2 DEF Inside, Statics, Blame
<1>5. QED
  BY <1>1, <1>2, <1>3, <1>4 DEF Based, propVars

\* What a turn of the outer loop does to the parser's variables, unless the device
\* is refused.
LEMMA OuterParse ==
  ASSUME Based, Outer, ~Refuse, NEW m, m = parse.at + 1
  PROVE  /\ stage' = stage /\ rejected' = rejected
         /\ parse' \in [at : Nat, ptr : Nat, inner : BOOLEAN, pif : Nat, ep_ix : Nat]
         /\ parse'.at = m /\ parse'.ptr = Ahead
         /\ IF IsItf(pdesc) /\ pdesc.alt < 3 /\ pdesc.eps > 0
              THEN /\ parse'.inner /\ parse'.pif = m /\ parse'.ep_ix = 0
                   /\ ~TooMany(pdesc)
              ELSE ~parse'.inner
<1>1. parse.at \in Nat /\ m \in Nat /\ Ahead \in Nat
  BY OuterTurn
<1>2. CASE IsItf(pdesc) /\ pdesc.alt < 3
  <2> DEFINE more == pdesc.eps > 0
  <2>1. /\ ~TooMany(pdesc) /\ stage' = stage /\ rejected' = rejected
        /\ parse' = [at |-> m, ptr |-> Ahead, inner |-> more, pif |-> m, ep_ix |-> 0]
    BY <1>2 DEF Outer
  <2>2. more \in BOOLEAN
    OBVIOUS
  <2> HIDE DEF more
  <2>3. parse'.inner = more
    BY <2>1, <2>2
  <2>4. /\ parse' \in [at : Nat, ptr : Nat, inner : BOOLEAN, pif : Nat, ep_ix : Nat]
        /\ parse'.at = m /\ parse'.ptr = Ahead /\ parse'.pif = m /\ parse'.ep_ix = 0
    BY <1>1, <2>1, <2>2
  <2>5. QED
    BY <1>2, <2>1, <2>3, <2>4 DEF more
<1>3. CASE ~(IsItf(pdesc) /\ pdesc.alt < 3)
  <2>1. /\ stage' = stage /\ rejected' = rejected /\ parse.inner = FALSE
        /\ parse \in [at : Nat, ptr : Nat, inner : BOOLEAN, pif : Nat, ep_ix : Nat]
        /\ parse' = [parse EXCEPT !.at = m, !.ptr = Ahead]
    BY <1>3 DEF Outer, Based, DescTypeOK
  <2>2. QED
    BY <1>1, <1>3, <2>1
<1>4. QED
  BY <1>2, <1>3

LEMMA OuterBased ==
  ASSUME Based, Outer
  PROVE  Based'
<1>1. PICK d : d = Descriptor
  OBVIOUS
<1>2. PICK m : m = parse.at + 1
  OBVIOUS
<1>3. /\ device' = device /\ Descriptor' = d /\ Dev_Desc' = Dev_Desc
      /\ stage = "parse" /\ device # "none" /\ AddsUp(d) /\ tainted' = tainted
  BY <1>1, SameDevice
<1>4. m \in 1 .. Len(d) /\ parse.at \in Nat /\ Ahead = HeaderLength + d[m].pos /\ Ahead \in Nat
      /\ m \in Nat /\ m # 0
  BY <1>1, <1>2, OuterTurn
<1>5. bNumInterfaces(d) <= USBH_MAX_NUM_INTERFACES /\ Len(d) \in Nat
  BY <1>1, <1>3, Fields DEF Based, Inside
<1>6. UNCHANGED <<propVars, staticVars, pipeVars, tainted>> /\ ~parse.inner
  BY DEF Outer
<1>7. parse \in [at : Nat, ptr : Nat, inner : BOOLEAN, pif : Nat, ep_ix : Nat]
  BY DEF Based, DescTypeOK
<1>8. CASE Refuse
  BY <1>3, <1>6, <1>8, RefuseBased DEF Based, DescTypeOK
<1>9. ASSUME stage' = stage, rejected' = rejected,
             parse' \in [at : Nat, ptr : Nat, inner : BOOLEAN, pif : Nat, ep_ix : Nat],
             parse'.at = m, parse'.ptr = Ahead,
             parse'.inner => /\ parse'.pif = m /\ parse'.ep_ix = 0
                             /\ IsItf(d[m]) /\ d[m].alt < 3 /\ ~TooMany(d[m]) /\ d[m].eps > 0
      PROVE  Based'
  <2>1. DescTypeOK'
    BY <1>3, <1>4, <1>5, <1>6, <1>9
       DEF Based, DescTypeOK, propVars, staticVars, pipeVars
  <2>2. OwnTo(d, m, m) = {}
    BY <1>4 DEF OwnTo, Own
  <2>3. Cardinality(OwnTo(d, m, m)) = 0
    BY <2>2, FS_EmptySet
  <2>4. Inside'
    <3>1. m \in 0 .. Len(d)
      BY <1>4, <1>5
    <3>2. parse'.inner =>
            /\ parse'.pif \in 1 .. parse'.at
            /\ \A j \in parse'.pif + 1 .. parse'.at : ~IsItf(d[j])
      BY <1>4, <1>9
    <3>3. parse'.inner =>
            /\ parse'.ep_ix = Cardinality(OwnTo(d, parse'.pif, parse'.at))
            /\ parse'.ep_ix < d[parse'.pif].eps
      <4>1. ASSUME parse'.inner PROVE d[m].eps \in Nat
        BY <1>3, <1>4, <1>9, <4>1, Fields
      <4>2. QED
        BY <1>9, <2>3, <4>1
    <3>4. QED
      BY <1>3, <1>4, <1>5, <1>9, <3>1, <3>2, <3>3 DEF Inside
  <2>5. Statics' /\ Blame'
    BY <1>3, <1>9 DEF Statics, Blame, Based
  <2>6. QED
    BY <1>3, <1>9, <2>1, <2>4, <2>5 DEF Based
<1>10. CASE ~Refuse
  <2>1. pdesc = d[m]
    BY <1>1, <1>2 DEF pdesc
  <2>2. QED
    BY <1>2, <1>9, <1>10, <2>1, OuterParse
<1>11. QED
  BY <1>8, <1>10

\* What a turn of the inner loop does to its variables.
LEMMA InnerParse ==
  ASSUME Based, Inner
  PROVE  /\ parse' \in [at : Nat, ptr : Nat, inner : BOOLEAN, pif : Nat, ep_ix : Nat]
         /\ parse'.at = parse.at + 1 /\ parse'.ptr = Ahead /\ parse'.pif = parse.pif
         /\ \/ /\ IsEp(pdesc) /\ ~Smaller(pdesc) /\ StoreEndpoint(temp_pif.num, pdesc)
               /\ parse'.ep_ix = parse.ep_ix + 1
               /\ parse'.inner = (parse.ep_ix + 1 < temp_pif.eps)
            \/ /\ IsEp(pdesc) => Smaller(pdesc)
               /\ parse'.ep_ix = parse.ep_ix /\ parse'.inner = ~IsEp(pdesc)
               /\ UNCHANGED <<Itf_Desc, Ep_Desc, staticVars>>
<1> DEFINE P == [at : Nat, ptr : Nat, inner : BOOLEAN, pif : Nat, ep_ix : Nat]
<1>1. parse \in P /\ Ahead \in Nat /\ parse.at + 1 \in Nat
  BY InnerTurn DEF Based, DescTypeOK
<1> DEFINE next == parse.at + 1
<1>2. ASSUME NEW more \in BOOLEAN, NEW e \in Nat,
             parse' = [parse EXCEPT !.at = @ + 1, !.ptr = Ahead, !.ep_ix = e, !.inner = more]
      PROVE  /\ parse' \in P /\ parse'.at = parse.at + 1 /\ parse'.ptr = Ahead
             /\ parse'.pif = parse.pif /\ parse'.ep_ix = e /\ parse'.inner = more
  <2>1. parse' = [parse EXCEPT !.at = next, !.ptr = Ahead, !.ep_ix = e, !.inner = more]
    BY <1>2
  <2> HIDE DEF next
  <2>2. /\ parse' \in P /\ parse'.at = next /\ parse'.ptr = Ahead
        /\ parse'.pif = parse.pif /\ parse'.ep_ix = e /\ parse'.inner = more
    BY <1>1, <2>1 DEF next
  <2>3. QED
    BY <2>2 DEF next
<1>3. ASSUME NEW more \in BOOLEAN,
             parse' = [parse EXCEPT !.at = @ + 1, !.ptr = Ahead, !.inner = more]
      PROVE  /\ parse' \in P /\ parse'.at = parse.at + 1 /\ parse'.ptr = Ahead
             /\ parse'.pif = parse.pif /\ parse'.ep_ix = parse.ep_ix /\ parse'.inner = more
  <2>1. parse' = [parse EXCEPT !.at = next, !.ptr = Ahead, !.inner = more]
    BY <1>3
  <2> HIDE DEF next
  <2>2. /\ parse' \in P /\ parse'.at = next /\ parse'.ptr = Ahead
        /\ parse'.pif = parse.pif /\ parse'.ep_ix = parse.ep_ix /\ parse'.inner = more
    BY <1>1, <2>1 DEF next
  <2>3. QED
    BY <2>2 DEF next
<1>4. CASE IsEp(pdesc) /\ ~Smaller(pdesc) /\ StoreEndpoint(temp_pif.num, pdesc)
  <2> DEFINE more == parse.ep_ix + 1 < temp_pif.eps
             e == parse.ep_ix + 1
  <2>1. more \in BOOLEAN /\ e \in Nat
    BY <1>1
  <2>2. parse' = [parse EXCEPT !.at = @ + 1, !.ptr = Ahead, !.ep_ix = e, !.inner = more]
    BY <1>4 DEF StoreEndpoint
  <2> HIDE DEF more, e, P
  <2>3. /\ parse' \in P /\ parse'.at = parse.at + 1 /\ parse'.ptr = Ahead
        /\ parse'.pif = parse.pif /\ parse'.ep_ix = e /\ parse'.inner = more
    BY <1>2, <2>1, <2>2
  <2>4. QED
    BY <1>4, <2>3 DEF more, e, P
<1>5. CASE ~(IsEp(pdesc) /\ ~Smaller(pdesc) /\ StoreEndpoint(temp_pif.num, pdesc))
  <2> DEFINE more == ~IsEp(pdesc)
  <2>1. more \in BOOLEAN
    OBVIOUS
  <2>2. /\ IsEp(pdesc) => Smaller(pdesc)
        /\ parse' = [parse EXCEPT !.at = @ + 1, !.ptr = Ahead, !.inner = more]
        /\ UNCHANGED <<Itf_Desc, Ep_Desc, staticVars>>
    BY <1>5 DEF Inner
  <2> HIDE DEF more, P
  <2>3. /\ parse' \in P /\ parse'.at = parse.at + 1 /\ parse'.ptr = Ahead
        /\ parse'.pif = parse.pif /\ parse'.ep_ix = parse.ep_ix /\ parse'.inner = more
    BY <1>3, <2>1, <2>2
  <2>4. QED
    BY <2>2, <2>3 DEF more, P
<1>6. QED
  BY <1>4, <1>5

LEMMA InnerBased ==
  ASSUME Based, Inner
  PROVE  Based'
<1>1. PICK d : d = Descriptor
  OBVIOUS
<1>2. PICK m : m = parse.at + 1
  OBVIOUS
<1>3. PICK i : i = parse.pif
  OBVIOUS
<1>4. /\ device' = device /\ Descriptor' = d /\ Dev_Desc' = Dev_Desc
      /\ stage = "parse" /\ device # "none" /\ AddsUp(d) /\ tainted' = tainted
  BY <1>1, SameDevice
<1>5. /\ bNumInterfaces(d) <= USBH_MAX_NUM_INTERFACES
      /\ parse.at \in Nat /\ m \in i + 1 .. Len(d)
      /\ i \in 1 .. parse.at /\ i \in 1 .. Len(d) /\ IsItf(d[i]) /\ d[i].alt < 3
      /\ d[i].eps \in Nat /\ d[i].eps <= USBH_MAX_NUM_ENDPOINTS
      /\ \A j \in i + 1 .. m : ~IsItf(d[j])
      /\ parse.ep_ix = Cardinality(OwnTo(d, i, parse.at))
      /\ parse.ep_ix \in Nat /\ parse.ep_ix < d[i].eps
      /\ Ahead = HeaderLength + d[m].pos /\ Ahead \in Nat
  BY <1>1, <1>2, <1>3, InnerTurn
<1>6. /\ m \in 1 .. Len(d) /\ m \in 0 .. Len(d) /\ m # 0 /\ Len(d) \in Nat
      /\ parse.at \in i .. Len(d) - 1 /\ i \in 1 .. m
  BY <1>2, <1>4, <1>5, Fields
<1>7. /\ stage' = stage /\ rejected' = rejected /\ supported' = supported
      /\ pdesc = d[m] /\ temp_pif = d[i] /\ parse.inner
  BY <1>1, <1>2, <1>3 DEF Inner, pipeVars, pastVars, pdesc, temp_pif
<1>8. /\ parse' \in [at : Nat, ptr : Nat, inner : BOOLEAN, pif : Nat, ep_ix : Nat]
      /\ parse'.at = m /\ parse'.ptr = Ahead /\ parse'.pif = i
      /\ \/ /\ IsEp(d[m]) /\ ~Smaller(d[m]) /\ StoreEndpoint(d[i].num, d[m])
            /\ parse'.ep_ix = parse.ep_ix + 1
            /\ parse'.inner = (parse.ep_ix + 1 < d[i].eps)
         \/ /\ parse'.ep_ix = parse.ep_ix /\ parse'.inner = ~IsEp(d[m])
            /\ UNCHANGED <<Itf_Desc, Ep_Desc, staticVars>>
  BY <1>2, <1>3, <1>7, InnerParse
<1>9. Inside'
  <2>1. IF IsEp(d[m])
          THEN Cardinality(OwnTo(d, i, m)) = Cardinality(OwnTo(d, i, parse.at)) + 1
          ELSE OwnTo(d, i, m) = OwnTo(d, i, parse.at)
    BY <1>2, <1>4, <1>5, <1>6, OneMore
  <2>2. ASSUME parse'.inner
        PROVE  parse'.ep_ix = Cardinality(OwnTo(d, i, m)) /\ parse'.ep_ix < d[i].eps
    BY <1>5, <1>8, <2>1, <2>2
  <2>3. ~TooMany(d[i])
    BY <1>5 DEF TooMany, USBH_MAX_NUM_ENDPOINTS
  <2>4. QED
    BY <1>4, <1>5, <1>6, <1>7, <1>8, <2>2, <2>3 DEF Inside
<1>10. DescTypeOK'
  <2>1. /\ DOMAIN Itf_Desc = ItfNums /\ DOMAIN Ep_Desc = ItfNums
        /\ \A n \in ItfNums : DOMAIN Ep_Desc[n] = EpNums
        /\ prev_itf \in ItfNums /\ prev_ep_size \in Nat
        /\ device \in Devices \cup {"none"}
        /\ stage \in Stages \cup {"none"}
        /\ supported \in BOOLEAN /\ rejected \in BOOLEAN /\ tainted \in BOOLEAN
    BY DEF Based, DescTypeOK
  <2>2. /\ DOMAIN Itf_Desc' = ItfNums /\ DOMAIN Ep_Desc' = ItfNums
        /\ \A n \in ItfNums : DOMAIN Ep_Desc'[n] = EpNums
        /\ prev_itf' \in ItfNums /\ prev_ep_size' \in Nat
    <3>1. CASE UNCHANGED <<Itf_Desc, Ep_Desc, staticVars>>
      BY <2>1, <3>1 DEF staticVars
    <3>2. CASE IsEp(d[m]) /\ StoreEndpoint(d[i].num, d[m])
      <4>1. PICK n : n = d[i].num
        OBVIOUS
      <4>2. n \in ItfNums
        BY <1>4, <1>5, <4>1, NumOfItf
      <4>3. parse.ep_ix \in EpNums
        BY <1>5 DEF EpNums, USBH_MAX_NUM_ENDPOINTS
      <4>4. d[m].size \in Nat
        BY <1>4, <1>6, <3>2, Fields
      <4>5. /\ Itf_Desc' = Put(Itf_Desc, n, d[i])
            /\ Ep_Desc' = [Ep_Desc EXCEPT ![n] = Put(Ep_Desc[n], parse.ep_ix, d[m])]
            /\ prev_itf' = n /\ prev_ep_size' = d[m].size
        BY <1>7, <2>1, <3>2, <4>1, <4>2 DEF StoreEndpoint
      <4>6. DOMAIN Put(Itf_Desc, n, d[i]) = ItfNums
        BY <2>1, <4>2 DEF Put
      <4>7. DOMAIN Put(Ep_Desc[n], parse.ep_ix, d[m]) = EpNums
        BY <2>1, <4>2, <4>3 DEF Put
      <4>8. QED
        BY <2>1, <4>2, <4>4, <4>5, <4>6, <4>7
    <3>3. QED
      BY <1>8, <3>1, <3>2
  <2>3. QED
    BY <1>4, <1>5, <1>6, <1>7, <1>8, <2>1, <2>2 DEF DescTypeOK
<1>11. Statics' /\ Blame'
  BY <1>4, <1>7 DEF Based, Statics, Blame
<1>12. QED
  BY <1>4, <1>7, <1>9, <1>10, <1>11 DEF Based

LEMMA ParseEndBased ==
  ASSUME Based, ParseEnd
  PROVE  Based'
<1>1. /\ device' = device /\ Descriptor' = Descriptor /\ Dev_Desc' = Dev_Desc
      /\ stage = "parse" /\ device # "none" /\ tainted' = tainted
  BY SameDevice
<1>2. /\ stage' = "input" /\ parse' = NoParse /\ rejected' = FALSE
      /\ prev_itf' = 0 /\ prev_ep_size' = 0
      /\ UNCHANGED <<propVars, pipeVars>>
  BY DEF ParseEnd, SizeAfter
<1>3. DescTypeOK'
  <2>1. 0 \in ItfNums /\ 0 \in Nat
    BY DEF ItfNums, USBH_MAX_NUM_INTERFACES
  <2>2. NoParse \in [at : Nat, ptr : Nat, inner : BOOLEAN, pif : Nat, ep_ix : Nat]
    BY DEF NoParse
  <2>3. QED
    BY <1>1, <1>2, <2>1, <2>2 DEF Based, DescTypeOK, Stages, propVars, pipeVars
<1>4. Inside' /\ Statics' /\ Blame'
  BY <1>2 DEF Inside, Statics, Blame
<1>5. QED
  BY <1>1, <1>2, <1>3, <1>4 DEF Based, Stages

\* The actions that leave the parser alone.
LEMMA OtherBased ==
  ASSUME Based, \/ \E kind \in Devices : Attach(kind)
                \/ GetDevDesc \/ GetCfgDesc \/ GetFullCfgDesc \/ InterfaceInit \/ Detach
  PROVE  Based'
<1> USE DEF propVars, staticVars, pipeVars, pastVars, Stages
<1>1. ASSUME NEW kind \in Devices, Attach(kind) PROVE Based'
  <2>1. DescTypeOK' /\ kind # "none" /\ stage = "none"
    BY <1>1, CfgDescAssumption DEF Based, DescTypeOK, Attach
  <2>2. Inside' /\ Statics' /\ Blame'
    BY <1>1, <2>1 DEF Based, Attach, Inside, Statics, Blame
  <2>3. QED
    BY <1>1, <2>1, <2>2 DEF Based, Attach
<1>2. CASE GetDevDesc
  <2>1. DescTypeOK'
    BY <1>2 DEF Based, DescTypeOK, GetDevDesc
  <2>2. Inside' /\ Statics' /\ Blame'
    BY <1>2 DEF Based, GetDevDesc, Inside, Statics, Blame
  <2>3. device' = device /\ stage' \in {"dev_full", "cfg"} /\ device # "none"
    BY <1>2 DEF Based, GetDevDesc
  <2>4. /\ Dev_Desc'.head = device
        /\ stage' = "cfg" => Dev_Desc' = [head |-> device, tail |-> device]
    BY <1>2 DEF GetDevDesc, ParseDevDesc
  <2>5. QED
    BY <2>1, <2>2, <2>3, <2>4 DEF Based
<1>3. CASE GetCfgDesc
  <2>1. DescTypeOK'
    BY <1>3 DEF Based, DescTypeOK, GetCfgDesc
  <2>2. Inside' /\ Statics' /\ Blame'
    BY <1>3 DEF Based, GetCfgDesc, Inside, Statics, Blame
  <2>3. QED
    BY <1>3, <2>1, <2>2 DEF Based, GetCfgDesc
<1>4. CASE GetFullCfgDesc
  <2>1. CASE Refuse
    BY <1>4, <2>1, RefuseBased DEF GetFullCfgDesc, Based, DescTypeOK
  <2>2. CASE ~Refuse
    <3>1. /\ ~(bNumInterfaces(Descriptor) > USBH_MAX_NUM_INTERFACES)
          /\ parse' = [NoParse EXCEPT !.ptr = HeaderLength] /\ stage' = "parse"
          /\ stage = "cfg_full" /\ device' = device /\ rejected' = rejected
          /\ tainted' = rejected
      BY <1>4, <2>2 DEF GetFullCfgDesc
    <3>2. parse' = [at |-> 0, ptr |-> 9, inner |-> FALSE, pif |-> 0, ep_ix |-> 0]
      BY <3>1 DEF NoParse, HeaderLength
    <3>3. AddsUp(Descriptor) /\ device # "none"
      BY <3>1, Known
    <3>4. Len(Descriptor) \in Nat
      BY <3>3, Fields
    <3>5. Descriptor' = Descriptor
      BY <3>1 DEF Descriptor
    <3>6. bNumInterfaces(Descriptor) <= USBH_MAX_NUM_INTERFACES
      <4>1. bNumInterfaces(Descriptor) \in Nat
        BY <3>3, ItfCount
      <4>2. QED
        BY <3>1, <4>1 DEF USBH_MAX_NUM_INTERFACES
    <3>7. Inside'
      <4>1. 0 \in 0 .. Len(Descriptor) /\ 9 \in Nat /\ 9 + 0 = 9
        BY <3>4
      <4>2. parse'.at = 0 /\ parse'.ptr = 9 /\ parse'.inner = FALSE
        BY <3>2
      <4>3. parse'.ptr = HeaderLength + (IF parse'.at = 0 THEN 0 ELSE Descriptor'[parse'.at].pos)
        BY <4>1, <4>2 DEF HeaderLength
      <4>4. parse'.at \in 0 .. Len(Descriptor') /\ parse'.ptr \in Nat
            /\ bNumInterfaces(Descriptor') <= USBH_MAX_NUM_INTERFACES
        BY <3>5, <3>6, <4>1, <4>2
      <4>5. QED
        BY ONLY <3>1, <4>2, <4>3, <4>4 DEF Inside
    <3>8. DescTypeOK'
      <4>1. parse' \in [at : Nat, ptr : Nat, inner : BOOLEAN, pif : Nat, ep_ix : Nat]
        BY <3>2
      <4>2. parse'.at <= Len(Descriptor')
        BY <3>2, <3>4, <3>5
      <4>3. QED
        BY <1>4, <3>1, <4>1, <4>2 DEF Based, DescTypeOK, GetFullCfgDesc
    <3>9. Statics' /\ Blame'
      BY <3>1 DEF Statics, Blame
    <3>10. QED
      BY <1>4, <3>1, <3>3, <3>7, <3>8, <3>9 DEF Based, GetFullCfgDesc
  <2>3. QED
    BY <2>1, <2>2
<1>5. CASE InterfaceInit
  <2>1. DescTypeOK'
    BY <1>5 DEF Based, DescTypeOK, InterfaceInit
  <2>2. Inside' /\ Statics' /\ Blame'
    BY <1>5 DEF Based, InterfaceInit, Inside, Statics, Blame
  <2>3. QED
    BY <1>5, <2>1, <2>2 DEF Based, InterfaceInit
<1>6. CASE Detach
  <2>1. DescTypeOK'
    <3>1. CASE UNCHANGED <<propVars, staticVars, pipeVars, pastVars>>
      BY <1>6, <3>1 DEF Based, DescTypeOK, Detach
    <3>2. CASE Cleared
      <4>1. 0 \in ItfNums /\ 0 \in Nat
        BY DEF ItfNums, USBH_MAX_NUM_INTERFACES
      <4>2. /\ DOMAIN Itf_Desc' = ItfNums /\ DOMAIN Ep_Desc' = ItfNums
            /\ \A n \in ItfNums : DOMAIN Ep_Desc'[n] = EpNums
        BY <3>2 DEF Cleared
      <4>3. QED
        BY <1>6, <3>2, <4>1, <4>2 DEF Based, DescTypeOK, Detach, Cleared
    <3>3. QED
      BY <1>6, <3>1, <3>2 DEF Detach
  <2>2. Inside' /\ Statics' /\ Blame'
    BY <1>6 DEF Based, Detach, Cleared, Inside, Statics, Blame
  <2>3. QED
    BY <1>6, <2>1, <2>2 DEF Based, Detach
<1>7. QED
  BY <1>1, <1>2, <1>3, <1>4, <1>5, <1>6

LEMMA BasedKept ==
  ASSUME Based, [DescNext]_descVars
  PROVE  Based'
<1>1. CASE Outer
  BY <1>1, OuterBased
<1>2. CASE Inner
  BY <1>2, InnerBased
<1>3. CASE ParseEnd
  BY <1>3, ParseEndBased
<1>4. CASE \/ \E kind \in Devices : Attach(kind)
           \/ GetDevDesc \/ GetCfgDesc \/ GetFullCfgDesc \/ InterfaceInit \/ Detach
  BY <1>4, OtherBased
<1>5. CASE UNCHANGED descVars
  BY <1>5 DEF descVars, propVars, staticVars, pipeVars, pastVars, Based, DescTypeOK,
              Inside, Statics, Blame, Descriptor
<1>6. QED
  BY <1>1, <1>2, <1>3, <1>4, <1>5 DEF DescNext


-----------------------------------------------------------------------------
(* What is kept of a plain device *)

LEMMA SettingsOf ==
  ASSUME NEW d, AddsUp(d), NEW n, NEW i
  PROVE  i \in Settings(d, n) <=>
           i \in 1 .. Len(d) /\ IsItf(d[i]) /\ d[i].num = n /\ d[i].alt < 3
BY Fields DEF Settings

LEMMA PlainSetting ==
  ASSUME NEW d, AddsUp(d), Plain(d), NEW i \in 1 .. Len(d), IsItf(d[i])
  PROVE  d[i].eps > 0 /\ Rising(d, i)
BY Fields DEF Plain

\* The size of an endpoint is a number.
LEMMA OwnSize ==
  ASSUME NEW d, AddsUp(d), NEW i \in 1 .. Len(d), NEW k \in Own(d, i)
  PROVE  d[k].size \in Nat /\ d[k].dir \in {"in", "out"} /\ k \in 1 .. Len(d)
<1>1. k \in 1 .. Len(d) /\ IsEp(d[k])
  BY Fields DEF Own
<1>2. QED
  BY <1>1, Fields

\* At a stage where none of it says anything.
LEMMA NothingYet ==
  ASSUME NEW d, stage' \notin {"parse", "input", "class"}
  PROVE  Followed(d)'
BY DEF Followed, JudgedByItself, LargestKept

LEMMA ParseBegins ==
  ASSUME NEW d, d = Descriptor, Based, Plain(d), GetFullCfgDesc, ~tainted'
  PROVE  Followed(d)'
<1>1. CASE Refuse
  BY <1>1, NothingYet DEF Refuse
<1>2. CASE ~Refuse
  <2>1. /\ stage = "cfg_full" /\ stage' = "parse" /\ ~rejected
        /\ parse' = [NoParse EXCEPT !.ptr = HeaderLength]
        /\ UNCHANGED <<device, Itf_Desc, Ep_Desc, staticVars>>
    BY <1>2 DEF GetFullCfgDesc, propVars
  <2>2. prev_ep_size = 0 /\ prev_itf = 0
    BY <2>1 DEF Based, Statics
  <2>3. prev_ep_size' = 0 /\ prev_itf' = 0 /\ parse'.at = 0 /\ parse'.inner = FALSE
    BY <2>1, <2>2 DEF staticVars, NoParse
  <2>4. AddsUp(d)
    BY <2>1, Known
  <2>5. \A n : \A i \in Settings(d, n) : ~(i <= 0)
    <3>1. \A n : \A i \in Settings(d, n) : i \in 1 .. Len(d)
      BY <2>4, SettingsOf
    <3>2. QED
      BY <2>4, <3>1, Fields
  <2>6. Passed(d)'
    BY <2>3, <2>5 DEF Passed, Halfway
  <2>7. Largest(d)'
    BY <2>3, <2>5 DEF Largest
  <2>8. QED
    BY <2>1, <2>6, <2>7 DEF Followed, JudgedByItself, LargestKept
<1>3. QED
  BY <1>1, <1>2

\* Nothing is stored in a turn of the outer loop, and no endpoint of the interface it
\* comes to was looked at.
LEMMA OuterFollowed ==
  ASSUME NEW d, d = Descriptor, Based, Plain(d), Followed(d), Outer
  PROVE  Followed(d)'
<1>1. PICK m : m = parse.at + 1
  OBVIOUS
<1>2. /\ AddsUp(d) /\ stage = "parse" /\ Descriptor' = d /\ m \in 1 .. Len(d)
      /\ parse.at \in Nat /\ pdesc = d[m] /\ ~parse.inner /\ Len(d) \in Nat
  BY <1>1, SameDevice, OuterTurn, Fields DEF Outer, pdesc
<1>3. UNCHANGED <<Itf_Desc, Ep_Desc, prev_ep_size, prev_itf>>
  BY DEF Outer, propVars, staticVars
<1>4. CASE Refuse
  BY <1>4, NothingYet DEF Refuse
<1>5. CASE ~Refuse
  <2>1. /\ stage' = stage /\ parse'.at = m
        /\ IF IsItf(d[m]) /\ d[m].alt < 3 /\ d[m].eps > 0
             THEN parse'.inner /\ parse'.pif = m /\ parse'.ep_ix = 0
             ELSE ~parse'.inner
    BY <1>1, <1>2, <1>5, OuterParse
  <2>2. ~Halfway' /\ ~Halfway
    BY <1>2, <2>1 DEF Halfway
  <2>3. ASSUME NEW n, NEW i \in Settings(d, n), i <= m, ~(parse'.inner /\ parse'.pif = i)
        PROVE  i <= parse.at
    <3>1. i \in 1 .. Len(d) /\ IsItf(d[i]) /\ d[i].alt < 3
      BY <1>2, SettingsOf
    <3>2. d[i].eps > 0
      BY <1>2, <3>1, PlainSetting
    <3>3. i # m
      BY <2>1, <2>3, <3>1, <3>2
    <3>4. QED
      BY <1>1, <1>2, <2>3, <3>1, <3>3
  <2>4. Passed(d)'
    <3>1. ASSUME NEW n \in ItfNums,
                 \/ \E i \in Settings(d, n) : i <= m /\ ~(parse'.inner /\ parse'.pif = i)
                 \/ prev_itf = n /\ prev_ep_size > 0
          PROVE  Kept(d, n)'
      <4>1. \/ \E i \in Settings(d, n) : i <= parse.at /\ ~(parse.inner /\ parse.pif = i)
            \/ prev_itf = n /\ prev_ep_size > 0
        BY <1>2, <2>3, <3>1
      <4>2. Kept(d, n)
        BY <1>2, <2>2, <4>1 DEF Followed, Passed
      <4>3. QED
        BY <1>3, <4>2 DEF Kept, Whole
    <3>2. QED
      BY <1>3, <2>1, <2>2, <3>1 DEF Passed
  <2>5. ASSUME Uniform(d) PROVE Largest(d)'
    <3>1. {i \in Settings(d, 1) : i <= parse'.at
             /\ ~(parse'.inner /\ parse'.pif = i /\ parse'.ep_ix = 0)}
          = {i \in Settings(d, 1) : i <= parse.at
               /\ ~(parse.inner /\ parse.pif = i /\ parse.ep_ix = 0)}
      <4>1. ASSUME NEW i \in Settings(d, 1)
            PROVE  i <= m /\ ~(parse'.inner /\ parse'.pif = i /\ parse'.ep_ix = 0)
                     <=> i <= parse.at
        <5>1. i \in 1 .. Len(d)
          BY <1>2, SettingsOf
        <5>2. i <= parse.at => i <= m /\ i # m
          BY <1>1, <1>2, <5>1
        <5>3. parse'.inner => parse'.pif = m /\ parse'.ep_ix = 0
          BY <2>1
        <5>4. QED
          BY <2>3, <5>2, <5>3
      <4>2. QED
        BY <1>2, <2>1, <4>1
    <3>2. Largest(d)
      BY <1>2, <2>5 DEF Followed
    <3>3. QED
      BY <1>3, <3>1, <3>2 DEF Largest, LargestOf
  <2>6. QED
    BY <1>2, <2>1, <2>4, <2>5 DEF Followed, JudgedByItself, LargestKept
<1>6. QED
  BY <1>4, <1>5

\* The parser ends behind the last interface.
LEMMA EndFollowed ==
  ASSUME NEW d, d = Descriptor, Based, Followed(d), ParseEnd
  PROVE  Followed(d)'
<1>1. /\ AddsUp(d) /\ stage = "parse" /\ ~parse.inner /\ Len(d) \in Nat \ {0}
      /\ parse.at \in 0 .. Len(d) /\ parse.ptr >= wTotalLength(d)
      /\ parse.ptr = HeaderLength + (IF parse.at = 0 THEN 0 ELSE d[parse.at].pos)
  BY SameDevice, Fields DEF ParseEnd, OuterEnds, Based, Inside
<1>2. UNCHANGED <<Itf_Desc, Ep_Desc>> /\ stage' = "input"
  BY DEF ParseEnd, propVars
<1>3. parse.at \in 1 .. Len(d)
  <2>1. SUFFICES ASSUME parse.at = 0 PROVE FALSE
    BY <1>1
  <2>2. 1 \in 1 .. Len(d) /\ HeaderLength = 9
    BY <1>1 DEF HeaderLength
  <2>3. d[1].pos = 9 /\ d[1].pos \in Nat /\ d[1].len \in Nat \ {0}
        /\ d[Len(d)].pos \in Nat /\ d[Len(d)].len \in Nat \ {0}
        /\ wTotalLength(d) = d[Len(d)].pos + d[Len(d)].len
    BY <1>1, <2>2, Fields DEF AddsUp, wTotalLength
  <2>4. Len(d) = 1 \/ d[Len(d)].pos >= d[1].pos + d[1].len
    <3>1. CASE Len(d) # 1
      <4>1. PICK l : l = Len(d)
        OBVIOUS
      <4>2. 1 < l /\ l \in 1 .. Len(d)
        BY <1>1, <3>1, <4>1
      <4>3. d[l].pos >= d[1].pos + d[1].len
        BY <1>1, <2>2, <4>2, OneBehind
      <4>4. QED
        BY <4>1, <4>3
    <3>2. QED
      BY <3>1
  <2>5. QED
    BY <1>1, <2>1, <2>2, <2>3, <2>4
<1>4. ASSUME NEW n, NEW i \in Settings(d, n) PROVE i <= parse.at
  <2>1. i \in 1 .. Len(d) /\ IsItf(d[i])
    BY <1>1, SettingsOf
  <2>2. /\ wTotalLength(d) \in Nat
        /\ i \in parse.at + 1 .. Len(d) => HeaderLength + d[parse.at].pos < wTotalLength(d)
    BY <1>1, <1>3, <2>1, OuterGoesOn
  <2>3. parse.ptr = HeaderLength + d[parse.at].pos /\ d[parse.at].pos \in Nat
    BY <1>1, <1>3, Fields
  <2>4. ~(i \in parse.at + 1 .. Len(d))
    BY <1>1, <2>2, <2>3 DEF HeaderLength
  <2>5. QED
    BY <1>1, <1>3, <2>1, <2>4
<1>5. ASSUME NEW n \in ItfNums, Settings(d, n) # {} PROVE Kept(d, n)'
  <2>1. Kept(d, n)
    BY <1>1, <1>4, <1>5 DEF Followed, Passed, Halfway
  <2>2. QED
    BY <1>2, <2>1 DEF Kept, Whole
<1>6. ASSUME Uniform(d) PROVE LargestOf(d, Settings(d, 1))'
  <2>1. Settings(d, 1) = {i \in Settings(d, 1) : i <= parse.at
                            /\ ~(parse.inner /\ parse.pif = i /\ parse.ep_ix = 0)}
    BY <1>1, <1>4
  <2>2. Largest(d)
    BY <1>1, <1>6 DEF Followed
  <2>3. LargestOf(d, Settings(d, 1))
    BY <2>1, <2>2 DEF Largest, LargestOf
  <2>4. QED
    BY <1>2, <2>3 DEF LargestOf
<1>7. QED
  BY <1>2, <1>5, <1>6 DEF Followed, JudgedByItself, LargestKept

\* One entry more.
LEMMA EntriesPut ==
  ASSUME NEW array, NEW e \in Nat, NEW x, \A j \in 0 .. e - 1 : j \in DOMAIN array
  PROVE  /\ Entries(Put(array, e, x), e + 1) = Entries(array, e) \cup {x}
         /\ Entries(array, 0) = {}
         /\ e > 0 => Put(array, e, x)[0] = array[0]
         /\ Put(array, e, x)[e] = x
<1>1. \A j \in 0 .. e - 1 : Put(array, e, x)[j] = array[j]
  BY DEF Put
<1>2. Put(array, e, x)[e] = x
  BY DEF Put
<1>3. 0 .. (e + 1) - 1 = (0 .. e - 1) \cup {e} /\ 0 .. 0 - 1 = {}
  OBVIOUS
<1>4. e > 0 => 0 \in 0 .. e - 1
  OBVIOUS
<1>5. QED
  BY <1>1, <1>2, <1>3, <1>4 DEF Entries

\* What a turn of the inner loop leaves of the settings that were passed: all but the
\* one it is at, of which an endpoint is stored or nothing.
LEMMA InnerSettings ==
  ASSUME NEW d, d = Descriptor, Based, Inner, NEW i, i = parse.pif,
         NEW m, m = parse.at + 1
  PROVE  /\ i \in Settings(d, d[i].num) /\ d[i].num \in ItfNums
         /\ \A n : \A j \in Settings(d, n) : j <= m /\ j # i =>
              j < i /\ j <= parse.at /\ j \in 1 .. Len(d)
         /\ IF IsEp(d[m])
              THEN /\ m \in Own(d, i) /\ d[m].size \in Nat
                   /\ OwnTo(d, i, m) = OwnTo(d, i, parse.at) \cup {m}
              ELSE OwnTo(d, i, m) = OwnTo(d, i, parse.at)
         /\ parse.ep_ix = 0 => OwnTo(d, i, parse.at) = {}
         /\ \A k \in OwnTo(d, i, parse.at) : k \in Own(d, i) /\ k < m
<1>1. /\ AddsUp(d) /\ bNumInterfaces(d) <= USBH_MAX_NUM_INTERFACES
      /\ parse.at \in Nat /\ m \in i + 1 .. Len(d)
      /\ i \in 1 .. parse.at /\ i \in 1 .. Len(d) /\ IsItf(d[i]) /\ d[i].alt < 3
      /\ \A j \in i + 1 .. m : ~IsItf(d[j])
      /\ parse.ep_ix = Cardinality(OwnTo(d, i, parse.at))
  BY InnerTurn
<1>2. m \in 1 .. Len(d) /\ Len(d) \in Nat /\ parse.at \in i .. Len(d) - 1 /\ m \in Nat
  BY <1>1, Fields
<1>3. i \in Settings(d, d[i].num) /\ d[i].num \in ItfNums
  BY <1>1, SettingsOf, NumOfItf
<1>4. ASSUME NEW n, NEW j \in Settings(d, n), j <= m, j # i
      PROVE  j < i /\ j <= parse.at /\ j \in 1 .. Len(d)
  <2>1. j \in 1 .. Len(d) /\ IsItf(d[j])
    BY <1>1, SettingsOf
  <2>2. ~(j \in i + 1 .. m)
    BY <1>1, <2>1
  <2>3. QED
    BY <1>1, <1>2, <1>4, <2>1, <2>2
<1>5. IF IsEp(d[m])
        THEN m \in Own(d, i) /\ OwnTo(d, i, m) = OwnTo(d, i, parse.at) \cup {m}
        ELSE OwnTo(d, i, m) = OwnTo(d, i, parse.at)
  BY <1>1, <1>2, OneMore
<1>6. IsEp(d[m]) => d[m].size \in Nat
  BY <1>1, <1>2, Fields
<1>7. parse.ep_ix = 0 => OwnTo(d, i, parse.at) = {}
  BY <1>1, OwnFinite, FS_EmptySet
<1>8. ASSUME NEW k \in OwnTo(d, i, parse.at) PROVE k \in Own(d, i) /\ k < m
  <2>1. k \in Own(d, i) /\ k <= parse.at /\ k \in 1 .. Len(d)
    BY <1>1, OwnFinite DEF OwnTo
  <2>2. QED
    BY <1>1, <1>2, <2>1
<1>9. QED
  BY <1>3, <1>4, <1>5, <1>6, <1>7, <1>8

LEMMA StoreFollowed ==
  ASSUME NEW d, d = Descriptor, Based, Plain(d), Followed(d), Inner,
         IsEp(pdesc), ~Smaller(pdesc), StoreEndpoint(temp_pif.num, pdesc),
         parse'.at = parse.at + 1, parse'.pif = parse.pif,
         parse'.ep_ix = parse.ep_ix + 1,
         parse'.inner <=> parse.ep_ix + 1 < temp_pif.eps
  PROVE  Followed(d)'
<1>1. PICK m : m = parse.at + 1
  OBVIOUS
<1>2. PICK i : i = parse.pif
  OBVIOUS
<1>3. PICK n : n = d[i].num
  OBVIOUS
<1>4. PICK e : e = parse.ep_ix
  OBVIOUS
<1>5. /\ AddsUp(d) /\ stage = "parse" /\ stage' = "parse" /\ Descriptor' = d
      /\ parse.inner /\ pdesc = d[m] /\ temp_pif = d[i] /\ IsEp(d[m])
      /\ parse'.at = m /\ parse'.pif = i /\ parse'.ep_ix = e + 1 /\ temp_pif' = d[i]
      /\ parse'.inner <=> e + 1 < d[i].eps
  BY <1>1, <1>2, <1>4, SameDevice DEF Inner, pdesc, temp_pif
<1>6. /\ i \in Settings(d, n) /\ n \in ItfNums
      /\ \A n2 : \A j \in Settings(d, n2) : j <= m /\ j # i =>
           j < i /\ j <= parse.at /\ j \in 1 .. Len(d)
      /\ m \in Own(d, i) /\ d[m].size \in Nat
      /\ OwnTo(d, i, m) = OwnTo(d, i, parse.at) \cup {m}
      /\ e = 0 => OwnTo(d, i, parse.at) = {}
      /\ \A k \in OwnTo(d, i, parse.at) : k \in Own(d, i) /\ k < m
  BY <1>1, <1>2, <1>3, <1>4, <1>5, InnerSettings
<1>7. /\ i \in 1 .. Len(d) /\ IsItf(d[i]) /\ d[i].alt < 3 /\ i \in Nat /\ parse.at \in Nat
      /\ d[i].eps \in Nat /\ d[i].eps <= 3 /\ e \in Nat /\ e < d[i].eps
      /\ e = Cardinality(OwnTo(d, i, parse.at)) /\ m \in Nat /\ i <= parse.at
      /\ bNumInterfaces(d) <= USBH_MAX_NUM_INTERFACES
  BY <1>1, <1>2, <1>4, InnerTurn DEF USBH_MAX_NUM_ENDPOINTS
<1>8. /\ DOMAIN Ep_Desc = ItfNums /\ DOMAIN Itf_Desc = ItfNums /\ DOMAIN Ep_Desc[n] = 0 .. 2
      /\ prev_itf \in ItfNums /\ prev_ep_size \in Nat
  BY <1>6 DEF Based, DescTypeOK, EpNums, USBH_MAX_NUM_ENDPOINTS
<1>9. /\ Itf_Desc'[n] = d[i] /\ Ep_Desc'[n] = Put(Ep_Desc[n], e, d[m])
      /\ \A n2 \in ItfNums : n2 # n => Itf_Desc'[n2] = Itf_Desc[n2] /\ Ep_Desc'[n2] = Ep_Desc[n2]
      /\ prev_itf' = n /\ prev_ep_size' = d[m].size
  BY <1>3, <1>4, <1>5, <1>6, <1>8 DEF StoreEndpoint, Put
<1>10. /\ Entries(Ep_Desc'[n], e + 1) = Entries(Ep_Desc[n], e) \cup {d[m]}
       /\ Entries(Ep_Desc[n], 0) = {}
       /\ e > 0 => Ep_Desc'[n][0] = Ep_Desc[n][0]
       /\ Ep_Desc'[n][e] = d[m]
  <2>1. PICK array : array = Ep_Desc[n]
    OBVIOUS
  <2>2. PICK x : x = d[m]
    OBVIOUS
  <2>3. e \in Nat /\ \A j \in 0 .. e - 1 : j \in DOMAIN array
    BY <1>7, <1>8, <2>1
  <2>4. /\ Entries(Put(array, e, x), e + 1) = Entries(array, e) \cup {x}
        /\ Entries(array, 0) = {}
        /\ e > 0 => Put(array, e, x)[0] = array[0]
        /\ Put(array, e, x)[e] = x
    BY <2>3, EntriesPut
  <2>5. QED
    BY <1>9, <2>1, <2>2, <2>4
<1>11. e > 0 => /\ Entries(Ep_Desc[n], e) = {d[k] : k \in OwnTo(d, i, parse.at)}
                /\ Halfway
  BY <1>2, <1>3, <1>4, <1>5 DEF Followed, Passed, Halfway
<1>12. Entries(Ep_Desc'[n], e + 1) = {d[k] : k \in OwnTo(d, i, m)}
  <2>1. CASE e = 0
    <3>1. OwnTo(d, i, m) = {m}
      BY <1>6, <2>1
    <3>2. Entries(Ep_Desc'[n], e + 1) = {d[m]}
      BY <1>10, <2>1
    <3>3. QED
      BY <3>1, <3>2
  <2>2. CASE e > 0
    <3>1. Entries(Ep_Desc[n], e) = {d[k] : k \in OwnTo(d, i, parse.at)}
      BY <1>11, <2>2
    <3>2. {d[k] : k \in OwnTo(d, i, m)} = {d[k] : k \in OwnTo(d, i, parse.at)} \cup {d[m]}
      BY <1>6
    <3>3. QED
      BY <1>10, <3>1, <3>2
  <2>3. QED
    BY <1>7, <2>1, <2>2
\* The last of its endpoints.
<1>13. ASSUME ~parse'.inner PROVE Kept(d, n)'
  <2>1. d[i].eps = e + 1
    BY <1>5, <1>7, <1>13
  <2>2. OwnTo(d, i, m) = Own(d, i)
    <3>1. Cardinality(OwnTo(d, i, m)) = e + 1
      <4>1. /\ \A j \in i + 1 .. m : ~IsItf(d[j])
            /\ parse.at \in i .. Len(d) - 1
        <5>1. /\ \A j \in i + 1 .. m : ~IsItf(d[j])
              /\ m \in i + 1 .. Len(d)
          BY <1>1, <1>2, InnerTurn
        <5>2. Len(d) \in Nat
          BY <1>5, Fields
        <5>3. QED
          BY <1>1, <1>7, <5>1, <5>2
      <4>2. QED
        BY <1>1, <1>5, <1>7, <4>1, OneMore
    <3>2. QED
      BY <1>5, <1>7, <2>1, <3>1, AllSeen
  <2>3. QED
    BY <1>3, <1>6, <1>9, <1>12, <2>1, <2>2 DEF Kept, Whole
<1>14. Passed(d)'
  <2>1. ASSUME NEW n2 \in ItfNums, ~(Halfway' /\ n = n2),
               \/ \E j \in Settings(d, n2) : j <= m /\ ~(parse'.inner /\ i = j)
               \/ n = n2 /\ d[m].size > 0
        PROVE  Kept(d, n2)'
    <3>1. CASE n2 = n
      <4>1. ~parse'.inner
        BY <1>5, <1>7, <2>1, <3>1 DEF Halfway
      <4>2. QED
        BY <1>13, <3>1, <4>1
    <3>2. CASE n2 # n
      <4>1. PICK j \in Settings(d, n2) : j <= m
        BY <2>1, <3>2
      <4>2. j # i
        BY <1>3, <1>5, <3>2, SettingsOf
      <4>3. j <= parse.at
        BY <1>6, <4>1, <4>2
      <4>4. Kept(d, n2)
        BY <1>2, <1>3, <1>5, <3>2, <4>2, <4>3 DEF Followed, Passed
      <4>5. PICK l \in Settings(d, n2) : Whole(d, l)
        BY <4>4 DEF Kept
      <4>6. d[l].num = n2
        BY <1>5, <4>5, SettingsOf
      <4>7. Itf_Desc'[n2] = Itf_Desc[n2] /\ Ep_Desc'[n2] = Ep_Desc[n2]
        BY <1>9, <2>1, <3>2
      <4>8. Whole(d, l)'
        BY <4>5, <4>6, <4>7 DEF Whole
      <4>9. QED
        BY <4>5, <4>8 DEF Kept
    <3>3. QED
      BY <3>1, <3>2
  <2>2. m \in OwnTo(d, i, m)
    BY <1>6
  <2>3. QED
    BY <1>3, <1>5, <1>9, <1>12, <2>1, <2>2 DEF Passed
<1>15. ASSUME Uniform(d) PROVE Largest(d)'
  <2> DEFINE S == {j \in Settings(d, 1) :
                     j <= parse.at /\ ~(parse.inner /\ parse.pif = j /\ parse.ep_ix = 0)}
             S2 == {j \in Settings(d, 1) :
                     j <= m /\ ~(parse'.inner /\ i = j /\ e + 1 = 0)}
  <2>1. IF prev_itf = 1
          THEN prev_ep_size = Ep_Desc[1][0].size /\ LargestOf(d, S)
          ELSE S = {}
    BY <1>5, <1>15 DEF Followed, Largest
  <2>2. ASSUME NEW j \in S2, j # i PROVE j \in S /\ j < i
    BY <1>2, <1>6, <2>2
  <2>3. CASE n = 1
    <3>1. \A k, l \in Own(d, i) : d[k].size = d[l].size
      BY <1>6, <1>15, <2>3 DEF Uniform
    <3>2. d[m].size = Ep_Desc'[1][0].size
      <4>1. CASE e = 0
        BY <1>10, <2>3, <4>1
      <4>2. CASE e > 0
        <5>1. 0 \in 0 .. e - 1
          BY <1>7, <4>2
        <5>2. Ep_Desc[1][0] \in Entries(Ep_Desc[n], e)
          BY <2>3, <5>1 DEF Entries
        <5>3. PICK k \in OwnTo(d, i, parse.at) : Ep_Desc[1][0] = d[k]
          BY <1>11, <4>2, <5>2
        <5>4. k \in Own(d, i)
          BY <1>6, <5>3
        <5>5. QED
          BY <1>6, <1>10, <2>3, <3>1, <4>2, <5>3, <5>4
      <4>3. QED
        BY <1>7, <4>1, <4>2
    <3>3. ASSUME NEW j \in S2, NEW k \in Own(d, j) PROVE d[k].size <= d[m].size
      <4>1. CASE j = i
        BY <1>6, <3>1, <3>3, <4>1
      <4>2. CASE j # i
        <5>1. j \in S
          BY <2>2, <4>2
        <5>2. prev_itf = 1 /\ d[k].size <= prev_ep_size
          BY <2>1, <3>3, <5>1 DEF LargestOf
        <5>3. ~(prev_ep_size > d[m].size)
          BY <1>3, <1>5, <2>3, <5>2 DEF Smaller
        <5>4. d[k].size \in Nat
          <6>1. j \in 1 .. Len(d)
            BY <1>5, SettingsOf
          <6>2. QED
            BY <1>5, <6>1, OwnSize
        <5>5. QED
          BY <1>6, <1>8, <5>2, <5>3, <5>4
      <4>3. QED
        BY <4>1, <4>2
    <3>4. QED
      BY <1>5, <1>9, <2>3, <3>2, <3>3 DEF Largest, LargestOf
  <2>4. CASE n # 1
    <3>1. S2 = {}
      <4>1. SUFFICES ASSUME NEW j \in S2 PROVE FALSE
        OBVIOUS
      <4>2. j \in 1 .. Len(d) /\ IsItf(d[j]) /\ d[j].num = 1
        BY <1>5, SettingsOf
      <4>3. j # i
        BY <1>3, <2>4, <4>2
      <4>4. j < i
        BY <2>2, <4>3
      <4>5. d[j].num <= d[i].num
        BY <1>5, <1>7, <1>15, <4>2, <4>4, Fields DEF Uniform
      <4>6. QED
        BY <1>3, <1>6, <2>4, <4>2, <4>5 DEF ItfNums, USBH_MAX_NUM_INTERFACES
    <3>2. QED
      BY <1>5, <1>9, <2>4, <3>1 DEF Largest
  <2>5. QED
    BY <2>3, <2>4
<1>16. QED
  BY <1>5, <1>14, <1>15 DEF Followed, JudgedByItself, LargestKept

LEMMA SkipFollowed ==
  ASSUME NEW d, d = Descriptor, Based, Plain(d), Followed(d), Inner,
         IsEp(pdesc) => Smaller(pdesc),
         parse'.at = parse.at + 1, parse'.pif = parse.pif, parse'.ep_ix = parse.ep_ix,
         parse'.inner <=> ~IsEp(pdesc),
         UNCHANGED <<Itf_Desc, Ep_Desc, prev_ep_size, prev_itf>>
  PROVE  Followed(d)'
<1>1. PICK m : m = parse.at + 1
  OBVIOUS
<1>2. PICK i : i = parse.pif
  OBVIOUS
<1>3. PICK n : n = d[i].num
  OBVIOUS
<1>4. /\ AddsUp(d) /\ stage = "parse" /\ stage' = "parse" /\ Descriptor' = d
      /\ parse.inner /\ pdesc = d[m] /\ temp_pif = d[i]
      /\ parse'.at = m /\ parse'.pif = i /\ temp_pif' = d[i]
      /\ parse'.inner <=> ~IsEp(d[m])
  BY <1>1, <1>2, SameDevice DEF Inner, pdesc, temp_pif
<1>5. /\ i \in Settings(d, n) /\ n \in ItfNums
      /\ \A n2 : \A j \in Settings(d, n2) : j <= m /\ j # i =>
           j < i /\ j <= parse.at /\ j \in 1 .. Len(d)
      /\ IF IsEp(d[m])
           THEN m \in Own(d, i) /\ d[m].size \in Nat
           ELSE OwnTo(d, i, m) = OwnTo(d, i, parse.at)
      /\ \A k \in OwnTo(d, i, parse.at) : k \in Own(d, i) /\ k < m
  BY <1>1, <1>2, <1>3, <1>4, InnerSettings
<1>6. /\ i \in 1 .. Len(d) /\ IsItf(d[i]) /\ i \in Nat /\ parse.at \in Nat
      /\ parse.ep_ix \in Nat /\ m \in Nat /\ i <= parse.at /\ i <= m
  BY <1>1, <1>2, InnerTurn
<1>7. prev_itf \in ItfNums /\ prev_ep_size \in Nat
  BY DEF Based, DescTypeOK
<1>8. \A n2 \in ItfNums : Kept(d, n2) => Kept(d, n2)'
  BY DEF Kept, Whole
<1>9. Passed(d) /\ (Uniform(d) => Largest(d))
  BY <1>4 DEF Followed
<1> DEFINE S == {j \in Settings(d, 1) :
                   j <= parse.at /\ ~(parse.inner /\ parse.pif = j /\ parse.ep_ix = 0)}
           S2 == {j \in Settings(d, 1) :
                   j <= m /\ ~(parse'.inner /\ i = j /\ parse.ep_ix = 0)}
<1>10. ASSUME NEW j \in S2, j # i PROVE j \in S /\ j < i
  BY <1>2, <1>5, <1>10
\* Neither an endpoint nor an interface.
<1>11. CASE ~IsEp(d[m])
  <2>1. parse'.inner /\ (Halfway' <=> Halfway)
    BY <1>4, <1>11 DEF Halfway
  <2>2. ASSUME NEW n2 \in ItfNums, ~(Halfway' /\ n = n2),
               \/ \E j \in Settings(d, n2) : j <= m /\ ~(parse'.inner /\ i = j)
               \/ prev_itf = n2 /\ prev_ep_size > 0
        PROVE  Kept(d, n2)'
    <3>1. \/ \E j \in Settings(d, n2) : j <= parse.at /\ ~(parse.inner /\ parse.pif = j)
          \/ prev_itf = n2 /\ prev_ep_size > 0
      BY <1>2, <1>5, <2>1, <2>2
    <3>2. Kept(d, n2)
      BY <1>3, <1>4, <1>9, <2>1, <2>2, <3>1 DEF Passed
    <3>3. QED
      BY <1>8, <3>2
  <2>3. Halfway' => /\ Itf_Desc'[n] = d[i] /\ prev_itf' = n
                    /\ Entries(Ep_Desc'[n], parse.ep_ix) = {d[k] : k \in OwnTo(d, i, m)}
                    /\ \E k \in OwnTo(d, i, m) : prev_ep_size' = d[k].size
    BY <1>2, <1>3, <1>4, <1>5, <1>9, <1>11, <2>1 DEF Passed
  <2>4. Passed(d)'
    BY <1>3, <1>4, <2>2, <2>3 DEF Passed
  <2>5. S2 = S
    <3>1. ASSUME NEW j \in Settings(d, 1)
          PROVE  j \in S2 <=> j \in S
      <4>1. j \in 1 .. Len(d)
        BY <1>4, SettingsOf
      <4>2. j <= parse.at => j <= m
        BY <1>1, <1>6, <4>1
      <4>3. CASE j = i
        BY <1>2, <1>4, <1>6, <2>1, <4>3
      <4>4. CASE j # i
        BY <1>2, <1>10, <4>2, <4>4
      <4>5. QED
        BY <4>3, <4>4
    <3>2. QED
      BY <3>1
  <2>6. Uniform(d) => Largest(d)'
    BY <1>4, <1>9, <2>5 DEF Largest, LargestOf
  <2>7. QED
    BY <1>4, <2>4, <2>6 DEF Followed, JudgedByItself, LargestKept
\* An endpoint that is smaller, which can only be the first: what is kept of the
\* interface is a setting that was there before.
<1>12. CASE IsEp(d[m])
  <2>1. /\ prev_itf = n /\ prev_ep_size > d[m].size /\ d[m].size \in Nat
        /\ m \in Own(d, i) /\ ~parse'.inner
    BY <1>3, <1>4, <1>5, <1>12 DEF Smaller
  <2>2. parse.ep_ix = 0
    <3>1. SUFFICES ASSUME Halfway PROVE FALSE
      BY <1>4, <1>6 DEF Halfway
    <3>2. PICK k \in OwnTo(d, i, parse.at) : prev_ep_size = d[k].size
      BY <1>2, <1>9, <3>1 DEF Passed
    <3>3. k \in Own(d, i) /\ k < m
      BY <1>5, <3>2
    <3>4. Rising(d, i)
      BY <1>4, <1>6, PlainSetting
    <3>5. d[k].size <= d[m].size
      BY <2>1, <3>3, <3>4 DEF Rising
    <3>6. QED
      BY <1>7, <2>1, <3>2, <3>5
  <2>3. ~Halfway /\ ~Halfway' /\ prev_ep_size > 0
    BY <1>7, <2>1, <2>2 DEF Halfway
  <2>4. Kept(d, n)
    BY <1>5, <1>9, <2>1, <2>3 DEF Passed
  <2>5. ASSUME NEW n2 \in ItfNums,
               \/ \E j \in Settings(d, n2) : j <= m
               \/ prev_itf = n2
        PROVE  Kept(d, n2)'
    <3>1. CASE n2 = n
      BY <1>5, <1>8, <2>4, <3>1
    <3>2. CASE n2 # n
      <4>1. PICK j \in Settings(d, n2) : j <= m
        BY <2>1, <2>5, <3>2
      <4>2. j # i
        BY <1>3, <1>4, <3>2, SettingsOf
      <4>3. j <= parse.at
        BY <1>5, <4>1, <4>2
      <4>4. Kept(d, n2)
        BY <1>2, <1>9, <2>3, <4>2, <4>3 DEF Passed
      <4>5. QED
        BY <1>8, <4>4
    <3>3. QED
      BY <3>1, <3>2
  <2>6. Passed(d)'
    BY <1>4, <2>3, <2>5 DEF Passed
  <2>7. ASSUME Uniform(d) PROVE Largest(d)'
    <3>1. IF prev_itf = 1
            THEN prev_ep_size = Ep_Desc[1][0].size /\ LargestOf(d, S)
            ELSE S = {}
      BY <1>9, <2>7 DEF Largest
    <3>2. CASE n = 1
      <4>1. ASSUME NEW j \in S2, NEW k \in Own(d, j) PROVE d[k].size <= Ep_Desc[1][0].size
        <5>1. CASE j = i
          <6>1. d[k].size = d[m].size
            BY <1>5, <2>1, <2>7, <3>2, <4>1, <5>1 DEF Uniform
          <6>2. QED
            BY <1>7, <2>1, <3>1, <3>2, <6>1
        <5>2. CASE j # i
          <6>1. j \in S
            BY <1>10, <5>2
          <6>2. QED
            BY <2>1, <3>1, <3>2, <4>1, <6>1 DEF LargestOf
        <5>3. QED
          BY <5>1, <5>2
      <4>2. QED
        BY <1>4, <2>1, <3>1, <3>2, <4>1 DEF Largest, LargestOf
    <3>3. CASE n # 1
      <4>1. S = {} /\ i \notin Settings(d, 1)
        BY <1>3, <1>4, <2>1, <3>1, <3>3, SettingsOf
      <4>2. S2 = {}
        BY <1>10, <4>1
      <4>3. QED
        BY <1>4, <2>1, <3>3, <4>2 DEF Largest
    <3>4. QED
      BY <3>2, <3>3
  <2>8. QED
    BY <1>4, <2>6, <2>7 DEF Followed, JudgedByItself, LargestKept
<1>13. QED
  BY <1>11, <1>12

LEMMA InnerFollowed ==
  ASSUME NEW d, d = Descriptor, Based, Plain(d), Followed(d), Inner
  PROVE  Followed(d)'
<1>1. CASE IsEp(pdesc) /\ ~Smaller(pdesc)
  <2>1. /\ StoreEndpoint(temp_pif.num, pdesc)
        /\ parse'.at = parse.at + 1 /\ parse'.pif = parse.pif
        /\ parse'.ep_ix = parse.ep_ix + 1
        /\ parse'.inner <=> parse.ep_ix + 1 < temp_pif.eps
    BY <1>1, InnerParse
  <2>2. QED
    BY <1>1, <2>1, StoreFollowed
<1>2. CASE ~(IsEp(pdesc) /\ ~Smaller(pdesc))
  <2>1. /\ IsEp(pdesc) => Smaller(pdesc)
        /\ parse'.at = parse.at + 1 /\ parse'.pif = parse.pif
        /\ parse'.ep_ix = parse.ep_ix /\ (parse'.inner <=> ~IsEp(pdesc))
        /\ UNCHANGED <<Itf_Desc, Ep_Desc, staticVars>>
    BY <1>2, InnerParse
  <2>2. UNCHANGED <<Itf_Desc, Ep_Desc, prev_ep_size, prev_itf>>
    BY <2>1 DEF staticVars
  <2>3. QED
    BY <2>1, <2>2, SkipFollowed
<1>3. QED
  BY <1>1, <1>2

\* The device is judged by what is kept of its own interface 0, and its pipes are
\* opened on what is kept of its interface 1.
LEMMA InterfaceFollowed ==
  ASSUME NEW d, d = Descriptor, Based, Plain(d), Followed(d), InterfaceInit
  PROVE  Followed(d)'
<1>1. /\ stage = "input" /\ stage' = "class" /\ device' = device /\ Descriptor' = d
      /\ AddsUp(d) /\ device # "none" /\ UNCHANGED <<Dev_Desc, Itf_Desc, Ep_Desc>>
  BY Known DEF InterfaceInit, propVars, Descriptor
<1>2. Dev_Desc' = [head |-> device, tail |-> device]
  BY <1>1 DEF Based, Stages
<1>3. /\ \A n \in ItfNums : Settings(d, n) # {} => Kept(d, n)
      /\ Uniform(d) => LargestOf(d, Settings(d, 1))
  BY <1>1 DEF Followed
<1>4. 0 \in ItfNums /\ 1 \in ItfNums
  BY DEF ItfNums, USBH_MAX_NUM_INTERFACES
<1>5. Itf_Desc[0].class = d[1].class
  <2>1. 1 \in Settings(d, 0)
    BY DEF Plain
  <2>2. PICK i \in Settings(d, 0) : Whole(d, i)
    BY <1>3, <1>4, <2>1 DEF Kept
  <2>3. d[i].class = d[1].class
    BY <1>4, <2>1, <2>2 DEF Plain
  <2>4. d[i].num = 0
    BY <1>1, <2>2, SettingsOf
  <2>5. QED
    BY <2>2, <2>3, <2>4 DEF Whole
<1>6. supported' = (d[1].class = "cdc")
  BY <1>5 DEF InterfaceInit
<1>7. ASSUME d[1].class = "cdc"
      PROVE  \E i \in Settings(d, 1) : /\ {OutEp', InEp'} = {d[k] : k \in Own(d, i)}
                                       /\ Entries(Ep_Desc[1], 2) = {d[k] : k \in Own(d, i)}
  <2>1. Settings(d, 1) # {} /\ \A i \in Settings(d, 1) : BothWays(d, i)
    BY <1>7 DEF Plain
  <2>2. PICK i \in Settings(d, 1) : Whole(d, i)
    BY <1>3, <1>4, <2>1 DEF Kept
  <2>3. d[i].num = 1 /\ d[i].eps = 2 /\ {d[k].dir : k \in Own(d, i)} = {"in", "out"}
    <3>1. d[i].num = 1
      BY <1>1, <2>2, SettingsOf
    <3>2. BothWays(d, i)
      BY <2>1, <2>2
    <3>3. QED
      BY <3>1, <3>2 DEF BothWays
  <2>4. Entries(Ep_Desc[1], 2) = {d[k] : k \in Own(d, i)}
    BY <2>2, <2>3 DEF Whole
  <2> DEFINE x == Ep_Desc[1][0]
             y == Ep_Desc[1][1]
  <2>5. {x, y} = {d[k] : k \in Own(d, i)}
    <3>1. 0 .. 2 - 1 = {0, 1}
      OBVIOUS
    <3>2. Entries(Ep_Desc[1], 2) = {x, y}
      BY <3>1 DEF Entries
    <3>3. QED
      BY <2>4, <3>2
  <2>6. {x.dir, y.dir} = {"in", "out"}
    <3>1. {x.dir, y.dir} = {d[k].dir : k \in Own(d, i)}
      <4>1. \A k \in Own(d, i) : d[k] = x \/ d[k] = y
        BY <2>5
      <4>2. \E k \in Own(d, i) : d[k] = x
        BY <2>5
      <4>3. \E k \in Own(d, i) : d[k] = y
        BY <2>5
      <4>4. QED
        BY <4>1, <4>2, <4>3
    <3>2. QED
      BY <2>3, <3>1
  <2>7. supported'
    BY <1>6, <1>7
  <2>8. OutEp' = Chosen("out", OutEp) /\ InEp' = Chosen("in", InEp)
    BY <2>7 DEF InterfaceInit
  <2>9. {OutEp', InEp'} = {x, y}
    <3> HIDE DEF x, y
    <3>1. Chosen("out", OutEp) = (IF y.dir = "out" THEN y ELSE IF x.dir = "out" THEN x ELSE OutEp)
      BY DEF Chosen, x, y
    <3>2. Chosen("in", InEp) = (IF y.dir = "in" THEN y ELSE IF x.dir = "in" THEN x ELSE InEp)
      BY DEF Chosen, x, y
    <3>3. (x.dir = "in" /\ y.dir = "out") \/ (x.dir = "out" /\ y.dir = "in")
      BY <2>6
    <3>4. QED
      BY <2>8, <3>1, <3>2, <3>3
  <2>10. QED
    BY <2>2, <2>4, <2>5, <2>9
<1>8. JudgedByItself'
  <2>1. Dev_Desc' = [head |-> device', tail |-> device']
    BY <1>1, <1>2
  <2>2. supported' => \E i \in Settings(d, 1) : {OutEp', InEp'} = {d[k] : k \in Own(d, i)}
    BY <1>6, <1>7
  <2>3. QED
    BY <1>1, <1>6, <2>1, <2>2 DEF JudgedByItself
<1>9. LargestKept'
  <2>1. SUFFICES ASSUME Uniform(d), d[1].class = "cdc",
                        NEW j \in Settings(d, 1), NEW l \in Own(d, j)
                 PROVE  OutEp'.size >= d[l].size
    BY <1>1, <1>6 DEF LargestKept
  <2>2. PICK i \in Settings(d, 1) :
               /\ {OutEp', InEp'} = {d[k] : k \in Own(d, i)}
               /\ Entries(Ep_Desc[1], 2) = {d[k] : k \in Own(d, i)}
    BY <1>7, <2>1
  <2>3. PICK k \in Own(d, i) : OutEp' = d[k]
    BY <2>2
  <2>4. PICK k0 \in Own(d, i) : Ep_Desc[1][0] = d[k0]
    <3>1. 0 \in 0 .. 2 - 1
      OBVIOUS
    <3>2. Ep_Desc[1][0] \in Entries(Ep_Desc[1], 2)
      BY <3>1 DEF Entries
    <3>3. QED
      BY <2>2, <3>2
  <2>5. d[k].size = d[k0].size
    BY <2>1, <2>2, <2>3, <2>4 DEF Uniform
  <2>6. d[l].size <= Ep_Desc[1][0].size
    BY <1>3, <2>1 DEF LargestOf
  <2>7. d[l].size \in Nat /\ d[k].size \in Nat
    <3>1. i \in 1 .. Len(d) /\ j \in 1 .. Len(d)
      BY <1>1, SettingsOf
    <3>2. QED
      BY <1>1, <2>1, <2>3, <3>1, OwnSize
  <2>8. QED
    BY <2>3, <2>4, <2>5, <2>6, <2>7
<1>10. QED
  BY <1>1, <1>8, <1>9 DEF Followed

LEMMA FollowedKept ==
  ASSUME DescInv, [DescNext]_descVars, device' # "none", ~tainted', Plain(Descriptor')
  PROVE  Followed(Descriptor)'
<1>1. Based
  BY DEF DescInv
<1>2. PICK d : d = Descriptor'
  OBVIOUS
<1>3. SUFFICES Followed(d)'
  BY <1>2
<1>4. CASE (\E kind \in Devices : Attach(kind)) \/ GetDevDesc \/ GetCfgDesc \/ Detach
  <2>1. stage' \notin {"parse", "input", "class"}
    BY <1>4 DEF Attach, GetDevDesc, GetCfgDesc, Detach
  <2>2. QED
    BY <2>1, NothingYet
<1>5. CASE GetFullCfgDesc
  <2>1. d = Descriptor
    BY <1>2, <1>5 DEF GetFullCfgDesc, Descriptor
  <2>2. QED
    BY <1>1, <1>2, <1>5, <2>1, ParseBegins
<1>6. ASSUME Outer \/ Inner \/ ParseEnd \/ InterfaceInit
      PROVE  Followed(d)'
  <2>1. device' = device /\ tainted' = tainted
    BY <1>6 DEF Outer, Inner, ParseEnd, InterfaceInit, pastVars
  <2>2. d = Descriptor
    BY <1>2, <2>1 DEF Descriptor
  <2>3. Plain(d) /\ Followed(d)
    BY <1>2, <2>1, <2>2 DEF DescInv
  <2>4. QED
    BY <1>1, <1>6, <2>2, <2>3, OuterFollowed, InnerFollowed, EndFollowed, InterfaceFollowed
<1>7. CASE UNCHANGED descVars
  <2>1. d = Descriptor /\ Plain(d) /\ Followed(d)
    BY <1>2, <1>7 DEF descVars, pastVars, Descriptor, DescInv
  <2>2. /\ device' = device /\ stage' = stage /\ Dev_Desc' = Dev_Desc /\ Itf_Desc' = Itf_Desc
        /\ Ep_Desc' = Ep_Desc /\ prev_ep_size' = prev_ep_size /\ prev_itf' = prev_itf
        /\ parse' = parse /\ OutEp' = OutEp /\ InEp' = InEp /\ supported' = supported
        /\ tainted' = tainted /\ Descriptor' = Descriptor
    BY <1>7 DEF descVars, propVars, staticVars, pipeVars, pastVars, Descriptor
  <2>3. /\ Halfway' = Halfway /\ temp_pif' = temp_pif
        /\ \A n : Kept(d, n)' = Kept(d, n)
        /\ \A S : LargestOf(d, S)' = LargestOf(d, S)
    BY <2>2 DEF Halfway, temp_pif, Kept, Whole, LargestOf
  <2>4. Passed(d)' = Passed(d)
    BY <2>2, <2>3 DEF Passed
  <2>5. Largest(d)' = Largest(d)
    BY <2>2, <2>3 DEF Largest
  <2>6. JudgedByItself' = JudgedByItself
    BY <2>2 DEF JudgedByItself
  <2>7. LargestKept' = LargestKept
    BY <2>2 DEF LargestKept
  <2>8. QED
    BY <2>1, <2>2, <2>3, <2>4, <2>5, <2>6, <2>7 DEF Followed
<1>8. QED
  BY <1>4, <1>5, <1>6, <1>7 DEF DescNext

-----------------------------------------------------------------------------
(* The theorems *)

LEMMA InitInv ==
  ASSUME DescInit
  PROVE  DescInv
<1>1. 0 \in ItfNums /\ 0 \in Nat
  BY DEF ItfNums, USBH_MAX_NUM_INTERFACES
<1>2. NoParse \in [at : Nat, ptr : Nat, inner : BOOLEAN, pif : Nat, ep_ix : Nat]
  BY DEF NoParse
<1>3. /\ DOMAIN Itf_Desc = ItfNums /\ DOMAIN Ep_Desc = ItfNums
      /\ \A n \in ItfNums : DOMAIN Ep_Desc[n] = EpNums
  BY DEF DescInit
<1>4. DescTypeOK
  BY <1>1, <1>2, <1>3 DEF DescInit, DescTypeOK, Stages
<1>5. Based
  BY <1>4 DEF DescInit, Based, Inside, Statics, Blame, Stages
<1>6. QED
  BY <1>5 DEF DescInit, DescInv

\* The inductive invariant, for any devices that describe themselves correctly, in
\* any number, order and repetition, pulled at any point of their enumeration:
\* the parser's two loops stay between the descriptors and inside the arrays, and what
\* is kept of each interface of a plain device is one whole setting of it.
THEOREM Inductive == DescSpec => []DescInv
<1>1. DescInit => DescInv
  BY InitInv
<1>2. DescInv /\ [DescNext]_descVars => DescInv'
  <2>1. SUFFICES ASSUME DescInv, [DescNext]_descVars PROVE DescInv'
    OBVIOUS
  <2>2. Based'
    BY <2>1, BasedKept DEF DescInv
  <2>3. (device # "none" /\ ~tainted /\ Plain(Descriptor) => Followed(Descriptor))'
    BY <2>1, FollowedKept
  <2>4. QED
    BY <2>2, <2>3 DEF DescInv
<1>3. QED
  BY <1>1, <1>2, PTL DEF DescSpec

\* USBH_ParseCfgDesc (usbh_stdreq.c:377) writes inside Itf_Desc and Ep_Desc and
\* reads inside the descriptor, whatever a device that describes itself correctly
\* consists of: the two arrays keep their bounds.
THEOREM ParserStaysInside == DescSpec => []DescTypeOK
<1>1. DescInv => DescTypeOK
  BY DEF DescInv, Based
<1>2. QED
  BY <1>1, Inductive, PTL

\* What the host makes of a plain device is what the device says of itself, though
\* device_prop and the statics of the parser are never cleared between devices,
\* unless the parser refused the one before: device_prop is overwritten where it
\* is read, and a static that was left over could only hide a first endpoint.
THEOREM JudgedByItsOwn == DescSpec => []NothingInherited
<1>1. DescInv => NothingInherited
  BY DEF DescInv, Followed, NothingInherited
<1>2. QED
  BY <1>1, Inductive, PTL

\* Of the alternate settings of the data interface the one with the largest endpoints
\* is the one whose endpoints the pipes are opened on, in whatever order and
\* number the settings come (the comparison at usbh_stdreq.c:435).
THEOREM KeepsTheLargest == DescSpec => []LargestKept
<1>1. DescInv => LargestKept
  <2>1. SUFFICES ASSUME DescInv, stage = "class", ~tainted, Plain(Descriptor) PROVE LargestKept
    BY DEF LargestKept
  <2>2. device # "none"
    BY <2>1 DEF DescInv, Based
  <2>3. QED
    BY <2>1, <2>2 DEF DescInv, Followed
<1>2. QED
  BY <1>1, Inductive, PTL

=============================================================================
