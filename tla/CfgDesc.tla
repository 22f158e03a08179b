------------------------------ MODULE CfgDesc ------------------------------
(***************************************************************************)
(* What the host keeps of the descriptors of the devices it meets:         *)
(* USBH_ParseDevDesc and USBH_ParseCfgDesc (usbh_stdreq.c), and the use    *)
(* USBH_CDC_InterfaceInit (usbh_cdc.c) makes of it.  The parser has two    *)
(* static variables and writes into device_prop, neither of which is       *)
(* cleared when a device goes away: one device follows another here, and   *)
(* may be pulled at any point of its enumeration.                          *)
(*                                                                         *)
(* A configuration descriptor is the sequence of the descriptors in it;    *)
(* USBH_ParseCfgDesc looks at one of them in each turn of its two loops.   *)
(* The transfers that fetch the descriptors are module Enumeration.        *)
(***************************************************************************)
EXTENDS Integers, Sequences, FiniteSets

CONSTANT Configurations  \* the devices at hand, and what each describes itself as

USBH_MAX_NUM_INTERFACES == 2
USBH_MAX_NUM_ENDPOINTS  == 3
USBH_MAX_DATA_BUFFER    == 1024
HeaderLength == 9        \* USB_LEN_CFG_DESC

Devices == DOMAIN Configurations

-----------------------------------------------------------------------------
(* Descriptors: at pos in the buffer, and len bytes long *)

IsItf(x) == x.type = "interface"
IsEp(x)  == x.type = "endpoint"

\* What device_prop holds before anything was stored: zeroes.
NoItf == [type |-> "interface", len |-> 9, pos |-> 0, num |-> 0, alt |-> 0, eps |-> 0,
          class |-> "none"]
NoEp  == [type |-> "endpoint", len |-> 7, pos |-> 0, dir |-> "out", size |-> 0]

\* The endpoints of the interface that is the i-th descriptor: those between it
\* and the next one.
Own(d, i) ==
  {k \in i + 1 .. Len(d) : IsEp(d[k]) /\ \A j \in i + 1 .. k : ~IsItf(d[j])}

bNumInterfaces(d) == Cardinality({d[i].num : i \in {j \in DOMAIN d : IsItf(d[j])}})
wTotalLength(d)   == d[Len(d)].pos + d[Len(d)].len

\* A device that describes itself correctly: its descriptors are where their
\* lengths put them, its interfaces are numbered from 0, and have as many
\* endpoints as they say.
AddsUp(d) ==
  /\ d \in Seq([type : {"interface"}, len : {9}, pos : Nat, num : Nat, alt : Nat,
                eps : Nat, class : STRING]
               \cup [type : {"endpoint"}, len : {7}, pos : Nat, dir : {"in", "out"},
                     size : Nat]
               \cup [type : {"functional"}, len : Nat \ {0}, pos : Nat])
  /\ d # <<>> /\ IsItf(d[1]) /\ d[1].pos = HeaderLength
  /\ d[Len(d)].len <= HeaderLength
  /\ \A i \in 1 .. Len(d) - 1 : d[i + 1].pos = d[i].pos + d[i].len
  /\ \A i \in DOMAIN d : IsItf(d[i]) => /\ d[i].num < bNumInterfaces(d)
                                        /\ d[i].eps = Cardinality(Own(d, i))

ASSUME CfgDescAssumption ==
  /\ "none" \notin Devices
  /\ \A kind \in Devices : AddsUp(Configurations[kind])

-----------------------------------------------------------------------------

VARIABLES
  device,    \* the device on the port, or "none"
  stage,     \* how far its enumeration has come
  Dev_Desc,  \* what is kept of the device descriptor: whose head, whose tail
  Itf_Desc, Ep_Desc,       \* phost->device_prop
  prev_ep_size, prev_itf,  \* static in USBH_ParseCfgDesc
  parse,     \* its other variables while it runs, or NoParse: which descriptor
             \* pdesc points at, ptr, whether it is in the inner loop, which
             \* interface temp_pif is a copy of, ep_ix
  OutEp, InEp,             \* _CDC_Handle.DataItf: address and size
  supported, \* USBH_CDC_InterfaceInit took the device for a CDC one
  rejected,  \* history: the last descriptor parsed was not supported,
  tainted    \* and so it was when the one before it was parsed

propVars   == <<Dev_Desc, Itf_Desc, Ep_Desc>>
staticVars == <<prev_ep_size, prev_itf>>
pipeVars   == <<OutEp, InEp, supported>>
pastVars   == <<rejected, tainted>>
descVars   == <<device, stage, propVars, staticVars, parse, pipeVars, pastVars>>

ItfNums == 0 .. USBH_MAX_NUM_INTERFACES - 1
EpNums  == 0 .. USBH_MAX_NUM_ENDPOINTS - 1
Stages  == {"dev_head", "dev_full", "cfg", "cfg_full", "parse", "input", "class"}

Descriptor == Configurations[device]

-----------------------------------------------------------------------------
(* USBH_ParseCfgDesc: the outer loop looks for an interface, the inner one for *)
(* the endpoints of the interface temp_pif                                     *)

NoParse == [at |-> 0, ptr |-> 0, inner |-> FALSE, pif |-> 0, ep_ix |-> 0]

temp_pif == Descriptor[parse.pif]

\* The next descriptor, and where ptr is then: ahead of it by the length of the
\* header.
pdesc == Descriptor[parse.at + 1]
Ahead == parse.ptr + IF parse.at = 0 THEN HeaderLength ELSE Descriptor[parse.at].len

\* ENUM_GET_FULL_CFG_DESC asks for a descriptor that is not supported again and
\* again.
Refuse ==
  /\ rejected' = TRUE
  /\ stage' = "cfg_full" /\ parse' = NoParse

\* ptr is compared in the outer loop only.
OuterEnds == parse.ptr >= wTotalLength(Descriptor)

NeverTooMany(x) == FALSE                         \* mutant
TooMany(x) == x.eps > USBH_MAX_NUM_ENDPOINTS

\* A turn of the outer loop: an interface, or something that is passed over.
Outer ==
  /\ stage = "parse" /\ ~parse.inner /\ ~OuterEnds
  /\ IF IsItf(pdesc) /\ pdesc.alt < 3
       THEN \/ TooMany(pdesc) /\ Refuse
            \/ /\ ~TooMany(pdesc)
               /\ parse' = [at |-> parse.at + 1, ptr |-> Ahead, inner |-> pdesc.eps > 0,
                            pif |-> parse.at + 1, ep_ix |-> 0]
               /\ UNCHANGED <<stage, rejected>>
       ELSE /\ parse' = [parse EXCEPT !.at = @ + 1, !.ptr = Ahead]
            /\ UNCHANGED <<stage, rejected>>
  /\ UNCHANGED <<device, propVars, staticVars, pipeVars, tainted>>

\* An endpoint smaller than the one before it, of the same interface, ends the
\* inner loop.
NeverSmaller(x) == FALSE                         \* mutant
Smaller(x) == prev_itf = temp_pif.num /\ prev_ep_size > x.size

\* The arrays are written at the index, whether or not it is one of theirs.
Put(f, i, x) == [k \in DOMAIN f \cup {i} |-> IF k = i THEN x ELSE f[k]]

StoreEndpoint(n, x) ==
  /\ Itf_Desc' = Put(Itf_Desc, n, temp_pif)
  /\ Ep_Desc'  = [Ep_Desc EXCEPT ![n] = Put(@, parse.ep_ix, x)]
  /\ prev_itf' = n /\ prev_ep_size' = x.size
  /\ parse' = [parse EXCEPT !.at = @ + 1, !.ptr = Ahead, !.ep_ix = @ + 1,
                            !.inner = parse.ep_ix + 1 < temp_pif.eps]

\* A turn of the inner loop.
Inner ==
  /\ stage = "parse" /\ parse.inner
  /\ \/ IsEp(pdesc) /\ ~Smaller(pdesc) /\ StoreEndpoint(temp_pif.num, pdesc)
     \/ /\ IsEp(pdesc) => Smaller(pdesc)
        /\ parse' = [parse EXCEPT !.at = @ + 1, !.ptr = Ahead, !.inner = ~IsEp(pdesc)]
        /\ UNCHANGED <<Itf_Desc, Ep_Desc, staticVars>>
  /\ UNCHANGED <<device, stage, Dev_Desc, pipeVars, pastVars>>

\* The statics are cleared at the end, which a device that is refused does not
\* reach.
SizeKept  == prev_ep_size                        \* mutant
SizeAfter == 0

ParseEnd ==
  /\ stage = "parse" /\ ~parse.inner /\ OuterEnds
  /\ prev_ep_size' = SizeAfter /\ prev_itf' = 0
  /\ rejected' = FALSE
  /\ stage' = "input" /\ parse' = NoParse
  /\ UNCHANGED <<device, propVars, pipeVars, tainted>>

-----------------------------------------------------------------------------
(* The enumeration of one device after the other *)

Attach(kind) ==
  /\ device = "none"
  /\ device' = kind
  /\ stage' = "dev_head"
  /\ UNCHANGED <<propVars, staticVars, parse, pipeVars, pastVars>>

\* USBH_ParseDevDesc: the first request asks for 8 bytes, the second for all.
ParseDevDesc(length) ==
  Dev_Desc' = [head |-> device,
               tail |-> IF length > 8 THEN device ELSE Dev_Desc.tail]

GetDevDesc ==
  /\ \/ stage = "dev_head" /\ ParseDevDesc(8)  /\ stage' = "dev_full"
     \/ stage = "dev_full" /\ ParseDevDesc(18) /\ stage' = "cfg"
  /\ UNCHANGED <<device, Itf_Desc, Ep_Desc, staticVars, parse, pipeVars, pastVars>>

\* ENUM_GET_CFG_DESC: 9 bytes, the header alone; the statics stay.  It is asked
\* for again and again if the whole would not fit into Cfg_Rx_Buffer.
GetCfgDesc ==
  /\ stage = "cfg" /\ wTotalLength(Descriptor) <= USBH_MAX_DATA_BUFFER
  /\ stage' = "cfg_full"
  /\ UNCHANGED <<device, propVars, staticVars, parse, pipeVars, pastVars>>

\* ENUM_GET_FULL_CFG_DESC: all of it, which is parsed unless it has too many
\* interfaces.  The strings and SET_CONFIGURATION lead on to HOST_USR_INPUT.
GetFullCfgDesc ==
  /\ stage = "cfg_full"
  /\ tainted' = rejected
  /\ IF bNumInterfaces(Descriptor) > USBH_MAX_NUM_INTERFACES
       THEN Refuse
       ELSE /\ parse' = [NoParse EXCEPT !.ptr = HeaderLength]
            /\ stage' = "parse"
            /\ UNCHANGED rejected
  /\ UNCHANGED <<device, propVars, staticVars, pipeVars>>

\* USBH_CDC_InterfaceInit: the two endpoints of interface 1 by their direction,
\* the second of them last.
Chosen(dir, old) ==
  CASE Ep_Desc[1][1].dir = dir -> Ep_Desc[1][1]
    [] Ep_Desc[1][1].dir # dir /\ Ep_Desc[1][0].dir = dir -> Ep_Desc[1][0]
    [] OTHER -> old

InterfaceInit ==
  /\ stage = "input"
  /\ stage' = "class"
  /\ supported' = (Itf_Desc[0].class = "cdc")
  /\ OutEp' = IF supported' THEN Chosen("out", OutEp) ELSE OutEp
  /\ InEp'  = IF supported' THEN Chosen("in", InEp)  ELSE InEp
  /\ UNCHANGED <<device, propVars, staticVars, parse, pastVars>>

\* The memory of the program after a reset, which ends a test.
Cleared ==
  /\ Dev_Desc' = [head |-> "none", tail |-> "none"]
  /\ Itf_Desc' = [n \in ItfNums |-> NoItf]
  /\ Ep_Desc' = [n \in ItfNums |-> [e \in EpNums |-> NoEp]]
  /\ prev_ep_size' = 0 /\ prev_itf' = 0
  /\ OutEp' = NoEp /\ InEp' = NoEp /\ supported' = FALSE
  /\ rejected' = FALSE /\ tainted' = FALSE

\* The device is pulled, which the thread looks at between its calls: before its
\* test has begun HOST_DEV_DISCONNECTED keeps everything here as it is; a test
\* that has begun ends in a reset.
Detach ==
  /\ device # "none" /\ stage # "parse"
  /\ device' = "none"
  /\ stage' = "none"
  /\ \/ stage = "class" /\ Cleared
     \/ UNCHANGED <<propVars, staticVars, pipeVars, pastVars>>
  /\ UNCHANGED parse

DescInit ==
  /\ device = "none" /\ stage = "none" /\ parse = NoParse
  /\ Dev_Desc = [head |-> "none", tail |-> "none"]
  /\ Itf_Desc = [n \in ItfNums |-> NoItf]
  /\ Ep_Desc = [n \in ItfNums |-> [e \in EpNums |-> NoEp]]
  /\ prev_ep_size = 0 /\ prev_itf = 0
  /\ OutEp = NoEp /\ InEp = NoEp /\ supported = FALSE
  /\ rejected = FALSE /\ tainted = FALSE

DescNext ==
  \/ \E kind \in Devices : Attach(kind)
  \/ GetDevDesc \/ GetCfgDesc \/ GetFullCfgDesc
  \/ Outer \/ Inner \/ ParseEnd
  \/ InterfaceInit \/ Detach

DescSpec == DescInit /\ [][DescNext]_descVars

-----------------------------------------------------------------------------
(* Properties *)

\* The settings of interface n that the host looks at.
Settings(d, n) == {i \in DOMAIN d : IsItf(d[i]) /\ d[i].num = n /\ d[i].alt < 3}

\* Within one setting no endpoint is smaller than the one before it.
Rising(d, i) == \A k, l \in Own(d, i) : k < l => d[k].size <= d[l].size

\* One endpoint in each direction: what the data interface of a CDC device has.
BothWays(d, i) == d[i].eps = 2 /\ {d[k].dir : k \in Own(d, i)} = {"in", "out"}

\* A device all of whose settings have endpoints, sizes rising, and are of one
\* class for each interface; a CDC device has a data interface.
Plain(d) ==
  /\ \A i \in DOMAIN d : IsItf(d[i]) => d[i].eps > 0 /\ Rising(d, i)
  /\ \A n \in ItfNums : \A i, j \in Settings(d, n) : d[i].class = d[j].class
  /\ 1 \in Settings(d, 0)
  /\ d[1].class = "cdc" =>
       Settings(d, 1) # {} /\ \A i \in Settings(d, 1) : BothWays(d, i)

\* The settings of an interface follow one another, and those of the data interface
\* use one size for their endpoints.
Uniform(d) ==
  /\ \A i, j \in DOMAIN d : i < j /\ IsItf(d[i]) /\ IsItf(d[j]) => d[i].num <= d[j].num
  /\ \A i \in Settings(d, 1) : \A k, l \in Own(d, i) : d[k].size = d[l].size

DescTypeOK ==
  /\ device \in Devices \cup {"none"}
  /\ stage \in Stages \cup {"none"}
  /\ DOMAIN Itf_Desc = ItfNums /\ DOMAIN Ep_Desc = ItfNums
  /\ \A n \in ItfNums : DOMAIN Ep_Desc[n] = EpNums
  /\ prev_itf \in ItfNums /\ prev_ep_size \in Nat
  /\ parse \in [at : Nat, ptr : Nat, inner : BOOLEAN, pif : Nat, ep_ix : Nat]
  /\ stage = "parse" => parse.at <= Len(Descriptor)
  /\ supported \in BOOLEAN /\ rejected \in BOOLEAN /\ tainted \in BOOLEAN

\* The host judges a device by the device's own interface 0, and opens the
\* pipes of a CDC device on the endpoints of one setting of its own data interface:
\* the sense of "Attached device ... is not supported" (usbh_cdc.c:65).
JudgedByItself ==
  stage = "class" =>
    LET d == Descriptor IN
    /\ Dev_Desc = [head |-> device, tail |-> device]
    /\ supported = (d[1].class = "cdc")
    /\ supported => \E i \in Settings(d, 1) : {OutEp, InEp} = {d[k] : k \in Own(d, i)}

\* That holds of a plain device, whatever devices came before it and however
\* far they got, unless the last of them was refused by the parser.
NothingInherited ==
  device # "none" /\ ~tainted /\ Plain(Descriptor) => JudgedByItself

\* Of alternate settings the one with the largest endpoints is kept, in
\* whatever order they come.
LargestKept ==
  stage = "class" /\ ~tainted /\ Plain(Descriptor) /\ Uniform(Descriptor)
    /\ supported =>
       \A i \in Settings(Descriptor, 1) : \A k \in Own(Descriptor, i) :
         OutEp.size >= Descriptor[k].size

-----------------------------------------------------------------------------
(* What the properties rest on *)

\* The endpoints of the i-th descriptor up to the m-th.
OwnTo(d, i, m) == {k \in Own(d, i) : k <= m}

\* The parser stays inside the descriptors and inside the arrays.
Inside ==
  LET d == Descriptor IN
  IF stage # "parse" THEN parse = NoParse
  ELSE
  /\ bNumInterfaces(d) <= USBH_MAX_NUM_INTERFACES
  /\ parse.at \in 0 .. Len(d) /\ parse.ptr \in Nat
  /\ parse.ptr = HeaderLength + IF parse.at = 0 THEN 0 ELSE d[parse.at].pos
  /\ parse.inner =>
       /\ parse.pif \in 1 .. parse.at
       /\ IsItf(d[parse.pif]) /\ d[parse.pif].alt < 3 /\ ~TooMany(d[parse.pif])
       /\ \A j \in parse.pif + 1 .. parse.at : ~IsItf(d[j])
       /\ parse.ep_ix = Cardinality(OwnTo(d, parse.pif, parse.at)) /\ parse.ep_ix < d[parse.pif].eps

\* Some of the endpoints of the interface looked at are stored, but not all.
Halfway == parse.inner /\ parse.ep_ix > 0

\* The statics begin at 0, unless a device was refused.
Statics == stage # "parse" /\ ~rejected => prev_ep_size = 0 /\ prev_itf = 0
Blame   == stage = "parse" => tainted = rejected

\* The setting that is the i-th descriptor is what is kept of its interface.
Entries(array, count) == {array[j] : j \in 0 .. count - 1}
Whole(d, i) ==
  LET n == d[i].num
  IN /\ Itf_Desc[n] = d[i]
     /\ Entries(Ep_Desc[n], d[i].eps) = {d[k] : k \in Own(d, i)}
Kept(d, n) == \E i \in Settings(d, n) : Whole(d, i)

\* Of an interface of which a setting was passed, a whole one is kept.
Passed(d) ==
  /\ Halfway =>
       LET n == temp_pif.num
       IN /\ Itf_Desc[n] = temp_pif /\ prev_itf = n
          /\ Entries(Ep_Desc[n], parse.ep_ix) = {d[k] : k \in OwnTo(d, parse.pif, parse.at)}
          /\ \E k \in OwnTo(d, parse.pif, parse.at) : prev_ep_size = d[k].size
  /\ \A n \in ItfNums :
       /\ ~(Halfway /\ temp_pif.num = n)
       /\ \/ \E i \in Settings(d, n) : i <= parse.at /\ ~(parse.inner /\ parse.pif = i)
          \/ prev_itf = n /\ prev_ep_size > 0
       => Kept(d, n)

\* It is one with the largest endpoints of those passed.
LargestOf(d, S) ==
  \A i \in S : \A k \in Own(d, i) : d[k].size <= Ep_Desc[1][0].size
Largest(d) ==
  LET S == {i \in Settings(d, 1) :
              i <= parse.at /\ ~(parse.inner /\ parse.pif = i /\ parse.ep_ix = 0)}
  IN IF prev_itf = 1
       THEN prev_ep_size = Ep_Desc[1][0].size /\ LargestOf(d, S)
       ELSE S = {}

\* The state of the parser and of the enumeration.
Based ==
  /\ DescTypeOK
  /\ Inside /\ Statics /\ Blame
  /\ device = "none" <=> stage = "none"
  /\ stage \in Stages \ {"dev_head"} => Dev_Desc.head = device
  /\ stage \in Stages \ {"dev_head", "dev_full"} =>
       Dev_Desc = [head |-> device, tail |-> device]

\* What is kept of the device on the port.
Followed(d) ==
  /\ stage = "parse" => Passed(d) /\ (Uniform(d) => Largest(d))
  /\ stage = "input" =>
       /\ \A n \in ItfNums : Settings(d, n) # {} => Kept(d, n)
       /\ Uniform(d) => LargestOf(d, Settings(d, 1))
  /\ JudgedByItself /\ LargestKept

DescInv ==
  /\ Based
  /\ device # "none" /\ ~tainted /\ Plain(Descriptor) => Followed(Descriptor)
=============================================================================
