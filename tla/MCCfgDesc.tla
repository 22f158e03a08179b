----------------------------- MODULE MCCfgDesc -----------------------------
(***************************************************************************)
(* Devices of the kinds that differ for the parser of their descriptors.   *)
(***************************************************************************)
EXTENDS CfgDesc, SequencesExt

Itf(num, alt, eps, class) ==
  [type |-> "interface", len |-> 9, num |-> num, alt |-> alt, eps |-> eps,
   class |-> class]
Ep(dir, size)  == [type |-> "endpoint", len |-> 7, dir |-> dir, size |-> size]
Functional     == [type |-> "functional", len |-> 5]

Comm == <<Itf(0, 0, 1, "cdc"), Functional, Ep("in", 8)>>
Data(alt, first, second) == <<Itf(1, alt, 2, "data"), first, second>>

\* One after the other in the buffer.
LaidOut(d) ==
  [i \in DOMAIN d |->
     [pos |-> FoldLeft(LAMBDA sum, x : sum + x.len, HeaderLength, SubSeq(d, 1, i - 1))]
       @@ d[i]]

Contents == [
  acm      |-> Comm \o Data(0, Ep("out", 64), Ep("in", 64)),
  acm_in   |-> Comm \o Data(0, Ep("in", 16), Ep("out", 64)),
  \* the second endpoint is the smaller one
  falling  |-> Comm \o Data(0, Ep("out", 64), Ep("in", 16)),
  \* the data interface has alternate settings
  alt_up   |-> Comm \o Data(0, Ep("out", 16), Ep("in", 16))
                    \o Data(1, Ep("out", 64), Ep("in", 64)),
  alt_down |-> Comm \o Data(0, Ep("out", 64), Ep("in", 64))
                    \o Data(1, Ep("out", 16), Ep("in", 16)),
  alt_none |-> Comm \o <<Itf(1, 0, 0, "data")>>
                    \o Data(1, Ep("out", 64), Ep("in", 64)),
  disk     |-> <<Itf(0, 0, 2, "storage"), Ep("in", 64), Ep("out", 64)>>,
  \* its first interface has no endpoint but the control pipe
  bare     |-> <<Itf(0, 0, 0, "vendor")>>,
  \* too many endpoints, too many interfaces
  hub_disk |-> <<Itf(0, 0, 1, "storage"), Ep("in", 64),
                 Itf(1, 0, 4, "vendor"), Ep("in", 64), Ep("in", 64),
                 Ep("in", 64), Ep("in", 64)>>,
  composite|-> Comm \o Data(0, Ep("out", 64), Ep("in", 64))
                    \o <<Itf(2, 0, 1, "hid"), Ep("in", 64)>> ]

Kinds      == [kind \in DOMAIN Contents |-> LaidOut(Contents[kind])]
StaleKinds == [kind \in {"acm", "hub_disk"} |-> Kinds[kind]]
=============================================================================
