------------------------------ MODULE Echonet ------------------------------
(***************************************************************************)
(* internal/echonet: ECHONET Lite frames and the values of the smart       *)
(* meter's properties, from and to bytes.                                  *)
(*                                                                         *)
(* Pure operators. A byte is a number in 0..255. A uint32 stays the four   *)
(* bytes it is made of: the program compares and multiplies it, no more,   *)
(* and TLC's integers end at 2^31 - 1. A value that may be missing (the    *)
(* noData flags) is a set of at most one element. A decoder returns        *)
(* Error or [ok |-> TRUE, ...].                                            *)
(***************************************************************************)
EXTENDS Integers, Sequences, SequencesExt

Error == [ok |-> FALSE]

BE16(n) == <<(n \div 256) % 256, n % 256>>
U16(b) == 256 * b[1] + b[2]
S16(b) == IF b[1] < 128 THEN U16(b) ELSE U16(b) - 65536
S32(b) == 65536 * S16(SubSeq(b, 1, 2)) + U16(SubSeq(b, 3, 4))

-----------------------------------------------------------------------------
(* Services: the answers a request waits for. *)
ESV == [GetRes |-> 114, GetSNA |-> 82, SetRes |-> 113, SetCSNA |-> 81]

IsResponse(esv) == esv \in {ESV.GetRes, ESV.GetSNA, ESV.SetRes, ESV.SetCSNA}

-----------------------------------------------------------------------------
(* Frames: [tid, seoj, deoj, esv, props], a property being [epc, edt].     *)
EHD == <<16, 129>>
EOJMeter == <<2, 136, 1>>
EOJController == <<5, 255, 1>>

EncodeProp(p) == <<p.epc, Len(p.edt) % 256>> \o p.edt

Encode(f) ==
  EHD \o BE16(f.tid) \o f.seoj \o f.deoj \o <<f.esv, Len(f.props) % 256>>
      \o FlattenSeq([i \in DOMAIN f.props |-> EncodeProp(f.props[i])])

(* One pass of Decode's loop: a property that starts at r.off.             *)
(* A mutant: a value that is cut short is taken for as long as it is.      *)
BugShortValue(b, r) ==
  IF ~r.ok \/ r.off + 2 > Len(b) THEN [r EXCEPT !.ok = FALSE]
  ELSE LET end == r.off + 2 + b[r.off + 2]
       IN  [r EXCEPT !.off = end,
                     !.props = Append(@, [epc |-> b[r.off + 1],
                        edt |-> SubSeq(b, r.off + 3, IF end > Len(b) THEN Len(b) ELSE end)])]

DecodeProp(b, r) ==
  LET whole == r.off + 2 <= Len(b) /\ r.off + 2 + b[r.off + 2] <= Len(b)
      end == r.off + 2 + b[r.off + 2]
  IN  IF r.ok /\ whole
      THEN [r EXCEPT !.off = end,
                     !.props = Append(@, [epc |-> b[r.off + 1],
                                          edt |-> SubSeq(b, r.off + 3, end)])]
      ELSE [r EXCEPT !.ok = FALSE]

(* Decode's loop: what it has after each of the OPC passes. What comes      *)
(* after the last property is not looked at.                               *)
Passes(b) ==
  LET after[n \in 0..b[12]] ==
        IF n = 0 THEN [ok |-> TRUE, off |-> 12, props |-> <<>>]
        ELSE DecodeProp(b, after[n - 1])
  IN  after
DecodeProps(b) == Passes(b)[b[12]]

Decode(b) ==
  IF Len(b) < 12 \/ SubSeq(b, 1, 2) # EHD \/ ~DecodeProps(b).ok THEN Error
  ELSE [ok |-> TRUE,
        frame |-> [tid |-> U16(SubSeq(b, 3, 4)), seoj |-> SubSeq(b, 5, 7),
                   deoj |-> SubSeq(b, 8, 10), esv |-> b[11],
                   props |-> DecodeProps(b).props]]

(* Frame.EDT: the first property of that code, as a set of at most one.    *)
EDT(f, epc) ==
  {f.props[i].edt : i \in {i \in DOMAIN f.props :
     f.props[i].epc = epc /\ \A j \in 1..(i - 1) : f.props[j].epc # epc}}

-----------------------------------------------------------------------------
(* Property maps: a list of fewer than 16 codes, or a bitmap in which bit  *)
(* k of byte i stands for code 16 * (k + 8) + i. The callers make a set of *)
(* the codes.                                                              *)
Bit(byte, k) == (byte \div 2^k) % 2 = 1

(* A mutant: the first column's codes taken to be 0..15.                   *)
BugNoOffset(edt) ==
  {16 * c[2] + c[1] : c \in {c \in (0..15) \X (0..7) : Bit(edt[2 + c[1]], c[2])}}

BitmapCodes(edt) ==
  {16 * (c[2] + 8) + c[1] : c \in {c \in (0..15) \X (0..7) : Bit(edt[2 + c[1]], c[2])}}

DecodePropertyMap(edt) ==
  IF edt = <<>> THEN Error
  ELSE IF edt[1] < 16
    THEN IF Len(edt) < 1 + edt[1] THEN Error
         ELSE [ok |-> TRUE, epcs |-> {edt[1 + i] : i \in 1..edt[1]}]
    ELSE IF Len(edt) < 17 THEN Error
         ELSE [ok |-> TRUE, epcs |-> BitmapCodes(edt)]

-----------------------------------------------------------------------------
(* Values of the meter's properties. A time is the seven bytes of its      *)
(* year, month, day, hour, minute and second.                              *)
EPC == [Fault |-> 136, Map |-> 159, Min1 |-> 208, Coefficient |-> 211, Fwd |-> 224,
        Unit |-> 225, Power |-> 231, Current |-> 232, Scheduled |-> 234]

Opt(missing, v) == IF missing THEN {} ELSE {v}

NoData32 == <<255, 255, 255, 254>>
Energy(raw) == Opt(raw = NoData32, raw)

DecodeCumulativeEnergy(edt) ==
  IF Len(edt) # 4 THEN Error ELSE [ok |-> TRUE, raw |-> Energy(edt)]

DecodeScheduled30(edt) ==
  IF Len(edt) # 11 THEN Error
  ELSE [ok |-> TRUE, time |-> SubSeq(edt, 1, 7), raw |-> Energy(SubSeq(edt, 8, 11))]

DecodeCumulative1Min(edt) ==
  IF Len(edt) # 15 THEN Error
  ELSE [ok |-> TRUE, time |-> SubSeq(edt, 1, 7), fwd |-> Energy(SubSeq(edt, 8, 11)),
        rev |-> Energy(SubSeq(edt, 12, 15))]

NoPower == {<<128, 0, 0, 0>>, <<127, 255, 255, 255>>, <<127, 255, 255, 254>>}

(* A mutant: the codes for out of range are taken for values.              *)
BugOneNoData(edt) ==
  IF Len(edt) # 4 THEN Error
  ELSE [ok |-> TRUE, watt |-> Opt(edt = <<127, 255, 255, 254>>, S32(edt))]

DecodeInstantPower(edt) ==
  IF Len(edt) # 4 THEN Error
  ELSE [ok |-> TRUE, watt |-> Opt(edt \in NoPower, S32(edt))]

(* In tenths of an ampere, phases R and T. *)
Ampere(b) == Opt(b = <<127, 254>>, S16(b))

DecodeCurrent(edt) ==
  IF Len(edt) # 4 THEN Error
  ELSE [ok |-> TRUE, r |-> Ampere(SubSeq(edt, 1, 2)), t |-> Ampere(SubSeq(edt, 3, 4))]

(* UnitKwh, as a power of ten; a code that is not listed means 0 kWh.      *)
Exponents == 0..4 \cup 10..13
UnitKwh(code) == Opt(code \notin Exponents, IF code < 10 THEN -code ELSE code - 9)
=============================================================================
