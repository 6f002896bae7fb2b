--------------------------- MODULE SpiFlash_proof ---------------------------
(* Proofs about the SPI flash tool, for any number of pucks, sectors, pieces *)
(* and faults.                                                               *)
EXTENDS SpiFlash, WellFoundedInduction, TLAPS

-----------------------------------------------------------------------------
(* The inductive invariant. *)

(* SpiTypeOK, part by part.                                                  *)
EcTypeOK ==
    /\ rails \subseteq AllRails /\ deferred \subseteq {"on", "off"}
    /\ apIsOn \in BOOLEAN /\ bridge \in BOOLEAN /\ offered \in BOOLEAN

JobTypeOK ==
    /\ cmd \in {"none", "read", "unprotect", "flash", "boot"}
    /\ result \in {"none", "running", "ok", "failed"}
    /\ got \in {<<"nobody", "none">>} \cup (Pucks \X {"zeros", "stock", "rekeyed", "torn"})
    /\ pieces \subseteq {r \in Sectors \X Sectors : r[1] <= r[2]}
    /\ cmd = "flash" <=> pieces # {}

SessTypeOK ==
    /\ sess \in {"closed", "parked", "open"} /\ spent \in BOOLEAN /\ same \in BOOLEAN
    /\ at \in {"start", "again", "erase", "program", "verify", "off", "on"}
    /\ pos \in Sectors /\ first \in {"none", "true", "zeros", "noise", "mixed"}

PuckTypeOK ==
    attached \in Pucks /\ protect \subseteq Pucks /\ chip \in [Pucks -> [Sectors -> Values]]

(* A session belongs to a command, and no loop runs without one.             *)
SessionOK ==
    /\ sess # "closed" => cmd \in {"read", "unprotect", "flash"}
    /\ sess = "closed" /\ cmd # "boot" => at = "start"

(* An AP that runs, or is about to, behind an open session was offered power.*)
WakeOK == sess = "open" /\ ("on" \in deferred \/ ApRuns) => offered

(* The loops of write_region stay in their piece, and what the read-back has *)
(* passed is on the chip.                                                    *)
PieceOK ==
    cmd = "flash" =>
        /\ at \in {"erase", "program", "verify"} => pos \in Cur[1]..Cur[2]
        /\ at = "verify" /\ same =>
              \A s \in Sectors : s \in Cur[1]..(pos - 1) => Here[s] = "new" \/ s \in Zero

(* No piece has sectors both of the GBB and of a slot.                       *)
OrderOK == \A r \in pieces : r[1]..r[2] \subseteq GBB \/ r[1]..r[2] \cap GBB = {}

SpiInv == SpiTypeOK /\ SessionOK /\ WakeOK /\ PieceOK /\ OrderOK /\ VerifiedIsOnChip
-----------------------------------------------------------------------------
(* Pieces *)

(* A set of naturals that is not empty has a least element.                  *)
LEMMA LeastExists ==
    ASSUME NEW S \in SUBSET Nat, S # {}
    PROVE  \E m \in S : \A k \in S : m <= k
<1> DEFINE Less == {ss \in Nat \X Nat : ss[1] < ss[2]}
<1>1. IsWellFoundedOn(Less, Nat)
  BY NatLessThanWellFounded DEF OpToRel
<1>2. PICK m \in S : \A k \in S : <<k, m>> \notin Less
  BY <1>1, WFMin
<1>3. ASSUME NEW k \in S PROVE m <= k
  <2>1. k \in Nat /\ m \in Nat
    OBVIOUS
  <2>2. k < m => <<k, m>> \in Less
    BY <2>1
  <2> HIDE DEF Less
  <2>3. ~(k < m)
    BY <1>2, <2>2
  <2> QED
    BY <2>1, <2>3
<1> QED
  BY <1>3

(* The sectors are numbered from 1.                                          *)
LEMMA SectorFacts ==
    /\ Last \in Nat /\ Last >= 1 /\ 1 \in Sectors /\ Sectors \subseteq Nat
    /\ \A s \in Nat : s \in Sectors <=> 1 <= s /\ s <= Last
    /\ \A i, j \in Sectors : \A s \in i..j : s \in Sectors
    /\ MaxFaults \in Nat
<1>1. Last \in Nat /\ Last >= 1 /\ MaxFaults \in Nat
  BY SpiFlashAssumption
<1> QED
  BY <1>1 DEF Sectors

(* The sector after one that is not the last of a piece is a sector.         *)
LEMMA NextSector ==
    ASSUME NEW i \in Sectors, NEW j \in Sectors, i < j PROVE i + 1 \in Sectors
<1>1. i \in Nat /\ j \in Nat /\ 1 <= i /\ j <= Last /\ Last \in Nat
  BY SectorFacts
<1>2. i + 1 \in Nat /\ 1 <= i + 1 /\ i + 1 <= Last
  BY <1>1
<1> QED
  BY <1>2, SectorFacts

(* The current piece is one that is left, and the first of them.             *)
LEMMA CurIsFirst ==
    ASSUME JobTypeOK, cmd = "flash"
    PROVE  /\ Cur \in pieces /\ \A q \in pieces : Cur[1] <= q[1]
           /\ Cur[1] \in Sectors /\ Cur[2] \in Sectors /\ Cur[1] <= Cur[2]
<1> DEFINE S == {r[1] : r \in pieces}
<1>1. pieces # {} /\ \A r \in pieces : r \in Sectors \X Sectors /\ r[1] <= r[2]
  BY DEF JobTypeOK
<1>2. S \in SUBSET Nat /\ S # {}
  BY <1>1, SectorFacts
<1>3. PICK m \in S : \A k \in S : m <= k
  BY <1>2, LeastExists
<1>4. \E r \in pieces : \A q \in pieces : r[1] <= q[1]
  BY <1>3
<1>5. Cur \in pieces /\ \A q \in pieces : Cur[1] <= q[1]
  BY <1>4 DEF Cur
<1> QED
  BY <1>1, <1>5

(* Halving a piece gives two pieces of the same sectors.                     *)
LEMMA HalveFacts ==
    ASSUME NEW r \in Sectors \X Sectors, r[1] < r[2]
    PROVE  /\ Halve(r) \subseteq {h \in Sectors \X Sectors : h[1] <= h[2]}
           /\ Halve(r) # {}
           /\ \A h \in Halve(r) : h[1]..h[2] \subseteq r[1]..r[2]
           /\ \A s \in r[1]..r[2] : \E h \in Halve(r) : s \in h[1]..h[2]
<1> DEFINE mid == (r[1] + r[2]) \div 2
<1>1. r[1] \in Nat /\ r[2] \in Nat
  BY SectorFacts
<1>2. mid \in Nat /\ r[1] <= mid /\ mid < r[2]
  BY <1>1
<1>3. Halve(r) = {<<r[1], mid>>, <<mid + 1, r[2]>>}
  BY DEF Halve
<1> HIDE DEF mid
<1>4. mid \in Sectors /\ mid + 1 \in Sectors /\ r[1] \in Sectors /\ r[2] \in Sectors
  BY <1>1, <1>2, SectorFacts
<1>5. Halve(r) \subseteq {h \in Sectors \X Sectors : h[1] <= h[2]}
  BY <1>1, <1>2, <1>3, <1>4
<1>6. \A h \in Halve(r) : h[1]..h[2] \subseteq r[1]..r[2]
  BY <1>1, <1>2, <1>3
<1>7. ASSUME NEW s \in r[1]..r[2]
      PROVE  s \in r[1]..mid \/ s \in (mid + 1)..r[2]
  BY <1>1, <1>2
<1> QED
  BY <1>3, <1>5, <1>6, <1>7

(* The halves of a piece are inside it and smaller.                          *)
LEMMA HalveShrinks ==
    ASSUME NEW r \in Sectors \X Sectors, r[1] < r[2]
    PROVE  \A h \in Halve(r) : r[1] <= h[1] /\ h[2] <= r[2] /\ h[2] - h[1] < r[2] - r[1]
<1> DEFINE mid == (r[1] + r[2]) \div 2
<1>1. r[1] \in Nat /\ r[2] \in Nat
  BY SectorFacts
<1>2. mid \in Nat /\ r[1] <= mid /\ mid < r[2]
  BY <1>1
<1>3. Halve(r) = {<<r[1], mid>>, <<mid + 1, r[2]>>}
  BY DEF Halve
<1> HIDE DEF mid
<1> QED
  BY <1>1, <1>2, <1>3

(* Splitting the current piece leaves the sectors that are done the same.    *)
LEMMA SplitKeepsWritten ==
    ASSUME JobTypeOK, cmd = "flash", Cur[1] < Cur[2],
           pieces' = (pieces \ {Cur}) \cup Halve(Cur)
    PROVE  Written' = Written
<1>1. Cur \in pieces /\ Cur \in Sectors \X Sectors
  BY CurIsFirst DEF JobTypeOK
<1>2. \A h \in Halve(Cur) : h[1]..h[2] \subseteq Cur[1]..Cur[2]
  BY <1>1, HalveFacts
<1>3. \A s \in Cur[1]..Cur[2] : \E h \in Halve(Cur) : s \in h[1]..h[2]
  BY <1>1, HalveFacts
<1>4. ASSUME NEW s \in Sectors
      PROVE  (\E r \in pieces : s \in r[1]..r[2]) <=> (\E r \in pieces' : s \in r[1]..r[2])
  BY <1>1, <1>2, <1>3
<1> QED
  BY <1>4 DEF Written
-----------------------------------------------------------------------------
(* Type correctness *)

(* SpiTypeOK is the conjunction of its parts.                                *)
LEMMA TypeParts ==
    /\ SpiTypeOK <=> /\ EcTypeOK /\ JobTypeOK /\ SessTypeOK /\ PuckTypeOK
                     /\ faults \in 0..MaxFaults
    /\ SpiTypeOK' <=> /\ EcTypeOK' /\ JobTypeOK' /\ SessTypeOK' /\ PuckTypeOK'
                      /\ faults' \in 0..MaxFaults
  BY DEF SpiTypeOK, EcTypeOK, JobTypeOK, SessTypeOK, PuckTypeOK

(* The EC's actions keep the types of its variables.                         *)
LEMMA EcType ==
    ASSUME EcTypeOK,
           \/ EcReset \/ SetApPowerOn \/ SetApPowerOff \/ PdInputCurrent \/ SpiEnable \/ SpiDisable
           \/ UNCHANGED ecVars
           \/ SetApPower("on") /\ UNCHANGED <<rails, apIsOn, bridge, offered>>
           \/ SetApPower("off") /\ UNCHANGED <<rails, apIsOn, bridge, offered>>
    PROVE  EcTypeOK'
<1> USE DEF EcTypeOK, AllRails
<1>1. CASE EcReset
  BY <1>1 DEF EcReset
<1>2. CASE SetApPowerOn \/ SetApPowerOff
  BY <1>2 DEF SetApPowerOn, SetApPowerOff
<1>3. CASE SetApPower("on") /\ UNCHANGED <<rails, apIsOn, bridge, offered>>
  BY <1>3 DEF SetApPower
<1>4. CASE SetApPower("off") /\ UNCHANGED <<rails, apIsOn, bridge, offered>>
  BY <1>4 DEF SetApPower
<1>5. CASE PdInputCurrent
  BY <1>5 DEF PdInputCurrent, SetApPower
<1>6. CASE SpiEnable \/ SpiDisable
  BY <1>6 DEF SpiEnable, SpiDisable
<1>7. CASE UNCHANGED ecVars
  BY <1>7 DEF ecVars
<1> QED
  BY <1>1, <1>2, <1>3, <1>4, <1>5, <1>6, <1>7

(* A session that is over has its types.                                     *)
LEMMA ClosedType == Closed => SessTypeOK'
  BY SectorFacts DEF Closed, SessTypeOK

(* So has a command that ends, whatever is in the file it wrote.             *)
LEMMA EndsType ==
    ASSUME NEW how \in {"ok", "failed"}, Ends(how),
           got' \in {<<"nobody", "none">>} \cup (Pucks \X {"zeros", "stock", "rekeyed", "torn"})
    PROVE  JobTypeOK' /\ SessTypeOK'
  BY ClosedType DEF Ends, JobTypeOK

(* So has the failure of one, which may split a piece and go on.             *)
LEMMA FatalErrorType ==
    ASSUME JobTypeOK, FatalError \/ Escapes
    PROVE  JobTypeOK' /\ SessTypeOK'
<1>1. CASE FatalError /\ cmd = "flash" /\ Cur[1] < Cur[2]
  <2>1. Cur \in Sectors \X Sectors
    BY <1>1, CurIsFirst DEF JobTypeOK
  <2>2. /\ Halve(Cur) \subseteq {h \in Sectors \X Sectors : h[1] <= h[2]}
        /\ Halve(Cur) # {}
    BY <1>1, <2>1, HalveFacts
  <2>3. /\ pieces' \subseteq {h \in Sectors \X Sectors : h[1] <= h[2]}
        /\ pieces' # {}
    BY <1>1, <2>2 DEF FatalError, JobTypeOK
  <2>4. SessTypeOK'
    BY <1>1, ClosedType DEF FatalError
  <2> QED
    BY <1>1, <2>3, <2>4 DEF FatalError, JobTypeOK
<1>2. CASE Escapes \/ ~(cmd = "flash" /\ Cur[1] < Cur[2])
  <2>1. Ends("failed") /\ got' = got
    BY <1>2 DEF FatalError, Escapes
  <2> QED
    BY <2>1, EndsType DEF JobTypeOK
<1> QED
  BY <1>1, <1>2

(* Writing a sector with a value keeps the types of the pucks.               *)
LEMMA PutType ==
    ASSUME PuckTypeOK, NEW s \in Sectors, NEW v \in Values, Put(s, v),
           UNCHANGED <<attached, protect>>
    PROVE  PuckTypeOK'
<1>1. chip' \in [Pucks -> [Sectors -> Values]]
  BY DEF PuckTypeOK, Put
<1> QED
  BY <1>1 DEF PuckTypeOK

(* What an interrupted write leaves are values of a sector.                  *)
LEMMA TornType ==
    ASSUME PuckTypeOK, SessTypeOK
    PROVE  Torn \subseteq Values /\ Here[pos] \in Values
  BY DEF Torn, PuckTypeOK, SessTypeOK, Values, Here

(* The faults are counted up to the bound.                                   *)
LEMMA FaultType ==
    ASSUME faults \in 0..MaxFaults, Fault PROVE faults' \in 0..MaxFaults
  BY SectorFacts DEF Fault

(* What Content tells of a puck.                                             *)
LEMMA ContentType == \A p \in Pucks : Content[p] \in {"stock", "rekeyed", "torn"}
  BY DEF Content

(* The types are kept by every step.                                         *)
LEMMA SpiTypeStep ==
    ASSUME SpiTypeOK, [SpiNext]_spiVars
    PROVE  SpiTypeOK'
<1>0. EcTypeOK /\ JobTypeOK /\ SessTypeOK /\ PuckTypeOK /\ faults \in 0..MaxFaults
  BY TypeParts
<1>f. Fault => faults' \in 0..MaxFaults
  BY <1>0, FaultType
<1>e. TearDown => EcTypeOK' /\ JobTypeOK' /\ SessTypeOK'
  BY <1>0, EcType, FatalErrorType DEF TearDown
<1>j. UNCHANGED jobVars => JobTypeOK'
  BY <1>0 DEF jobVars, JobTypeOK
<1>p. UNCHANGED puckVars => PuckTypeOK'
  BY <1>0 DEF puckVars, PuckTypeOK
<1>t. (\E v \in Torn : Put(pos, v)) /\ UNCHANGED <<attached, protect>> => PuckTypeOK'
  BY <1>0, TornType, PutType DEF SessTypeOK
<1>c. UNCHANGED ecVars => EcTypeOK'
  BY <1>0, EcType
<1> USE TypeParts
<1>1. CASE EcStep
  <2>1. EcTypeOK'
    BY <1>0, <1>1, EcType DEF EcStep
  <2>2. SessTypeOK'
    BY <1>0, <1>1 DEF EcStep, sessVars, SessTypeOK
  <2> QED
    BY <1>0, <1>1, <1>j, <1>p, <2>1, <2>2 DEF EcStep
<1>2. CASE Charger
  <2>1. EcTypeOK'
    BY <1>0, <1>2, EcType DEF Charger
  <2>2. SessTypeOK'
    BY <1>0, <1>2 DEF Charger, sessVars, SessTypeOK
  <2> QED
    BY <1>2, <1>f, <1>j, <1>p, <2>1, <2>2 DEF Charger
<1>3. CASE Park
  <2>1. EcTypeOK'
    BY <1>0, <1>3, EcType DEF Park
  <2>2. SessTypeOK'
    BY <1>0, <1>3 DEF Park, SessTypeOK
  <2> QED
    BY <1>0, <1>3, <1>j, <1>p, <2>1, <2>2 DEF Park
<1>4. CASE Enable
  <2>1. EcTypeOK'
    BY <1>0, <1>4, EcType DEF Enable
  <2>2. SessTypeOK'
    BY <1>0, <1>4 DEF Enable, SessTypeOK
  <2> QED
    BY <1>0, <1>4, <1>j, <1>p, <2>1, <2>2 DEF Enable
<1>5. CASE BringUpFails
  <2>1. EcTypeOK'
    BY <1>0, <1>5, EcType DEF BringUpFails
  <2>2. JobTypeOK' /\ SessTypeOK'
    BY <1>0, <1>5, FatalErrorType DEF BringUpFails
  <2>3. faults' \in 0..MaxFaults
    BY <1>0, <1>5, <1>f DEF BringUpFails
  <2> QED
    BY <1>5, <1>p, <2>1, <2>2, <2>3 DEF BringUpFails
<1>6. CASE SessionSpent
  <2>1. SessTypeOK'
    BY <1>0, <1>6 DEF SessionSpent, SessTypeOK
  <2> QED
    BY <1>6, <1>c, <1>f, <1>j, <1>p, <2>1 DEF SessionSpent
<1>7. CASE ApAbort
  BY <1>0, <1>7, <1>e, <1>t DEF ApAbort
<1>8. CASE UsbFails
  <2>1. EcTypeOK'
    BY <1>0, <1>8, EcType DEF UsbFails
  <2>2. JobTypeOK' /\ SessTypeOK'
    BY <1>0, <1>8, FatalErrorType DEF UsbFails
  <2> QED
    BY <1>8, <1>f, <1>t, <2>1, <2>2 DEF UsbFails
<1>9. CASE Killed
  <2>1. JobTypeOK' /\ SessTypeOK'
    BY <1>0, <1>9, EndsType DEF Killed, JobTypeOK
  <2> QED
    BY <1>9, <1>c, <1>f, <1>t, <2>1 DEF Killed
<1>10. CASE ReadFirst
  <2>1. SessTypeOK'
    BY <1>0, <1>10 DEF ReadFirst, SessTypeOK, Seen
  <2>2. faults' \in 0..MaxFaults
    BY <1>0, <1>10, <1>f DEF ReadFirst
  <2> QED
    BY <1>10, <1>c, <1>j, <1>p, <2>1, <2>2 DEF ReadFirst
<1>11. CASE ReadAgain
  <2>1. CASE Agree
    <3>1. got' \in Pucks \X {"zeros", "stock", "rekeyed", "torn"}
      BY <1>0, <1>11, <2>1, ContentType DEF ReadAgain, Agree, PuckTypeOK
    <3>2. JobTypeOK' /\ SessTypeOK' /\ EcTypeOK'
      BY <1>0, <1>11, <2>1, <3>1, EndsType, EcType DEF ReadAgain
    <3> QED
      BY <1>0, <1>11, <1>p, <3>2 DEF ReadAgain
  <2>2. CASE ~Agree
    BY <1>0, <1>11, <1>e, <1>p, <2>2 DEF ReadAgain
  <2> QED
    BY <2>1, <2>2
<1>12. CASE Unprotect
  <2>1. EcTypeOK' /\ JobTypeOK' /\ SessTypeOK'
    BY <1>0, <1>12, EcType, EndsType DEF Unprotect, JobTypeOK
  <2>2. PuckTypeOK'
    BY <1>0, <1>12 DEF Unprotect, PuckTypeOK
  <2> QED
    BY <1>0, <1>12, <2>1, <2>2 DEF Unprotect
<1>13. CASE PieceStart
  <2>1. CASE Answers /\ attached \in protect
    BY <1>0, <1>13, <1>e, <1>p, <2>1 DEF PieceStart
  <2>2. CASE ~(Answers /\ attached \in protect)
    <3>1. SessTypeOK'
      BY <1>0, <1>13, <2>2, CurIsFirst DEF PieceStart, SessTypeOK
    <3> QED
      BY <1>0, <1>13, <1>c, <1>j, <1>p, <2>2, <3>1 DEF PieceStart
  <2> QED
    BY <2>1, <2>2
<1>a. ASSUME NEW then \in {"program", "verify"}, cmd = "flash", Advance(then), spent' \in BOOLEAN
      PROVE  EcTypeOK' /\ JobTypeOK' /\ SessTypeOK'
  <2>1. Cur[1] \in Sectors /\ Cur[2] \in Sectors
    BY <1>0, <1>a, CurIsFirst
  <2>2. pos < Cur[2] => pos + 1 \in Sectors
    BY <1>0, <2>1, NextSector DEF SessTypeOK
  <2>3. SessTypeOK'
    BY <1>0, <1>a, <2>1, <2>2 DEF Advance, SessTypeOK
  <2> QED
    BY <1>a, <1>c, <1>j, <2>3 DEF Advance
<1>14. CASE Erase
  <2>1. CASE Answers
    <3>1. PuckTypeOK'
      BY <1>0, <1>14, <2>1, PutType DEF Erase, Values, SessTypeOK
    <3> QED
      BY <1>0, <1>14, <1>a, <2>1, <3>1 DEF Erase, SessTypeOK
  <2>2. CASE ~Answers
    <3>1. \E v \in Values : Put(pos, v)
      BY <1>0, <1>14, <2>2, TornType DEF Erase
    <3>2. PuckTypeOK'
      BY <1>0, <1>14, <3>1, PutType DEF Erase, SessTypeOK
    <3> QED
      BY <1>0, <1>14, <1>e, <2>2, <3>2 DEF Erase
  <2> QED
    BY <2>1, <2>2
<1>15. CASE Program
  <2>1. \E v \in Values : Put(pos, v)
    BY <1>0, <1>15, TornType DEF Program, Values
  <2>2. PuckTypeOK'
    BY <1>0, <1>15, <2>1, PutType DEF Program, SessTypeOK
  <2>3. spent' \in BOOLEAN /\ faults' \in 0..MaxFaults
    BY <1>0, <1>15, <1>f DEF Program, SessTypeOK
  <2> QED
    BY <1>0, <1>15, <1>a, <2>2, <2>3 DEF Program
<1>16. CASE VerifySector
  <2>1. pos + 1 \in Sectors
    BY <1>0, <1>16, CurIsFirst, NextSector DEF VerifySector, SessTypeOK
  <2>2. SessTypeOK'
    BY <1>0, <1>16, <2>1 DEF VerifySector, SessTypeOK
  <2> QED
    BY <1>0, <1>16, <1>c, <1>j, <1>p, <2>2 DEF VerifySector
<1>17. CASE VerifyEnds
  <2>1. CASE ~(same /\ Matches(pos))
    BY <1>0, <1>17, <1>e, <1>p, <2>1 DEF VerifyEnds
  <2>2. CASE same /\ Matches(pos) /\ pieces = {Cur}
    BY <1>0, <1>17, <1>p, <2>2, EcType, EndsType DEF VerifyEnds, JobTypeOK
  <2>3. CASE same /\ Matches(pos) /\ pieces # {Cur}
    <3>1. pieces \ {Cur} # {}
      BY <1>0, <1>17, <2>3, CurIsFirst DEF VerifyEnds
    <3>2. JobTypeOK'
      BY <1>0, <1>17, <2>3, <3>1 DEF VerifyEnds, JobTypeOK
    <3> QED
      BY <1>0, <1>17, <1>p, <2>3, <3>2, EcType, ClosedType DEF VerifyEnds
  <2> QED
    BY <2>1, <2>2, <2>3
<1>18. CASE RebootEc \/ CycleAp
  <2>1. EcTypeOK'
    BY <1>0, <1>18, EcType DEF RebootEc, CycleAp
  <2>2. SessTypeOK'
    BY <1>0, <1>18 DEF RebootEc, CycleAp, SessTypeOK
  <2> QED
    BY <1>0, <1>18, <1>j, <1>p, <2>1, <2>2 DEF RebootEc, CycleAp
<1>19. CASE CaptureBoot
  <2>1. JobTypeOK' /\ SessTypeOK'
    BY <1>0, <1>19, EndsType DEF CaptureBoot, JobTypeOK
  <2> QED
    BY <1>0, <1>19, <1>c, <1>p, <2>1 DEF CaptureBoot
<1>20. ASSUME NEW c \in {"read", "unprotect", "flash", "boot"}, Launch(c) PROVE SpiTypeOK'
  <2>1. Plan \subseteq {r \in Sectors \X Sectors : r[1] <= r[2]} /\ Plan # {}
    BY SpiFlashAssumption, SectorFacts
  <2>2. JobTypeOK'
    BY <1>0, <1>20, <2>1 DEF Launch, JobTypeOK
  <2>3. SessTypeOK'
    BY <1>0, <1>20 DEF Launch, sessVars, SessTypeOK
  <2> QED
    BY <1>0, <1>20, <1>c, <1>p, <2>2, <2>3 DEF Launch
<1>21. CASE Swap
  <2>1. SessTypeOK' /\ PuckTypeOK'
    BY <1>0, <1>21 DEF Swap, sessVars, SessTypeOK, PuckTypeOK
  <2>2. EcTypeOK'
    BY <1>0, <1>21, EcType DEF Swap
  <2> QED
    BY <1>0, <1>21, <1>j, <2>1, <2>2 DEF Swap
<1>22. CASE UNCHANGED spiVars
  BY <1>22 DEF spiVars, ecVars, jobVars, sessVars, puckVars, SpiTypeOK
<1> QED
  BY <1>1, <1>2, <1>3, <1>4, <1>5, <1>6, <1>7, <1>8, <1>9, <1>10, <1>11, <1>12, <1>13, <1>14,
     <1>15, <1>16, <1>17, <1>18, <1>19, <1>20, <1>21, <1>22 DEF SpiNext, ToolStep
-----------------------------------------------------------------------------
(* What the steps do to sessions, pieces and flash *)

(* A failure ends the command, or splits the piece of a flash; a USBError    *)
(* always ends it.                                                           *)
LEMMA FatalErrorEffect ==
    ASSUME FatalError \/ Escapes
    PROVE  /\ Closed /\ got' = got
           /\ \/ cmd' = "none" /\ result' = "failed" /\ pieces' = {}
              \/ /\ cmd = "flash" /\ cmd' = "flash" /\ result' = result
                 /\ Cur[1] < Cur[2] /\ pieces' = (pieces \ {Cur}) \cup Halve(Cur)
  BY DEF FatalError, Escapes, Ends

(* A step of the tool or a fault goes on with the session of the command, or *)
(* ends the session, and then the command or its piece.                      *)
LEMMA StepEffect ==
    ASSUME SessionOK, ToolStep \/ SessionSpent \/ UsbFails \/ Killed
    PROVE  /\ attached' = attached
           /\ \/ cmd' = cmd /\ pieces' = pieces /\ cmd # "none"
              \/ Closed /\ cmd' = "none"
              \/ /\ Closed /\ cmd = "flash" /\ cmd' = "flash" /\ Cur[1] < Cur[2]
                 /\ pieces' = (pieces \ {Cur}) \cup Halve(Cur)
              \/ /\ Closed /\ cmd = "flash" /\ cmd' = "flash" /\ pieces' = pieces \ {Cur}
                 /\ VerifyEnds /\ same /\ Matches(pos)
<1> USE FatalErrorEffect DEF jobVars, puckVars
<1>1. CASE Park \/ RebootEc \/ CycleAp
  BY <1>1 DEF Park, RebootEc, CycleAp
<1>2. CASE ReadFirst
  BY <1>2 DEF ReadFirst
<1>3. CASE BringUpFails \/ ApAbort \/ UsbFails
  BY <1>3 DEF BringUpFails, ApAbort, UsbFails, TearDown
<1>4. CASE Killed \/ Unprotect \/ CaptureBoot
  BY <1>4 DEF Killed, Unprotect, CaptureBoot, Ends
<1>5. CASE ReadAgain
  BY <1>5 DEF ReadAgain, TearDown, Ends
<1>6. CASE PieceStart
  BY <1>6 DEF PieceStart, TearDown
<1>7. CASE Erase
  BY <1>7 DEF Erase, TearDown, Advance
<1>8. CASE Program \/ VerifySector
  BY <1>8 DEF Program, VerifySector, Advance
<1>9. CASE VerifyEnds
  BY <1>9 DEF VerifyEnds, TearDown, Ends
<1>10. CASE Enable
  BY <1>10 DEF Enable, SessionOK
<1>11. CASE SessionSpent
  BY <1>11 DEF SessionSpent, SessionOK
<1> QED
  BY <1>1, <1>2, <1>3, <1>4, <1>5, <1>6, <1>7, <1>8, <1>9, <1>10, <1>11 DEF ToolStep

(* A sector changes only while write_region is at it, or drops it there.     *)
LEMMA ChipEffect ==
    ASSUME SpiTypeOK, [SpiNext]_spiVars,
           NEW p \in Pucks, NEW s \in Sectors, chip'[p][s] # chip[p][s]
    PROVE  p = attached /\ s = pos /\ cmd = "flash" /\ at \in {"erase", "program"}
<1>0. /\ attached \in Pucks /\ pos \in Sectors /\ chip \in [Pucks -> [Sectors -> Values]]
      /\ UNCHANGED puckVars => chip' = chip
  BY DEF SpiTypeOK, puckVars
<1>1. ASSUME NEW v, Put(pos, v)
      PROVE  p = attached /\ s = pos /\ v # Here[pos]
  BY <1>0, <1>1 DEF Put, Here
<1>2. ASSUME \E v \in Torn : Put(pos, v)
      PROVE  p = attached /\ s = pos /\ cmd = "flash" /\ at \in {"erase", "program"}
  BY <1>1, <1>2 DEF Torn
<1>3. CASE ApAbort \/ UsbFails \/ Killed
  BY <1>2, <1>3 DEF ApAbort, UsbFails, Killed
<1>4. CASE Erase
  BY <1>1, <1>4 DEF Erase
<1>5. CASE Program
  BY <1>1, <1>5 DEF Program
<1>6. CASE \/ Park \/ Enable \/ BringUpFails \/ ReadFirst \/ ReadAgain \/ Unprotect \/ PieceStart
           \/ VerifySector \/ VerifyEnds \/ RebootEc \/ CycleAp \/ CaptureBoot
  <2>1. chip' = chip
    BY <1>0, <1>6 DEF Park, Enable, BringUpFails, ReadFirst, ReadAgain, Unprotect, PieceStart,
                     VerifySector, VerifyEnds, RebootEc, CycleAp, CaptureBoot
  <2> QED
    BY <2>1
<1>7. CASE EcStep \/ Charger \/ SessionSpent \/ UNCHANGED spiVars
  <2>1. chip' = chip
    BY <1>0, <1>7 DEF EcStep, Charger, SessionSpent, spiVars
  <2> QED
    BY <2>1
<1>8. CASE Swap \/ \E c \in {"read", "unprotect", "flash", "boot"} : Launch(c)
  <2>1. chip' = chip
    BY <1>0, <1>8 DEF Swap, Launch
  <2> QED
    BY <2>1
<1> QED
  BY <1>3, <1>4, <1>5, <1>6, <1>7, <1>8 DEF SpiNext, ToolStep

(* Sessions open, park and close as commands come and go.                    *)
LEMMA SessionStep ==
    ASSUME SpiTypeOK, SessionOK, [SpiNext]_spiVars
    PROVE  SessionOK'
<1> USE DEF SessionOK
<1>1. CASE EcStep \/ Charger \/ UNCHANGED spiVars
  BY <1>1 DEF EcStep, Charger, spiVars, jobVars, sessVars
<1>2. CASE Swap \/ \E c \in {"read", "unprotect", "flash", "boot"} : Launch(c)
  BY <1>2 DEF Swap, Launch, jobVars, sessVars
<1>3. CASE ToolStep \/ SessionSpent \/ UsbFails \/ Killed
  <2>1. CASE Closed
    BY <2>1 DEF Closed
  <2>2. CASE ~Closed
    <3>1. cmd' = cmd
      BY <1>3, <2>2, StepEffect
    <3>2. \/ Park \/ Enable \/ ReadFirst \/ PieceStart \/ Erase \/ Program \/ VerifySector
          \/ RebootEc \/ CycleAp \/ SessionSpent
      BY <1>3, <2>2, FatalErrorEffect
      DEF ToolStep, BringUpFails, ApAbort, UsbFails, TearDown, Killed, Unprotect, ReadAgain,
          VerifyEnds, CaptureBoot, Ends
    <3>3. CASE RebootEc \/ CycleAp
      BY <3>1, <3>3 DEF RebootEc, CycleAp
    <3>4. CASE Park \/ Enable
      BY <3>1, <3>4 DEF Park, Enable
    <3>5. CASE ReadFirst \/ SessionSpent \/ VerifySector
      BY <3>1, <3>5 DEF ReadFirst, SessionSpent, VerifySector
    <3>6. CASE PieceStart
      BY <2>2, <3>1, <3>6, FatalErrorEffect DEF PieceStart, TearDown
    <3>7. CASE Erase
      BY <2>2, <3>1, <3>7, FatalErrorEffect DEF Erase, TearDown, Advance
    <3>8. CASE Program
      BY <3>1, <3>8 DEF Program, Advance
    <3> QED
      BY <3>2, <3>3, <3>4, <3>5, <3>6, <3>7, <3>8
  <2> QED
    BY <2>1, <2>2
<1> QED
  BY <1>1, <1>2, <1>3 DEF SpiNext

(* An AP wakes behind an open session only when a charger offers it power.   *)
LEMMA WakeStep ==
    ASSUME SpiTypeOK, SessionOK, WakeOK, [SpiNext]_spiVars
    PROVE  WakeOK'
<1> USE DEF WakeOK, ApRuns
<1>1. CASE EcStep
  BY <1>1 DEF EcStep, SetApPowerOn, SetApPowerOff, sessVars, AllRails
<1>2. CASE Charger
  BY <1>2 DEF Charger, PdInputCurrent
<1>3. CASE Closed
  BY <1>3 DEF Closed
<1>4. CASE Park
  BY <1>4 DEF Park
<1>5. CASE Enable
  <2>1. "VDD_1P8" \notin rails' /\ deferred' = {}
    BY <1>5 DEF Enable, SpiEnable
  <2> QED
    BY <2>1 DEF AllRails
<1>6. CASE RebootEc \/ CycleAp
  BY <1>6 DEF RebootEc, CycleAp, SessionOK
<1>7. ASSUME UNCHANGED <<ecVars, sess>> PROVE WakeOK'
  BY <1>7 DEF ecVars
<1>8. CASE ToolStep \/ SessionSpent \/ UsbFails \/ Killed
  <2>1. CASE ~Closed
    <3>1. \/ Park \/ Enable \/ ReadFirst \/ PieceStart \/ Erase \/ Program \/ VerifySector
          \/ RebootEc \/ CycleAp \/ SessionSpent
      BY <1>8, <2>1, FatalErrorEffect
      DEF ToolStep, BringUpFails, ApAbort, UsbFails, TearDown, Killed, Unprotect, ReadAgain,
          VerifyEnds, CaptureBoot, Ends
    <3>2. ASSUME ~Park, ~Enable, ~RebootEc, ~CycleAp PROVE UNCHANGED <<ecVars, sess>>
      BY <2>1, <3>1, <3>2, FatalErrorEffect
      DEF ReadFirst, PieceStart, Erase, Program, VerifySector, SessionSpent, Advance, TearDown
    <3> QED
      BY <1>4, <1>5, <1>6, <1>7, <3>2
  <2> QED
    BY <1>3, <2>1
<1>9. CASE Swap
  BY <1>9 DEF Swap, EcReset, sessVars, AllRails
<1>10. CASE UNCHANGED spiVars \/ \E c \in {"read", "unprotect", "flash", "boot"} : Launch(c)
  BY <1>7, <1>10 DEF spiVars, sessVars, Launch
<1> QED
  BY <1>1, <1>2, <1>8, <1>9, <1>10 DEF SpiNext

(* What becomes of the pieces of a flash that goes on.                       *)
LEMMA FlashGoesOn ==
    ASSUME SpiTypeOK, SessionOK, [SpiNext]_spiVars, cmd = "flash", cmd' = "flash"
    PROVE  /\ attached' = attached
           /\ \/ pieces' = pieces
              \/ Closed /\ Cur[1] < Cur[2] /\ pieces' = (pieces \ {Cur}) \cup Halve(Cur)
              \/ Closed /\ VerifyEnds /\ same /\ Matches(pos) /\ pieces' = pieces \ {Cur}
<1>1. CASE EcStep \/ Charger \/ UNCHANGED spiVars
  BY <1>1 DEF EcStep, Charger, spiVars, jobVars, puckVars
<1>2. CASE ToolStep \/ SessionSpent \/ UsbFails \/ Killed
  BY <1>2, StepEffect
<1>3. CASE Swap \/ \E c \in {"read", "unprotect", "flash", "boot"} : Launch(c)
  BY <1>3 DEF Swap, Launch
<1> QED
  BY <1>1, <1>2, <1>3 DEF SpiNext

(* The pieces stay with the GBB or with a slot.                              *)
LEMMA OrderStep ==
    ASSUME SpiTypeOK, SessionOK, OrderOK, [SpiNext]_spiVars
    PROVE  OrderOK'
<1>0. JobTypeOK /\ JobTypeOK'
  BY SpiTypeStep, TypeParts
<1>1. CASE cmd' # "flash"
  BY <1>0, <1>1 DEF JobTypeOK, OrderOK
<1>2. CASE cmd # "flash" /\ cmd' = "flash"
  <2>1. pieces' = Plan
    <3>1. \E c \in {"read", "unprotect", "flash", "boot"} : Launch(c)
      BY <1>2, StepEffect DEF SpiNext, EcStep, Charger, Swap, spiVars, jobVars
    <3> QED
      BY <1>2, <3>1 DEF Launch
  <2> QED
    BY <2>1, FlashOrderAssumption DEF OrderOK
<1>3. CASE cmd = "flash" /\ cmd' = "flash"
  <2>1. Cur \in pieces /\ Cur \in Sectors \X Sectors
    BY <1>0, <1>3, CurIsFirst DEF JobTypeOK
  <2>2. Cur[1] < Cur[2] => \A h \in Halve(Cur) : h[1]..h[2] \subseteq Cur[1]..Cur[2]
    BY <2>1, HalveFacts
  <2>3. pieces' = pieces \/ pieces' = pieces \ {Cur}
          \/ (Cur[1] < Cur[2] /\ pieces' = (pieces \ {Cur}) \cup Halve(Cur))
    BY <1>3, FlashGoesOn
  <2>4. ASSUME Cur[1] < Cur[2], NEW h \in Halve(Cur)
        PROVE  h[1]..h[2] \subseteq GBB \/ h[1]..h[2] \cap GBB = {}
    BY <2>1, <2>2, <2>4 DEF OrderOK
  <2> QED
    BY <2>3, <2>4 DEF OrderOK
<1> QED
  BY <1>1, <1>2, <1>3

(* The read-back that passed a sector found the image there, or zeros that   *)
(* the image has there too.                                                  *)
LEMMA MatchesMeans ==
    ASSUME NEW s \in Sectors, Matches(s) PROVE Here[s] = "new" \/ s \in Zero
  BY DEF Matches, Seen

(* The loops of write_region stay in their piece.                            *)
LEMMA PieceStep ==
    ASSUME SpiTypeOK, SessionOK, PieceOK, [SpiNext]_spiVars
    PROVE  PieceOK'
<1>0. JobTypeOK /\ SessTypeOK
  BY TypeParts
<1>1. CASE cmd' # "flash"
  BY <1>1 DEF PieceOK
<1>2. CASE at' = "start"
  BY <1>2 DEF PieceOK
<1>3. CASE cmd = "flash" /\ cmd' = "flash" /\ at' # "start"
  <2>1. attached' = attached /\ pieces' = pieces /\ Cur' = Cur
    BY <1>3, FlashGoesOn DEF Closed, Cur
  <2>2. Cur \in pieces /\ Cur[1] \in Sectors /\ Cur[2] \in Sectors /\ Cur[1] <= Cur[2]
    BY <1>0, <1>3, CurIsFirst
  <2>3. Cur[1] \in Nat /\ Cur[2] \in Nat /\ pos \in Nat
    BY <1>0, <2>2, SectorFacts DEF SessTypeOK
  <2>4. ASSUME UNCHANGED <<at, pos, same, chip>> PROVE PieceOK'
    BY <1>3, <2>1, <2>4 DEF PieceOK, Here
  <2>5. CASE EcStep \/ Charger \/ UNCHANGED spiVars
    BY <2>4, <2>5 DEF EcStep, Charger, spiVars, sessVars, puckVars
  <2>6. CASE Park \/ Enable \/ SessionSpent
    BY <2>4, <2>6 DEF Park, Enable, SessionSpent, puckVars
  <2>7. CASE PieceStart
    <3>1. at' = "erase" /\ pos' = Cur[1]
      BY <1>3, <2>7, FatalErrorEffect DEF PieceStart, TearDown, Closed
    <3> QED
      BY <2>1, <2>2, <2>3, <3>1 DEF PieceOK
  <2>8. ASSUME NEW then \in {"program", "verify"}, Advance(then), at # "verify", at = at' \/ at' = then
        PROVE  PieceOK'
    <3>1. CASE pos < Cur[2]
      <4>1. at' = at /\ pos' = pos + 1
        BY <2>8, <3>1 DEF Advance
      <4>2. at \in {"erase", "program", "verify"} => pos \in Cur[1]..Cur[2]
        BY <1>3 DEF PieceOK
      <4>3. at' \in {"erase", "program", "verify"} => pos' \in Cur[1]..Cur[2]
        BY <2>2, <2>3, <3>1, <4>1, <4>2
      <4> QED
        BY <2>1, <2>8, <4>1, <4>3 DEF PieceOK
    <3>2. CASE ~(pos < Cur[2])
      <4>1. pos' = Cur[1]
        BY <2>8, <3>2 DEF Advance
      <4>2. \A s \in Sectors : s \notin Cur[1]..(Cur[1] - 1)
        BY <2>3
      <4>3. Cur[1] \in Cur[1]..Cur[2]
        BY <2>2, <2>3
      <4> QED
        BY <2>1, <4>1, <4>2, <4>3 DEF PieceOK
    <3> QED
      BY <3>1, <3>2
  <2>9. CASE Erase
    <3>1. Advance("program")
      BY <1>3, <2>9, FatalErrorEffect DEF Erase, TearDown, Closed
    <3> QED
      BY <2>8, <2>9, <3>1 DEF Erase, Advance
  <2>10. CASE Program
    BY <2>8, <2>10 DEF Program, Advance
  <2>11. CASE VerifySector
    <3>1. /\ at = "verify" /\ at' = "verify" /\ pos < Cur[2] /\ pos' = pos + 1
          /\ same' = (same /\ Matches(pos)) /\ chip' = chip
      BY <2>11 DEF VerifySector, puckVars
    <3>2. pos \in Cur[1]..Cur[2]
      BY <1>3, <3>1 DEF PieceOK
    <3>3. pos' \in Cur[1]..Cur[2]
      BY <2>2, <2>3, <3>1, <3>2
    <3>4. ASSUME same', NEW s \in Sectors, s \in Cur[1]..(pos' - 1)
          PROVE  Here[s] = "new" \/ s \in Zero
      <4>1. same /\ Matches(pos)
        BY <3>1, <3>4, Zenon
      <4>2. s = pos \/ s \in Cur[1]..(pos - 1)
        BY <2>3, <3>1, <3>4
      <4> QED
        BY <1>3, <3>1, <3>4, <4>1, <4>2, MatchesMeans DEF PieceOK
    <3> QED
      BY <2>1, <3>1, <3>3, <3>4 DEF PieceOK, Here
  <2>12. CASE \/ BringUpFails \/ ApAbort \/ ReadFirst \/ ReadAgain \/ Unprotect \/ VerifyEnds
              \/ RebootEc \/ CycleAp \/ CaptureBoot \/ UsbFails \/ Killed
    BY <1>3, <2>12, FatalErrorEffect
    DEF BringUpFails, ApAbort, ReadFirst, ReadAgain, Unprotect, VerifyEnds, RebootEc, CycleAp,
        CaptureBoot, UsbFails, Killed, TearDown, Ends, Closed
  <2>13. CASE Swap \/ \E c \in {"read", "unprotect", "flash", "boot"} : Launch(c)
    BY <1>3, <2>13 DEF Swap, Launch
  <2> QED
    BY <2>5, <2>6, <2>7, <2>9, <2>10, <2>11, <2>12, <2>13 DEF SpiNext, ToolStep
<1>4. CASE cmd # "flash" /\ cmd' = "flash"
  <2>1. \E c \in {"read", "unprotect", "flash", "boot"} : Launch(c)
    BY <1>4, StepEffect DEF SpiNext, EcStep, Charger, Swap, spiVars, jobVars
  <2>2. at' = "start"
    BY <2>1 DEF Launch, sessVars, SessionOK
  <2> QED
    BY <1>2, <2>2
<1> QED
  BY <1>1, <1>2, <1>3, <1>4

(* What flash_region has put behind it is out of the reach of write_region.  *)
LEMMA WrittenIsLeft ==
    ASSUME SpiTypeOK, PieceOK, [SpiNext]_spiVars, cmd = "flash", NEW s \in Written
    PROVE  s \in Sectors /\ chip'[attached][s] = Here[s]
<1>1. JobTypeOK /\ attached \in Pucks
  BY TypeParts DEF PuckTypeOK
<1>2. Cur \in pieces
  BY <1>1, CurIsFirst
<1>3. s \in Sectors /\ s \notin Cur[1]..Cur[2]
  BY <1>2 DEF Written
<1>4. chip'[attached][s] # chip[attached][s] => s = pos /\ pos \in Cur[1]..Cur[2]
  BY <1>1, <1>3, ChipEffect DEF PieceOK
<1> QED
  BY <1>3, <1>4 DEF Here

(* What the flash has put behind it stays on the chip, and what it puts there*)
(* next was read back.                                                       *)
LEMMA VerifiedStep ==
    ASSUME SpiInv, [SpiNext]_spiVars
    PROVE  VerifiedIsOnChip'
<1>0. /\ SpiTypeOK /\ JobTypeOK /\ SessTypeOK /\ SessionOK /\ PieceOK /\ VerifiedIsOnChip
      /\ attached \in Pucks /\ pos \in Sectors
  BY TypeParts DEF SpiInv, SessTypeOK, PuckTypeOK
<1>1. CASE cmd' # "flash"
  BY <1>1 DEF VerifiedIsOnChip
<1>2. CASE cmd # "flash" /\ cmd' = "flash"
  <2>1. \E c \in {"read", "unprotect", "flash", "boot"} : Launch(c)
    BY <1>0, <1>2, StepEffect DEF SpiNext, EcStep, Charger, Swap, spiVars, jobVars
  <2>2. pieces' = Plan
    BY <1>2, <2>1 DEF Launch
  <2>3. \A s \in Sectors : \E r \in pieces' : s \in r[1]..r[2]
    BY <2>2, SpiFlashAssumption
  <2> QED
    BY <2>3 DEF VerifiedIsOnChip, Written
<1>3. CASE cmd = "flash" /\ cmd' = "flash"
  <2>1. attached' = attached
    BY <1>0, <1>3, FlashGoesOn
  <2>2. Cur \in pieces /\ Cur[1] \in Nat /\ Cur[2] \in Nat /\ Cur[1] <= Cur[2] /\ pos \in Nat
    BY <1>0, <1>3, CurIsFirst, SectorFacts
  <2>3. ASSUME NEW s \in Written \ Zero PROVE Here'[s] = "new"
    BY <1>0, <1>3, <2>1, <2>3, WrittenIsLeft DEF VerifiedIsOnChip, Here
  <2>4. CASE Written' = Written
    BY <2>3, <2>4 DEF VerifiedIsOnChip
  <2>5. CASE VerifyEnds /\ same /\ Matches(pos) /\ pieces' = pieces \ {Cur}
    <3>1. at = "verify" /\ pos = Cur[2] /\ chip' = chip
      BY <2>5 DEF VerifyEnds, puckVars
    <3>2. ASSUME NEW s \in Sectors, s \in Cur[1]..Cur[2] PROVE Here[s] = "new" \/ s \in Zero
      <4>1. s = pos \/ s \in Cur[1]..(pos - 1)
        BY <2>2, <3>1, <3>2
      <4> QED
        BY <1>0, <1>3, <2>5, <3>1, <3>2, <4>1, MatchesMeans DEF PieceOK
    <3>3. ASSUME NEW s \in Written' PROVE s \in Written \/ (s \in Sectors /\ s \in Cur[1]..Cur[2])
      BY <2>5, <3>3 DEF Written
    <3>4. Here' = Here
      BY <2>1, <3>1 DEF Here
    <3> QED
      BY <1>0, <1>3, <3>2, <3>3, <3>4 DEF VerifiedIsOnChip
  <2>6. pieces' = pieces => Written' = Written
    BY DEF Written
  <2> QED
    BY <1>0, <1>3, <2>4, <2>5, <2>6, FlashGoesOn, SplitKeepsWritten
<1> QED
  BY <1>1, <1>2, <1>3

(* The invariant holds at first and is kept.                                 *)
LEMMA SpiInductive ==
    /\ SpiInit => SpiInv
    /\ SpiInv /\ [SpiNext]_spiVars => SpiInv'
<1>1. ASSUME SpiInit PROVE SpiInv
  <2>1. EcTypeOK /\ JobTypeOK /\ SessTypeOK
    BY <1>1, SectorFacts DEF SpiInit, EcInit, EcTypeOK, AllRails, JobTypeOK, SessTypeOK
  <2>2. PuckTypeOK
    BY <1>1 DEF SpiInit, PuckTypeOK, Values
  <2>3. faults \in 0..MaxFaults
    BY <1>1, SectorFacts DEF SpiInit
  <2>4. SessionOK /\ WakeOK /\ PieceOK /\ OrderOK /\ VerifiedIsOnChip
    BY <1>1 DEF SpiInit, SessionOK, WakeOK, PieceOK, OrderOK, VerifiedIsOnChip
  <2> QED
    BY <2>1, <2>2, <2>3, <2>4, TypeParts DEF SpiInv
<1>2. SpiInv /\ [SpiNext]_spiVars => SpiInv'
  BY SpiTypeStep, SessionStep, WakeStep, PieceStep, OrderStep, VerifiedStep DEF SpiInv
<1> QED
  BY <1>1, <1>2

(* The tool, the EC and the pucks keep the invariant.                        *)
LEMMA SpiInvariant == SpiSpec => []SpiInv
  BY SpiInductive, PTL DEF SpiSpec
-----------------------------------------------------------------------------
(* The theorems *)

(* Every variable of the tool, the EC and the pucks has its type; a flash is *)
(* the command that has pieces left.                                         *)
THEOREM SpiTypeCorrect == SpiSpec => []SpiTypeOK
<1>1. SpiInv => SpiTypeOK
  BY DEF SpiInv
<1> QED
  BY <1>1, SpiInvariant, PTL

(* What flash_region has put behind it is on the chip, but for sectors of    *)
(* zeros, however its pieces were halved and its sessions died.              *)
THEOREM VerifiedIsOnChipInvariant == SpiSpec => []VerifiedIsOnChip
<1>1. SpiInv => VerifiedIsOnChip
  BY DEF SpiInv
<1> QED
  BY <1>1, SpiInvariant, PTL

(* The AP is off the bus in an open session until a charger offers it power. *)
THEOREM AwakeMeansOfferedInvariant == SpiSpec => []AwakeMeansOffered
<1>1. SpiInv => AwakeMeansOffered
  BY DEF SpiInv, WakeOK, AwakeMeansOffered
<1> QED
  BY <1>1, SpiInvariant, PTL

(* The root key in the GBB is touched only when both slots are written.      *)
THEOREM GbbLastTheorem == SpiSpec => GbbLast
<1>1. ASSUME SpiInv, [SpiNext]_spiVars, NEW p \in Pucks, NEW g \in GBB, chip'[p][g] # chip[p][g],
             NEW t \in (SlotA \cup SlotB) \ Zero
      PROVE  chip[p][t] = "new"
  <2>1. g \in Sectors /\ t \in Sectors /\ t < g
    BY SpiFlashAssumption, FlashOrderAssumption DEF GBB
  <2>2. p = attached /\ g = pos /\ cmd = "flash" /\ at \in {"erase", "program"}
    BY <1>1, <2>1, ChipEffect DEF SpiInv
  <2>3. JobTypeOK /\ g \in Cur[1]..Cur[2]
    BY <1>1, <2>2, TypeParts DEF SpiInv, PieceOK
  <2>4. /\ Cur \in pieces /\ \A q \in pieces : Cur[1] <= q[1]
        /\ Cur[1] \in Sectors /\ Cur[2] \in Sectors /\ Cur[1] <= Cur[2]
    BY <2>2, <2>3, CurIsFirst
  <2>5. Cur[1]..Cur[2] \subseteq GBB
    BY <1>1, <2>3, <2>4 DEF SpiInv, OrderOK
  <2>6. Cur[1] \in Nat /\ Cur[2] \in Nat /\ t \in Nat
    BY <2>1, <2>4, SectorFacts
  <2>7. t < Cur[1]
    BY <2>4, <2>5, <2>6, FlashOrderAssumption
  <2>8. ASSUME NEW q \in pieces PROVE t \notin q[1]..q[2]
    <3>1. q \in Sectors \X Sectors /\ Cur[1] <= q[1]
      BY <2>3, <2>4 DEF JobTypeOK
    <3>2. q[1] \in Nat /\ q[2] \in Nat
      BY <3>1, SectorFacts
    <3> QED
      BY <2>6, <2>7, <3>1, <3>2
  <2>9. t \in Written \ Zero
    BY <2>1, <2>8 DEF Written
  <2> QED
    BY <1>1, <2>2, <2>9 DEF SpiInv, VerifiedIsOnChip, Here
<1>2. SpiInv /\ [SpiNext]_spiVars =>
        [\A p \in Pucks, s \in GBB : chip'[p][s] # chip[p][s] =>
            \A t \in (SlotA \cup SlotB) \ Zero : chip[p][t] = "new"]_spiVars
  BY <1>1
<1> QED
  BY <1>2, SpiInvariant, PTL DEF SpiSpec, GbbLast

(* A flash does not take up again what it has verified, and what it splits   *)
(* gets smaller, whatever becomes of its sessions.                           *)
THEOREM NeverGoesBackTheorem == SpiSpec => NeverGoesBack
<1> DEFINE Shrinks == \E q \in pieces \ pieces' : \A r \in pieces' \ pieces :
                        q[1] <= r[1] /\ r[2] <= q[2] /\ r[2] - r[1] < q[2] - q[1]
<1>1. ASSUME SpiInv, [SpiNext]_spiVars, cmd = "flash", cmd' = "flash"
      PROVE  /\ Written \subseteq Written'
             /\ \A s \in Written : chip'[attached][s] = Here[s]
             /\ pieces' = pieces \/ Shrinks
  <2>1. SpiTypeOK /\ JobTypeOK /\ SessionOK /\ PieceOK
    BY <1>1, TypeParts DEF SpiInv
  <2>2. Cur \in pieces /\ Cur \in Sectors \X Sectors
    BY <1>1, <2>1, CurIsFirst DEF JobTypeOK
  <2>3. \A s \in Written : chip'[attached][s] = Here[s]
    BY <1>1, <2>1, WrittenIsLeft
  <2>4. CASE pieces' = pieces
    BY <2>3, <2>4 DEF Written
  <2>5. CASE pieces' = pieces \ {Cur}
    <3>1. Cur \in pieces \ pieces' /\ pieces' \ pieces = {}
      BY <2>2, <2>5
    <3>2. Written \subseteq Written'
      BY <2>5 DEF Written
    <3> QED
      BY <2>3, <3>1, <3>2
  <2>6. CASE Cur[1] < Cur[2] /\ pieces' = (pieces \ {Cur}) \cup Halve(Cur)
    <3>1. \A h \in Halve(Cur) :
             Cur[1] <= h[1] /\ h[2] <= Cur[2] /\ h[2] - h[1] < Cur[2] - Cur[1]
      BY <2>2, <2>6, HalveShrinks
    <3>2. Cur[1] \in Nat /\ Cur[2] \in Nat
      BY <2>2, SectorFacts
    <3>3. Cur \notin Halve(Cur)
      <4>1. ~(Cur[2] - Cur[1] < Cur[2] - Cur[1])
        BY <3>2
      <4> QED
        BY <3>1, <4>1
    <3>4. Shrinks
      BY <2>2, <2>6, <3>1, <3>3
    <3>5. Written' = Written
      BY <1>1, <2>1, <2>6, SplitKeepsWritten
    <3> QED
      BY <2>3, <3>4, <3>5
  <2> QED
    BY <1>1, <2>1, <2>4, <2>5, <2>6, FlashGoesOn
<1>2. SpiInv /\ [SpiNext]_spiVars =>
        [cmd = "flash" /\ cmd' = "flash" =>
            /\ Written \subseteq Written'
            /\ \A s \in Written : chip'[attached][s] = Here[s]
            /\ pieces' = pieces \/ Shrinks]_spiVars
  BY <1>1
<1> QED
  BY <1>2, SpiInvariant, PTL DEF SpiSpec, NeverGoesBack
-----------------------------------------------------------------------------
(* The refinement *)

(* Content looks at the flash only.                                          *)
LEMMA ContentSame == chip' = chip => Content' = Content
  BY DEF Content

(* It is a function of the pucks.                                            *)
LEMMA ContentIsFun ==
    /\ Content \in [Pucks -> {"stock", "rekeyed", "torn"}]
    /\ Content' \in [Pucks -> {"stock", "rekeyed", "torn"}]
  BY DEF Content

(* The end of every flash that ends well: nothing is left, so the image is   *)
(* on the puck.                                                              *)
LEMMA AllWritten ==
    ASSUME SpiInv, cmd = "flash", pieces = {Cur}, VerifyEnds, same, Matches(pos)
    PROVE  Content[attached] = "rekeyed"
<1>0. JobTypeOK /\ SessTypeOK /\ attached \in Pucks /\ PieceOK /\ VerifiedIsOnChip
  BY TypeParts DEF SpiInv, PuckTypeOK
<1>1. at = "verify" /\ pos = Cur[2]
  BY DEF VerifyEnds
<1>2. pos \in Sectors /\ Cur[1] \in Nat /\ Cur[2] \in Nat
  BY <1>0, CurIsFirst, SectorFacts DEF SessTypeOK
<1>3. ASSUME NEW s \in Sectors \ Zero PROVE Here[s] = "new"
  <2>1. CASE s \in Cur[1]..Cur[2]
    <3>1. s = pos \/ s \in Cur[1]..(pos - 1)
      BY <1>1, <1>2, <2>1
    <3> QED
      BY <1>0, <1>1, <1>2, <3>1, MatchesMeans DEF PieceOK
  <2>2. CASE s \notin Cur[1]..Cur[2]
    <3>1. s \in Written
      BY <2>2 DEF Written
    <3> QED
      BY <1>0, <3>1 DEF VerifiedIsOnChip
  <2> QED
    BY <2>1, <2>2
<1>4. \E s \in Sectors : s \notin Zero
  BY SpiFlashAssumption, FlashOrderAssumption
<1> QED
  BY <1>0, <1>3, <1>4 DEF Content, Here

(* A write of one sector is a write of the abstract tool, or none.           *)
LEMMA PutRefines ==
    ASSUME SpiTypeOK, NEW v \in {"blank", "part", "new", Here[pos]}, Put(pos, v)
    PROVE  \/ Content' = Content
           \/ \E w \in {"torn", "rekeyed"} : Content' = [Content EXCEPT ![attached] = w]
<1>0. attached \in Pucks /\ pos \in Sectors /\ chip \in [Pucks -> [Sectors -> Values]]
  BY DEF SpiTypeOK
<1>1. CASE v = Here[pos]
  <2>1. chip' = chip
    BY <1>0, <1>1 DEF Put, Here
  <2> QED
    BY <2>1, ContentSame
<1>2. CASE v # Here[pos]
  <2>1. chip'[attached][pos] # "old"
    BY <1>0, <1>2 DEF Put, Here
  <2>2. Content'[attached] \in {"torn", "rekeyed"}
    BY <1>0, <2>1 DEF Content
  <2>3. \A p \in Pucks : p # attached => chip'[p] = chip[p]
    BY <1>0 DEF Put
  <2>4. \A p \in Pucks : p # attached => Content'[p] = Content[p]
    BY <2>3 DEF Content
  <2>5. Content' = [Content EXCEPT ![attached] = Content'[attached]]
    BY <1>0, <2>4, ContentIsFun
  <2> QED
    BY <2>2, <2>5
<1> QED
  BY <1>1, <1>2

(* What an interrupted write leaves, too; without a flash it is nothing.     *)
LEMMA TornRefines ==
    ASSUME SpiTypeOK, \E v \in Torn : Put(pos, v)
    PROVE  \/ Content' = Content
           \/ /\ cmd = "flash"
              /\ \E w \in {"torn", "rekeyed"} : Content' = [Content EXCEPT ![attached] = w]
<1>1. CASE cmd = "flash"
  BY <1>1, PutRefines DEF Torn
<1>2. CASE cmd # "flash"
  <2>1. Put(pos, Here[pos])
    BY <1>2 DEF Torn
  <2>2. chip' = chip
    BY <2>1 DEF Put, Here, SpiTypeOK
  <2> QED
    BY <2>2, ContentSame
<1> QED
  BY <1>1, <1>2

(* A write, with or without a failure after it, is a step of the abstract    *)
(* tool.                                                                     *)
LEMMA WriteRefines ==
    ASSUME SpiTypeOK, cmd # "none", UNCHANGED attached, got' = got,
           \/ Content' = Content
           \/ /\ cmd = "flash"
              /\ \E w \in {"torn", "rekeyed"} : Content' = [Content EXCEPT ![attached] = w],
           \/ cmd' = cmd /\ result' = result
           \/ cmd' = "none" /\ result' = "failed"
    PROVE  Tool!CommandStep \/ UNCHANGED <<attached, Content, cmd, result, got>>
<1>1. attached \in Pucks /\ Content = [Content EXCEPT ![attached] = Content[attached]]
  BY ContentIsFun DEF SpiTypeOK
<1>2. CASE cmd' = cmd /\ result' = result
  BY <1>2 DEF Tool!CommandStep, Tool!Writes
<1>3. CASE cmd' = "none" /\ result' = "failed"
  <2>1. Tool!Fails
    BY <1>1, <1>3 DEF Tool!Fails, Tool!Ends
  <2> QED
    BY <2>1 DEF Tool!CommandStep
<1> QED
  BY <1>2, <1>3

(* A failure is a failed command of the abstract tool, or one that goes on.  *)
LEMMA FatalRefines ==
    ASSUME SpiTypeOK, cmd # "none", UNCHANGED attached, FatalError \/ Escapes,
           \/ Content' = Content
           \/ /\ cmd = "flash"
              /\ \E w \in {"torn", "rekeyed"} : Content' = [Content EXCEPT ![attached] = w]
    PROVE  Tool!CommandStep \/ UNCHANGED <<attached, Content, cmd, result, got>>
  BY FatalErrorEffect, WriteRefines

(* Each step of the tool, the EC, the faults and the operator is a step of   *)
(* FlashTool, or one it does not see.                                        *)
LEMMA SpiStepRefines ==
    ASSUME SpiInv, [SpiNext]_spiVars
    PROVE  [Tool!ToolNext]_<<attached, Content, cmd, result, got>>
<1>0. SpiTypeOK /\ SessionOK /\ attached \in Pucks /\ Content \in [Pucks -> {"stock", "rekeyed", "torn"}]
  BY ContentIsFun DEF SpiInv, SpiTypeOK
<1>s. ASSUME UNCHANGED <<attached, chip, cmd, result, got>>
      PROVE  UNCHANGED <<attached, Content, cmd, result, got>>
  BY <1>s, ContentSame
<1>1. CASE EcStep \/ Charger \/ SessionSpent \/ UNCHANGED spiVars
  BY <1>1, <1>s DEF EcStep, Charger, SessionSpent, spiVars, jobVars, puckVars
<1>2. CASE Park \/ Enable \/ ReadFirst \/ VerifySector \/ RebootEc \/ CycleAp
  BY <1>2, <1>s DEF Park, Enable, ReadFirst, VerifySector, RebootEc, CycleAp, jobVars, puckVars
<1>3. CASE BringUpFails
  <2>1. cmd # "none" /\ (FatalError \/ Escapes) /\ attached' = attached /\ chip' = chip
    BY <1>0, <1>3 DEF BringUpFails, SessionOK, puckVars
  <2> QED
    BY <1>0, <2>1, ContentSame, FatalRefines DEF Tool!ToolNext
<1>4. CASE ApAbort \/ UsbFails
  <2>1. /\ cmd # "none" /\ (FatalError \/ Escapes) /\ attached' = attached
        /\ \E v \in Torn : Put(pos, v)
    BY <1>0, <1>4 DEF ApAbort, UsbFails, SessionOK, TearDown
  <2> QED
    BY <1>0, <2>1, TornRefines, FatalRefines DEF Tool!ToolNext
<1>5. CASE Killed
  <2>1. /\ cmd # "none" /\ cmd' = "none" /\ result' = "failed"
        /\ attached' = attached /\ got' = got /\ \E v \in Torn : Put(pos, v)
    BY <1>5 DEF Killed, Ends
  <2> QED
    BY <1>0, <2>1, TornRefines, WriteRefines DEF Tool!ToolNext
<1>6. CASE ReadAgain
  <2>1. cmd = "read" /\ chip' = chip /\ attached' = attached
    BY <1>6 DEF ReadAgain, puckVars
  <2>2. CASE Agree
    <3>1. /\ cmd' = "none" /\ result' = "ok"
          /\ got' = <<attached, Content[attached]>> \/ got' = <<attached, "zeros">>
      BY <1>6, <2>2 DEF ReadAgain, Agree, Ends
    <3>2. Tool!ReadEnds
      BY <2>1, <3>1, ContentSame DEF Tool!ReadEnds, Tool!Ends
    <3> QED
      BY <3>2 DEF Tool!ToolNext, Tool!CommandStep
  <2>3. CASE ~Agree
    <3>1. FatalError
      BY <1>6, <2>3 DEF ReadAgain, TearDown
    <3> QED
      BY <1>0, <2>1, <3>1, ContentSame, FatalRefines DEF Tool!ToolNext
  <2> QED
    BY <2>2, <2>3
<1>7. CASE Unprotect
  <2>1. Tool!UnprotectEnds
    BY <1>7, ContentSame DEF Unprotect, Ends, Tool!UnprotectEnds, Tool!Ends
  <2> QED
    BY <2>1 DEF Tool!ToolNext, Tool!CommandStep
<1>8. CASE PieceStart
  <2>1. cmd # "none" /\ chip' = chip /\ attached' = attached
    BY <1>8 DEF PieceStart, puckVars
  <2>2. CASE Answers /\ attached \in protect
    BY <1>0, <1>8, <2>1, <2>2, ContentSame, FatalRefines DEF PieceStart, TearDown, Tool!ToolNext
  <2>3. CASE ~(Answers /\ attached \in protect)
    BY <1>8, <1>s, <2>1, <2>3 DEF PieceStart, jobVars
  <2> QED
    BY <2>2, <2>3
<1>9. CASE Erase \/ Program
  <2>1. cmd = "flash" /\ attached' = attached /\ \E v \in {"blank", "part", "new", Here[pos]} : Put(pos, v)
    BY <1>9 DEF Erase, Program, Torn
  <2>2. \/ Content' = Content
        \/ \E w \in {"torn", "rekeyed"} : Content' = [Content EXCEPT ![attached] = w]
    BY <1>0, <2>1, PutRefines
  <2>3. FatalError \/ UNCHANGED jobVars
    BY <1>9 DEF Erase, Program, Advance, TearDown
  <2>4. CASE FatalError
    BY <1>0, <2>1, <2>2, <2>4, FatalRefines DEF Tool!ToolNext
  <2>5. CASE UNCHANGED jobVars
    BY <1>0, <2>1, <2>2, <2>5, WriteRefines DEF Tool!ToolNext, jobVars
  <2> QED
    BY <2>3, <2>4, <2>5
<1>10. CASE VerifyEnds
  <2>1. cmd = "flash" /\ chip' = chip /\ attached' = attached
    BY <1>10 DEF VerifyEnds, puckVars
  <2>2. CASE ~(same /\ Matches(pos))
    BY <1>0, <1>10, <2>1, <2>2, ContentSame, FatalRefines DEF VerifyEnds, TearDown, Tool!ToolNext
  <2>3. CASE same /\ Matches(pos) /\ pieces = {Cur}
    <3>1. cmd' = "none" /\ result' = "ok" /\ got' = got
      BY <1>10, <2>3 DEF VerifyEnds, Ends
    <3>2. Content[attached] = "rekeyed"
      BY <1>10, <2>1, <2>3, AllWritten
    <3>3. Tool!FlashEnds
      BY <2>1, <3>1, <3>2, ContentSame DEF Tool!FlashEnds, Tool!Ends
    <3> QED
      BY <3>3 DEF Tool!ToolNext, Tool!CommandStep
  <2>4. CASE same /\ Matches(pos) /\ pieces # {Cur}
    BY <1>10, <1>s, <2>1, <2>4 DEF VerifyEnds
  <2> QED
    BY <2>2, <2>3, <2>4
<1>11. CASE CaptureBoot
  <2>1. /\ cmd = "boot" /\ cmd' = "none" /\ result' \in {"ok", "failed"}
        /\ got' = got /\ attached' = attached /\ chip' = chip
    BY <1>11 DEF CaptureBoot, Ends, puckVars
  <2>2. CASE result' = "ok"
    <3>1. Tool!BootEnds
      BY <2>1, <2>2, ContentSame DEF Tool!BootEnds, Tool!Ends
    <3> QED
      BY <3>1 DEF Tool!ToolNext, Tool!CommandStep
  <2>3. CASE result' = "failed"
    BY <1>0, <2>1, <2>3, ContentSame, WriteRefines DEF Tool!ToolNext
  <2> QED
    BY <2>1, <2>2, <2>3
<1>12. ASSUME NEW c \in {"read", "unprotect", "flash", "boot"}, Launch(c)
       PROVE  Tool!ToolNext
  <2>1. Tool!Launch(c)
    BY <1>12, ContentSame DEF Launch, Tool!Launch, puckVars
  <2> QED
    BY <2>1 DEF Tool!ToolNext, Tool!Commands
<1>13. CASE Swap
  <2>1. Tool!Swap
    BY <1>13, ContentSame DEF Swap, Tool!Swap, jobVars
  <2> QED
    BY <2>1 DEF Tool!ToolNext
<1> QED
  BY <1>1, <1>2, <1>3, <1>4, <1>5, <1>6, <1>7, <1>8, <1>9, <1>10, <1>11, <1>12, <1>13
  DEF SpiNext, ToolStep

(* To its callers flash_puck_usb.py is FlashTool: a read gives what is on    *)
(* the puck or zeros, a flash that ends well has written all of the image,   *)
(* and no other command writes.                                              *)
THEOREM ImplementsFlashToolTheorem == SpiSpec => ImplementsFlashTool
<1>1. SpiInit => Tool!ToolInit
  <2> SUFFICES ASSUME SpiInit PROVE Tool!ToolInit
    OBVIOUS
  <2>1. /\ chip = [p \in Pucks |-> [s \in Sectors |-> IF p \in Rekeyed THEN "new" ELSE "old"]]
        /\ attached \in Pucks
        /\ cmd = "none" /\ result = "none" /\ got = <<"nobody", "none">>
    BY DEF SpiInit
  <2>2. Content \in [Pucks -> {"stock", "rekeyed"}]
    <3>1. ASSUME NEW p \in Pucks PROVE Content[p] \in {"stock", "rekeyed"}
      BY <2>1 DEF Content
    <3> QED
      BY <3>1, ContentIsFun
  <2> QED
    BY <2>1, <2>2 DEF Tool!ToolInit
<1> QED
  BY <1>1, SpiStepRefines, SpiInvariant, PTL DEF SpiSpec, ImplementsFlashTool, Tool!ToolSpec, Tool!toolSees
=============================================================================
