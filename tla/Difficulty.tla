----------------------------- MODULE Difficulty -----------------------------
(***************************************************************************)
(* The proof-of-work target and the time rule of a chain that grows block  *)
(* by block (src/src/main.cpp 898-994 and 1833-1853, src/src/main.h        *)
(* 1147-1161, src/src/bignum.h 267-290).  A target is the number nBits     *)
(* stands for; the compact form keeps its three leading bytes only.        *)
(* Times are seconds since genesis.                                        *)
(***************************************************************************)
EXTENDS Integers, Sequences, FiniteSets, SequencesExt, FiniteSetsExt

CONSTANTS
  nTargetSpacing,   \* seconds a block should take
  nInterval,        \* blocks between two changes of the target
  nMedianTimeSpan,  \* blocks whose median time a new block must exceed
  bnProofOfWorkLimit, \* the easiest target
  ByteBase,         \* values of a byte of the compact form, 256 in the code
  fTestNet,         \* TRUE on the test network
  Gaps,             \* by how much a block's time may differ from its parent's
  MaxHeight         \* bound on the length of the chain

ASSUME DifficultyAssumption ==
  /\ nTargetSpacing \in Nat \ {0} /\ nInterval \in Nat \ {0, 1}
  /\ nMedianTimeSpan \in Nat \ {0} /\ MaxHeight \in Nat
  /\ bnProofOfWorkLimit \in Nat \ {0} /\ ByteBase \in Nat \ {0, 1}
  /\ fTestNet \in BOOLEAN /\ Gaps \subseteq Int

VARIABLES
  chain,     \* the blocks from genesis on: [nTime, nBits]
  measured   \* the timespans all retargets so far were computed from

chainVars == <<chain, measured>>

nTargetTimespan == nInterval * nTargetSpacing

Height == Len(chain) - 1
BlockAt(h) == chain[h + 1]
LastBlock == BlockAt(Height)

(* GetCompact and SetCompact: at most three bytes are kept, and the first  *)
(* may not have its top bit set, for that bit is the sign.                 *)
Compact(target) ==
  LET dropped == Min({e \in 0 .. 12 : target \div ByteBase^e < ByteBase^3 \div 2})
  IN  (target \div ByteBase^dropped) * ByteBase^dropped

Easiest == Compact(bnProofOfWorkLimit)

(* GetMedianTimePast of the newest block.                                  *)
GetMedianTimePast(blocks) ==
  LET n == Min({nMedianTimeSpan, Len(blocks)})
      times == [i \in 1 .. n |-> blocks[Len(blocks) - n + i].nTime]
  IN  SortSeq(times, <)[(n \div 2) + 1]

(***************************************************************************)
(* GetNextWorkRequired                                                     *)
(***************************************************************************)
Retargets == (Height + 1) % nInterval = 0

BlocksToGoBackShort == nInterval - 1  \* mutant: never beyond the stretch itself

BlocksToGoBack ==
  IF Height + 1 # nInterval THEN nInterval ELSE nInterval - 1

ActualTimespan == LastBlock.nTime - BlockAt(Height - BlocksToGoBack).nTime

Clamped(span) ==
  Max({nTargetTimespan \div 4, Min({span, nTargetTimespan * 4})})

Retargeted(base, span) ==
  Compact(Min({(base * span) \div nTargetTimespan, bnProofOfWorkLimit}))

(* The height of the last block the test network's special rule did not    *)
(* produce, as far back as the last retarget.                              *)
LastOrdinary ==
  Max({0} \cup {h \in 0 .. Height :
                  h % nInterval = 0 \/ BlockAt(h).nBits # Easiest})

NextWorkRequired(nTime) ==
  IF Retargets
  THEN Retargeted(LastBlock.nBits, Clamped(ActualTimespan))
  ELSE IF ~fTestNet THEN LastBlock.nBits
  ELSE IF nTime > LastBlock.nTime + 2 * nTargetSpacing THEN Easiest
  ELSE BlockAt(LastOrdinary).nBits

(***************************************************************************)
(* The chain                                                               *)
(***************************************************************************)
ChainInit ==
  /\ chain = <<[nTime |-> 0, nBits |-> Easiest]>>
  /\ measured = 0

TimeAllowed(nTime) == nTime > GetMedianTimePast(chain)

(* AcceptBlock of a block with that time: the work required and the time   *)
(* rule.                                                                   *)
AcceptBlock(nTime) ==
  /\ Height < MaxHeight
  /\ TimeAllowed(nTime)
  /\ chain' = Append(chain, [nTime |-> nTime, nBits |-> NextWorkRequired(nTime)])
  /\ measured' = measured + (IF Retargets THEN ActualTimespan ELSE 0)

ChainNext == \E gap \in Gaps : AcceptBlock(LastBlock.nTime + gap)

ChainSpec == ChainInit /\ [][ChainNext]_chainVars

-----------------------------------------------------------------------------
(* Retargets look at adjoining stretches of time: every gap between two    *)
(* blocks is measured once, so no block's time can be set without being    *)
(* paid for in the next stretch ("Go back the full period unless it's the  *)
(* first retarget after genesis", main.cpp 958).                           *)
EveryGapMeasuredOnce ==
  measured = BlockAt(Max({0} \cup {h \in 0 .. Height - 1 : (h + 1) % nInterval = 0})).nTime
=============================================================================
