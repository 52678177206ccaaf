---------------------------- MODULE ProposalConfig ----------------------------
(***************************************************************************)
(* The packed proposal configuration of an event: eight bits of proposal   *)
(* count, then four bits of option count per proposal.  The API packs it   *)
(* (packages/shared/src/proposal-config.js); the VoteEvent contract checks *)
(* and unpacks it with shifts and masks of its own.  Proposals are counted *)
(* from zero, as in both sources.                                          *)
(***************************************************************************)
EXTENDS Integers, Sequences

MaxProposals == 32
MinOptions   == 2
MaxOptions   == 4

(* 1 << (8 + index * 4)                                                    *)
Place[index \in 0..MaxProposals] ==
    IF index = 0 THEN 256 ELSE 16 * Place[index - 1]

(* (config >> (8 + index * 4)) & 0x0f                                      *)
OptionBits(config, index) == (config \div Place[index]) % 16

-----------------------------------------------------------------------------
(* packages/shared/src/proposal-config.js                                  *)

Packable(counts) ==
    /\ Len(counts) \in 1..MaxProposals
    /\ \A i \in DOMAIN counts : counts[i] \in MinOptions..MaxOptions

(* Mutant: the option counts start one place too high.                     *)
PackShifted(counts) ==
    LET packed[n \in 0..Len(counts)] ==
            IF n = 0 THEN Len(counts)
            ELSE packed[n - 1] + counts[n] * Place[n]
    IN  packed[Len(counts)]

(* packed |= BigInt(count) << BigInt(8 + index * 4), in order.             *)
PackProposalConfig(counts) ==
    LET packed[n \in 0..Len(counts)] ==
            IF n = 0 THEN Len(counts)
            ELSE packed[n - 1] + counts[n] * Place[n - 1]
    IN  packed[Len(counts)]

-----------------------------------------------------------------------------
(* packages/contracts/contracts/VoteEvent.sol                              *)

(* uint8(proposalConfig)                                                   *)
ProposalCount(config) == config % 256

OptionCount(config, index) == OptionBits(config, index)

(* Mutant: nothing is asked of the bits above the last proposal.           *)
ValidPrefix(config) ==
    /\ ProposalCount(config) \in 1..MaxProposals
    /\ \A i \in 0..ProposalCount(config) - 1 :
            OptionBits(config, i) \in MinOptions..MaxOptions

ValidProposalConfig(config) ==
    /\ ProposalCount(config) \in 1..MaxProposals
    /\ \A i \in 0..ProposalCount(config) - 1 :
            OptionBits(config, i) \in MinOptions..MaxOptions
    /\ config \div Place[ProposalCount(config)] = 0
=============================================================================
