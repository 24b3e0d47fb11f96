----------------------------- MODULE BondEscrow -----------------------------
(***************************************************************************)
(* What the contract suite promises about a bond, with no contracts in it: *)
(* a stake is held once, then returned whole or forfeited, once and for    *)
(* good; of a forfeited stake the reserve gets what the challenger's share *)
(* leaves.  README.md, "The use case" and "The contract proves the fraud". *)
(***************************************************************************)
EXTENDS Integers

CONSTANTS
  Ids,   \* actions
  Bps    \* the challenger's share, in basis points

VARIABLES
  stake,    \* stake[id]: the state and the amount of the action's bond
  held,     \* all that is held
  reserve   \* all that was kept of the forfeited stakes

escrowVars == <<stake, held, reserve>>

EscrowInit ==
  /\ stake = [id \in Ids |-> [state |-> "none", amount |-> 0]]
  /\ held = 0
  /\ reserve = 0

Hold(id) ==
  LET amount == stake'[id].amount
  IN  /\ stake[id].state = "none"
      /\ stake' = [stake EXCEPT ![id] = [state |-> "held", amount |-> amount]]
      /\ held' = held + amount
      /\ UNCHANGED reserve

Return(id) ==
  /\ stake[id].state = "held"
  /\ stake' = [stake EXCEPT ![id].state = "returned"]
  /\ held' = held - stake[id].amount
  /\ UNCHANGED reserve

Forfeit(id) ==
  /\ stake[id].state = "held"
  /\ stake' = [stake EXCEPT ![id].state = "forfeited"]
  /\ held' = held - stake[id].amount
  /\ reserve' = reserve + stake[id].amount - (stake[id].amount * Bps) \div 10000

EscrowNext == \E id \in Ids : Hold(id) \/ Return(id) \/ Forfeit(id)

EscrowSpec == EscrowInit /\ [][EscrowNext]_escrowVars
=============================================================================
