------------------------------- MODULE MCVault -------------------------------
(* Vault on a small instance: a master with every power and a member with   *)
(* none, one bag slot each, two in the chest.                               *)
EXTENDS Vault, TLC

CONSTANTS alice, bob, potion, gem, plain, refined, MaxEvents

MCStackSize == potion :> 2 @@ gem :> 1
MCSalary == alice :> 0 @@ bob :> 1
MCGuildTable == <<[pxp |-> 0, penya |-> 0], [pxp |-> 1, penya |-> 1]>>
MCGemPxp == potion :> 0 @@ gem :> 1

\* Bounds the packets, the roster changes and the kills; the clock runs on.
VARIABLE events
mcvars == <<vaultVars, events>>

Of(k, n, s, o) == [itemId |-> k, count |-> n, objid |-> s, opt |-> o]

MCInit ==
    /\ gold = [p \in Players |-> IF p = alice THEN 1 ELSE 2]
    /\ bag \in {[p \in Players |-> [s \in Slots |->
          IF p = alice THEN Of(potion, 1, s, plain) ELSE held]] :
             held \in {Of(gem, 1, 0, plain), Of(potion, 1, 0, refined)}}
    /\ guild = [gold |-> 1, pxp |-> 0, level |-> 1,
                roll |-> [p \in Players |-> NewMember],
                chest |-> [s \in GuildBankSlots |-> IF s = 0 THEN Of(potion, 2, 0, plain) ELSE Empty]]
    /\ latch = Unlatched /\ hour = 20 /\ polled = FALSE
    /\ disk = <<guild>>
    /\ events = 0

MCNext ==
    \/ (Poll \/ NextHour \/ Flush) /\ UNCHANGED events
    \/ /\ events < MaxEvents
       /\ events' = events + 1
       /\ BankStep \/ RosterStep \/ VaultCrash

MCSpec == MCInit /\ [][MCNext]_mcvars /\ Fairness
=============================================================================
