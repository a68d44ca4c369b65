------------------------------ MODULE GuildRanks ------------------------------
(***************************************************************************)
(* Guild with a record of whether a kill has cut the three table writes of *)
(* a changeMaster.                                                         *)
(***************************************************************************)
EXTENDS Guild

VARIABLE torn       \* whether a restart has loaded a half-written changeMaster
rankVars == <<vars, torn>>

\* In a whole image, exactly the master holds the master's rank.
OneMaster(g) == g = None \/
    {p \in Players : g.rank[p] = GUD_MASTER} = {g.master} \cap Members(g)

Noted == torn' = (torn \/ \E id \in Ids : ~ OneMaster(disk[1].guilds[id]))

RankNext == (GuildStep /\ UNCHANGED torn) \/ (Restart /\ Noted)
RankSpec == Init /\ torn = FALSE /\ [][RankNext]_rankVars

\* Exactly the master has rank GUD_MASTER and no rank is over its cap, whatever
\* promotions, transfers and kicks interleave, until a kill cuts a changeMaster.
RanksSane ==
    ~ torn => \A id \in Ids : IsGuild(id) =>
        /\ OneMaster(guilds[id])
        /\ \A lv \in Ranks : RankCount(id, lv) <= RankCap[lv]
==============================================================================
