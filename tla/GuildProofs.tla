----------------------------- MODULE GuildProofs -----------------------------
(* Theorems of Guild and of GuildWar, for any number of characters, names,   *)
(* guilds, ranks, wars and writes under way: typing, the registry, the       *)
(* players' back-references, the masters, the ranks, the lockouts and the    *)
(* tables; who fights whom, the marks on players and the frozen sides.       *)
EXTENDS GuildWar, GuildRanks, FiniteSetTheorems, SequenceTheorems, WellFoundedInduction, TLAPS

------------------------------------------------------------------------------
(* The inductive invariant.                                                  *)

\* What makes a collection of guilds sane, in memory or in an image.
Exclusive(gs) == \A p \in Players, id, other \in Ids :
    p \in Members(gs[id]) /\ p \in Members(gs[other]) => id = other
NamesApart(gs) == \A id, other \in Ids :
    gs[id] # None /\ gs[other] # None /\ gs[id].name = gs[other].name => id = other
Fits(gs) == \A id \in Ids : Cardinality(Members(gs[id])) <= MaxMembers
MasterMasks(gs) == \A id \in Ids : gs[id] # None => gs[id].power[GUD_MASTER] = Powers
Sane(gs) == Exclusive(gs) /\ NamesApart(gs) /\ Fits(gs) /\ MasterMasks(gs)

Below(gs, n) == \A id \in Ids : gs[id] # None => id < n
Led(gs, ex) == \A id \in Ids :
    gs[id] = None \/ gs[id].master \in Members(gs[id]) \/ gs[id].master \notin ex

\* In an image, the members are characters that are not deleted.
Present(gs, ex) == \A id \in Ids : Members(gs[id]) \subseteq ex

Proper(t, ex, n) ==
    Sane(t.guilds) /\ Below(t.guilds, n) /\ Led(t.guilds, ex) /\ Present(t.guilds, ex)
\* Whoever is off a guild's roster in the later image is locked out there.
Locked(t, u, ex) == \A id \in Ids, p \in ex :
    p \in Members(t.guilds[id]) /\ p \notin Members(u.guilds[id]) => p \in u.cooling
History(d, ex, n) ==
    /\ d \in Seq(Image) /\ d # << >>
    /\ \A i \in DOMAIN d : Proper(d[i], ex, n)
    /\ \A i \in DOMAIN d : i > 1 => Locked(d[i - 1], d[i], ex)

\* A guild's rows are those of the members that are not deleted.
Visible(g, ex) == [g EXCEPT !.rank = [p \in Players |-> IF p \in ex THEN g.rank[p] ELSE None]]
Agrees(t, gs, ex) == \A id \in Ids :
    t.guilds[id] # None => gs[id] # None /\ t.guilds[id] = Visible(gs[id], ex)
\* Until a character is deleted no row is refused.
Complete(t, gs, ex, cool) == ex = Players =>
    t.cooling = cool /\ \A id \in Ids : gs[id] # None => t.guilds[id] # None

Indexed(bn, gs) == \A n \in Names, id \in Ids : bn[n] = id <=> gs[id] # None /\ gs[id].name = n
\* A player's back-reference is the guild that lists it.
Own(on, jo, ig, gs) == \A p \in on :
    \/ \E id \in Ids : p \in Members(gs[id]) /\ ig[p] = id
    \/ ig[p] = None /\ (p \in jo \/ \A id \in Ids : p \notin Members(gs[id]))

Live == Sane(guilds) /\ Below(guilds, nextId) /\ Led(guilds, exists) /\ Indexed(byName, guilds)
Durable ==
    /\ History(disk, exists, nextId)
    /\ Agrees(Tables, guilds, exists) /\ Complete(Tables, guilds, exists, cooling)

IInv == TypeOK /\ Live /\ Durable /\ Own(online, joining, idGuild, guilds)

------------------------------------------------------------------------------
(* Guilds and images as values.                                              *)

LEMMA RanksAreNumbers == None \notin Ranks /\ GUD_MASTER \in Ranks /\ GUD_ROOKIE \in Ranks
<1>1. Ranks \subseteq Int /\ {GUD_MASTER, GUD_ROOKIE} \subseteq Ranks
  BY GuildAssumption DEF GUD_MASTER, GUD_ROOKIE
<1>2. None \notin Int
  BY GuildAssumption
<1>3. QED
  BY <1>1, <1>2

LEMMA MembersOf == ASSUME NEW g \in Guild
    PROVE  g # None /\ Members(g) = {p \in Players : g.rank[p] # None} /\ Members(None) = {}
BY GuildAssumption DEF Members

\* A guild with other ranks.
LEMMA RanksReplaced == ASSUME NEW g \in Guild, NEW r \in [Players -> Ranks \cup {None}]
    PROVE  LET h == [g EXCEPT !.rank = r] IN
           /\ h \in Guild /\ h.rank = r
           /\ h.name = g.name /\ h.master = g.master /\ h.power = g.power
           /\ h.win = g.win /\ h.lose = g.lose
BY DEF Guild

\* A roster with one place set or emptied.
LEMMA RerankedIs == ASSUME NEW g \in Guild, NEW p \in Players, NEW lv \in Ranks \cup {None}
    PROVE  LET h == Reranked(g, p, lv) IN
           /\ h \in Guild
           /\ h.rank = [g.rank EXCEPT ![p] = lv]
           /\ h.name = g.name /\ h.master = g.master /\ h.power = g.power
           /\ h.win = g.win /\ h.lose = g.lose
           /\ Members(h) = IF lv = None THEN Members(g) \ {p} ELSE Members(g) \cup {p}
<1> DEFINE r == [g.rank EXCEPT ![p] = lv]
           h == [g EXCEPT !.rank = r]
<1>1. g.rank \in [Players -> Ranks \cup {None}]
  BY DEF Guild
<1>2. r \in [Players -> Ranks \cup {None}]
  BY <1>1
<1>3. Reranked(g, p, lv) = h
  BY MembersOf DEF Reranked
<1>4. /\ h \in Guild /\ h.rank = r
      /\ h.name = g.name /\ h.master = g.master /\ h.power = g.power
      /\ h.win = g.win /\ h.lose = g.lose
  BY <1>2, RanksReplaced
<1> HIDE DEF h
<1>5. Members(h) = {q \in Players : r[q] # None}
  BY <1>4, MembersOf
<1>6. Members(g) = {q \in Players : g.rank[q] # None}
  BY MembersOf
<1>7. \A q \in Players : r[q] = IF q = p THEN lv ELSE g.rank[q]
  BY <1>1
<1>8. Members(h) = IF lv = None THEN Members(g) \ {p} ELSE Members(g) \cup {p}
  BY <1>5, <1>6, <1>7
<1>9. QED
  BY <1>3, <1>4, <1>8 DEF h

LEMMA RerankedMembers == ASSUME NEW g \in Guild, NEW p \in Players, NEW lv \in Ranks \cup {None}
    PROVE  /\ Reranked(g, p, lv) \in Guild /\ Reranked(g, p, lv) # None
           /\ Reranked(g, p, lv).name = g.name /\ Reranked(g, p, lv).master = g.master
           /\ Reranked(g, p, lv).power = g.power
           /\ lv = None => Members(Reranked(g, p, lv)) = Members(g) \ {p}
           /\ lv # None => Members(Reranked(g, p, lv)) = Members(g) \cup {p}
<1>1. LET h == Reranked(g, p, lv) IN
      /\ h \in Guild
      /\ h.rank = [g.rank EXCEPT ![p] = lv]
      /\ h.name = g.name /\ h.master = g.master /\ h.power = g.power
      /\ h.win = g.win /\ h.lose = g.lose
      /\ Members(h) = IF lv = None THEN Members(g) \ {p} ELSE Members(g) \cup {p}
  BY RerankedIs
<1>2. Reranked(g, p, lv) # None
  BY <1>1, MembersOf
<1>3. QED
  BY <1>1, <1>2

LEMMA VisibleIs == ASSUME NEW g \in Guild, NEW ex \in SUBSET Players
    PROVE  LET h == Visible(g, ex) IN
           /\ h \in Guild
           /\ h.rank = [p \in Players |-> IF p \in ex THEN g.rank[p] ELSE None]
           /\ h.name = g.name /\ h.master = g.master /\ h.power = g.power
           /\ h.win = g.win /\ h.lose = g.lose
           /\ Members(h) = Members(g) \cap ex
<1> DEFINE r == [p \in Players |-> IF p \in ex THEN g.rank[p] ELSE None]
           h == [g EXCEPT !.rank = r]
<1>1. g.rank \in [Players -> Ranks \cup {None}]
  BY DEF Guild
<1>2. r \in [Players -> Ranks \cup {None}]
  BY <1>1
<1>3. Visible(g, ex) = h
  BY DEF Visible
<1>4. /\ h \in Guild /\ h.rank = r
      /\ h.name = g.name /\ h.master = g.master /\ h.power = g.power
      /\ h.win = g.win /\ h.lose = g.lose
  BY <1>2, RanksReplaced
<1> HIDE DEF h
<1>5. Members(h) = {q \in Players : r[q] # None}
  BY <1>4, MembersOf
<1>6. Members(g) = {q \in Players : g.rank[q] # None}
  BY MembersOf
<1>7. Members(h) = Members(g) \cap ex
  BY <1>5, <1>6
<1>8. QED
  BY <1>3, <1>4, <1>7 DEF h

\* Two guilds are the same when their fields are.
LEMMA SameGuild == ASSUME NEW g \in Guild, NEW h \in Guild,
                          g.name = h.name, g.master = h.master, g.power = h.power,
                          g.win = h.win, g.lose = h.lose,
                          \A p \in Players : g.rank[p] = h.rank[p]
                   PROVE  g = h
<1>1. g.rank = h.rank
  BY DEF Guild
<1>2. QED
  BY <1>1 DEF Guild

\* An image with another guild under one id.
LEMMA RowReplaced == ASSUME NEW t \in Image, NEW id \in Ids, NEW g \in Guild \cup {None}
    PROVE  LET u == [t EXCEPT !.guilds[id] = g] IN
           /\ u \in Image /\ u.cooling = t.cooling /\ u.wars = t.wars
           /\ u.guilds = [t.guilds EXCEPT ![id] = g]
<1> DEFINE v == [guilds |-> [t.guilds EXCEPT ![id] = g], cooling |-> t.cooling, wars |-> t.wars]
<1>1. t = [guilds |-> t.guilds, cooling |-> t.cooling, wars |-> t.wars]
      /\ t.guilds \in [Ids -> Guild \cup {None}] /\ t.cooling \in SUBSET Players
      /\ t.wars \in [WarIds -> War \cup {None}]
  BY DEF Image
<1>2. [t EXCEPT !.guilds[id] = g] = v
  BY <1>1
<1>3. [t.guilds EXCEPT ![id] = g] \in [Ids -> Guild \cup {None}]
  BY <1>1
<1>4. v \in Image
  BY <1>1, <1>3 DEF Image
<1>5. QED
  BY <1>2, <1>4

LEMMA CoolingReplaced == ASSUME NEW t \in Image, NEW S \in SUBSET Players
    PROVE  LET u == [t EXCEPT !.cooling = S] IN
           u \in Image /\ u.cooling = S /\ u.wars = t.wars /\ u.guilds = t.guilds
BY DEF Image

------------------------------------------------------------------------------
(* The table writes.                                                         *)

LEMMA LockedOutIs == ASSUME NEW t \in Image, NEW S \in SUBSET Players, exists \subseteq Players
    PROVE  LET u == LockedOut(t, S) IN
           /\ u \in Image /\ u.guilds = t.guilds /\ u.wars = t.wars
           /\ u.cooling = t.cooling \cup (S \cap exists)
<1>1. t.cooling \in SUBSET Players
  BY DEF Image
<1>2. t.cooling \cup (S \cap exists) \in SUBSET Players
  BY <1>1
<1>3. LockedOut(t, S) = [t EXCEPT !.cooling = t.cooling \cup (S \cap exists)]
  BY DEF LockedOut
<1>4. QED
  BY <1>2, <1>3, CoolingReplaced

\* A member's row is written under its character, in whatever guild it is.
LEMMA MemberPatchedIs == ASSUME NEW t \in Image, NEW p \in Players, NEW lv \in Ranks \cup {None}
    PROVE  LET u == MemberPatched(t, p, lv) IN
           /\ u \in Image /\ u.cooling = t.cooling /\ u.wars = t.wars
           /\ \A id \in Ids : u.guilds[id] = IF p \in Members(t.guilds[id])
                                             THEN Reranked(t.guilds[id], p, lv) ELSE t.guilds[id]
<1> DEFINE gs == [id \in Ids |-> IF p \in Members(t.guilds[id])
                                 THEN Reranked(t.guilds[id], p, lv) ELSE t.guilds[id]]
<1>1. t.guilds \in [Ids -> Guild \cup {None}]
  BY DEF Image
<1>2. \A id \in Ids : gs[id] \in Guild \cup {None}
  BY <1>1, RerankedIs DEF Reranked
<1>3. gs \in [Ids -> Guild \cup {None}]
  BY <1>2
<1>4. MemberPatched(t, p, lv) = [t EXCEPT !.guilds = gs]
  BY DEF MemberPatched
<1> HIDE DEF gs
<1>5. LET u == [t EXCEPT !.guilds = gs] IN
      u \in Image /\ u.cooling = t.cooling /\ u.wars = t.wars /\ u.guilds = gs
  BY <1>3 DEF Image
<1>6. \A id \in Ids : gs[id] = IF p \in Members(t.guilds[id])
                               THEN Reranked(t.guilds[id], p, lv) ELSE t.guilds[id]
  BY DEF gs
<1>7. QED
  BY <1>4, <1>5, <1>6

\* A guild's row takes every column of g; its members' rows are others.
LEMMA RowPatchedIs == ASSUME NEW t \in Image, NEW id \in Ids, NEW g \in Guild
    PROVE  LET u == RowPatched(t, id, g) IN
           /\ u \in Image /\ u.cooling = t.cooling /\ u.wars = t.wars
           /\ \A other \in Ids \ {id} : u.guilds[other] = t.guilds[other]
           /\ IF t.guilds[id] = None THEN u.guilds[id] = None
              ELSE /\ u.guilds[id] = [g EXCEPT !.rank = t.guilds[id].rank]
                   /\ u.guilds[id] \in Guild
<1>1. t.guilds \in [Ids -> Guild \cup {None}]
  BY DEF Image
<1>2. CASE t.guilds[id] = None
  BY <1>1, <1>2 DEF RowPatched
<1>3. CASE t.guilds[id] # None
  <2> DEFINE h == [g EXCEPT !.rank = t.guilds[id].rank]
  <2>1. t.guilds[id].rank \in [Players -> Ranks \cup {None}]
    BY <1>1, <1>3 DEF Guild
  <2>2. h \in Guild
    BY <2>1, RanksReplaced
  <2>3. RowPatched(t, id, g) = [t EXCEPT !.guilds[id] = h]
    BY <1>3 DEF RowPatched
  <2> HIDE DEF h
  <2>4. LET u == [t EXCEPT !.guilds[id] = h] IN
        /\ u \in Image /\ u.cooling = t.cooling /\ u.wars = t.wars
        /\ u.guilds = [t.guilds EXCEPT ![id] = h]
    BY <2>2, RowReplaced
  <2>5. QED
    BY <1>1, <1>3, <2>2, <2>3, <2>4 DEF h
<1>4. QED
  BY <1>2, <1>3

------------------------------------------------------------------------------
(* Sanity of collections of guilds.                                          *)

Collection == [Ids -> Guild \cup {None}]

\* hs has no guild and no member that gs lacks.
Within(hs, gs) == \A id \in Ids : hs[id] # None =>
    /\ gs[id] # None
    /\ hs[id].name = gs[id].name
    /\ hs[id].power[GUD_MASTER] = gs[id].power[GUD_MASTER]
    /\ Members(hs[id]) \subseteq Members(gs[id])

LEMMA FiniteMembers == ASSUME NEW g \in Guild \cup {None}
    PROVE  IsFiniteSet(Members(g)) /\ Cardinality(Members(g)) \in Nat
<1>1. Members(g) \subseteq Players /\ IsFiniteSet(Players)
  BY GuildAssumption DEF Members
<1>2. QED
  BY <1>1, FS_Subset, FS_CardinalityType

LEMMA NoMembers == Members(None) = {} /\ Cardinality(Members(None)) = 0
BY FS_EmptySet DEF Members

LEMMA WithinSane == ASSUME NEW gs \in Collection, NEW hs \in Collection, Within(hs, gs), Sane(gs)
    PROVE  Sane(hs)
<1>1. \A id \in Ids : Members(hs[id]) \subseteq Members(gs[id])
  BY NoMembers DEF Within
<1>2. Exclusive(hs)
  BY <1>1 DEF Sane, Exclusive
<1>3. NamesApart(hs)
  BY DEF Sane, NamesApart, Within
<1>4. Fits(hs)
  <2>1. ASSUME NEW id \in Ids PROVE Cardinality(Members(hs[id])) <= MaxMembers
    <3>1. gs[id] \in Guild \cup {None} /\ hs[id] \in Guild \cup {None}
      BY DEF Collection
    <3>2. Cardinality(Members(hs[id])) <= Cardinality(Members(gs[id]))
      BY <1>1, <3>1, FiniteMembers, FS_Subset
    <3>3. Cardinality(Members(gs[id])) <= MaxMembers
      BY DEF Sane, Fits
    <3>4. Cardinality(Members(hs[id])) \in Nat /\ Cardinality(Members(gs[id])) \in Nat /\ MaxMembers \in Nat
      BY <3>1, FiniteMembers, GuildAssumption
    <3>5. QED
      BY <3>2, <3>3, <3>4
  <2>2. QED
    BY <2>1 DEF Fits
<1>5. MasterMasks(hs)
  BY DEF Sane, MasterMasks, Within
<1>6. QED
  BY <1>2, <1>3, <1>4, <1>5 DEF Sane

\* What the tables show of sane guilds is sane, led, and no higher.
LEMMA AgreesProper ==
    ASSUME NEW t \in Image, NEW gs \in Collection, NEW ex \in SUBSET Players, NEW n,
           Agrees(t, gs, ex), Sane(gs), Below(gs, n), Led(gs, ex)
    PROVE  Proper(t, ex, n) /\ \A id \in Ids : Members(t.guilds[id]) \subseteq Members(gs[id])
<1>1. t.guilds \in Collection
  BY DEF Image, Collection
<1>2. ASSUME NEW id \in Ids, t.guilds[id] # None
      PROVE  /\ gs[id] # None /\ t.guilds[id].name = gs[id].name
             /\ t.guilds[id].master = gs[id].master /\ t.guilds[id].power = gs[id].power
             /\ Members(t.guilds[id]) = Members(gs[id]) \cap ex
  <2>1. gs[id] \in Guild /\ t.guilds[id] = Visible(gs[id], ex) /\ gs[id] # None
    BY <1>2 DEF Agrees, Collection
  <2>2. LET h == Visible(gs[id], ex) IN
        /\ h.name = gs[id].name /\ h.master = gs[id].master /\ h.power = gs[id].power
        /\ Members(h) = Members(gs[id]) \cap ex
    BY <2>1, VisibleIs
  <2>3. QED
    BY <2>1, <2>2
<1>3. Within(t.guilds, gs)
  BY <1>2 DEF Within
<1>4. Sane(t.guilds)
  BY <1>1, <1>3, WithinSane
<1>5. Below(t.guilds, n)
  BY <1>2 DEF Below
<1>6. Led(t.guilds, ex)
  BY <1>2 DEF Led
<1>7. Present(t.guilds, ex)
  BY <1>2, NoMembers DEF Present
<1>8. QED
  BY <1>2, <1>4, <1>5, <1>6, <1>7, NoMembers DEF Proper

------------------------------------------------------------------------------
(* The images the tables pass through.                                       *)

Last(d) == d[Len(d)]

LEMMA LastOf == ASSUME NEW d \in Seq(Image), d # << >>
    PROVE  /\ Len(d) \in Nat \ {0} /\ DOMAIN d = 1 .. Len(d)
           /\ Last(d) \in Image /\ d[1] \in Image /\ Len(d) \in DOMAIN d /\ 1 \in DOMAIN d
BY DEF Last

LEMMA HistoryAppended ==
    ASSUME NEW d, NEW ex, NEW n, History(d, ex, n),
           NEW a \in Image, Proper(a, ex, n), Locked(Last(d), a, ex)
    PROVE  History(Append(d, a), ex, n) /\ Last(Append(d, a)) = a
<1>1. d \in Seq(Image) /\ d # << >>
  BY DEF History
<1>2. /\ Append(d, a) \in Seq(Image) /\ Append(d, a) # << >>
      /\ Len(Append(d, a)) = Len(d) + 1 /\ Len(d) \in Nat \ {0}
      /\ DOMAIN Append(d, a) = 1 .. (Len(d) + 1) /\ DOMAIN d = 1 .. Len(d)
      /\ Append(d, a)[Len(d) + 1] = a
      /\ \A i \in 1 .. Len(d) : Append(d, a)[i] = d[i]
  BY <1>1
<1>3. ASSUME NEW i \in 1 .. (Len(d) + 1) PROVE Proper(Append(d, a)[i], ex, n)
  BY <1>2, <1>3 DEF History
<1>4. ASSUME NEW i \in 1 .. (Len(d) + 1), i > 1
      PROVE  Locked(Append(d, a)[i - 1], Append(d, a)[i], ex)
  <2>1. CASE i = Len(d) + 1
    <3>1. i - 1 = Len(d) /\ i - 1 \in 1 .. Len(d)
      BY <1>2, <2>1
    <3>2. Append(d, a)[i - 1] = Last(d) /\ Append(d, a)[i] = a
      BY <1>2, <2>1, <3>1 DEF Last
    <3>3. QED
      BY <3>2
  <2>2. CASE i # Len(d) + 1
    <3>1. i \in 1 .. Len(d) /\ i - 1 \in 1 .. Len(d)
      BY <1>2, <1>4, <2>2
    <3>2. QED
      BY <1>2, <1>4, <3>1 DEF History
  <2>3. QED
    BY <2>1, <2>2
<1>5. QED
  BY <1>2, <1>3, <1>4 DEF History, Last

LEMMA HistoryTail ==
    ASSUME NEW d, NEW ex, NEW n, History(d, ex, n), Len(d) > 1
    PROVE  History(Tail(d), ex, n) /\ Last(Tail(d)) = Last(d)
<1>1. d \in Seq(Image) /\ d # << >>
  BY DEF History
<1>2. /\ Tail(d) \in Seq(Image) /\ Tail(d) # << >>
      /\ Len(Tail(d)) = Len(d) - 1 /\ Len(d) \in Nat
      /\ DOMAIN Tail(d) = 1 .. (Len(d) - 1) /\ DOMAIN d = 1 .. Len(d)
      /\ \A i \in 1 .. (Len(d) - 1) : Tail(d)[i] = d[i + 1]
  <2>1. Tail(d) \in Seq(Image) /\ Len(Tail(d)) = Len(d) - 1
    BY <1>1, HeadTailProperties
  <2>2. Len(d) \in Nat /\ DOMAIN Tail(d) = 1 .. (Len(d) - 1) /\ DOMAIN d = 1 .. Len(d)
    BY <1>1, <2>1, LenProperties
  <2>3. \A i \in 1 .. (Len(d) - 1) : Tail(d)[i] = d[i + 1]
    BY <1>1
  <2>4. Tail(d) # << >>
    <3>1. Len(Tail(d)) # 0
      BY <2>1, <2>2
    <3>2. QED
      BY <2>1, <3>1, EmptySeq
  <2>5. QED
    BY <2>1, <2>2, <2>3, <2>4
<1>3. ASSUME NEW i \in 1 .. (Len(d) - 1) PROVE Proper(Tail(d)[i], ex, n)
  BY <1>2, <1>3 DEF History
<1>4. ASSUME NEW i \in 1 .. (Len(d) - 1), i > 1
      PROVE  Locked(Tail(d)[i - 1], Tail(d)[i], ex)
  <2>1. i - 1 \in 1 .. (Len(d) - 1) /\ i + 1 \in 1 .. Len(d) /\ (i - 1) + 1 = (i + 1) - 1
        /\ i + 1 > 1
    BY <1>2, <1>4
  <2>2. Locked(d[(i + 1) - 1], d[i + 1], ex)
    BY <1>2, <2>1 DEF History
  <2>3. QED
    BY <1>2, <2>1, <2>2
<1>5. Last(Tail(d)) = Last(d)
  BY <1>2 DEF Last
<1>6. QED
  BY <1>2, <1>3, <1>4, <1>5 DEF History

LEMMA HistoryFirst ==
    ASSUME NEW a \in Image, NEW ex, NEW n, Proper(a, ex, n)
    PROVE  History(<<a>>, ex, n) /\ Last(<<a>>) = a
BY DEF History, Last

LEMMA HistoryRaised ==
    ASSUME NEW d, NEW ex, NEW n \in Int, NEW m \in Int, n <= m, History(d, ex, n)
    PROVE  History(d, ex, m)
<1>1. ASSUME NEW gs, Below(gs, n) PROVE Below(gs, m)
  BY <1>1, GuildAssumption DEF Below, Ids
<1>2. QED
  BY <1>1 DEF History, Proper

\* Two and three statements in a row.
LEMMA Statements == ASSUME NEW d \in Seq(Image), NEW a \in Image, NEW b \in Image, NEW c \in Image
    PROVE  /\ d \o <<a>> = Append(d, a)
           /\ d \o <<a, b>> = Append(Append(d, a), b)
           /\ d \o <<a, b, c>> = Append(Append(Append(d, a), b), c)
<1>1. d \o <<a>> = Append(d, a)
  OBVIOUS
<1>2. d \o <<a, b>> = Append(Append(d, a), b)
  OBVIOUS
<1>3. d \o <<a, b, c>> = Append(Append(Append(d, a), b), c)
  OBVIOUS
<1>4. QED
  BY <1>1, <1>2, <1>3

------------------------------------------------------------------------------
(* Lookups.                                                                  *)

LEMMA GuildOfIs == ASSUME IInv, NEW p \in Players, GuildsOf(p) # {}
    PROVE  /\ GuildsOf(p) = {GuildOf(p)} /\ GuildOf(p) \in Ids
           /\ guilds[GuildOf(p)] \in Guild /\ p \in Members(guilds[GuildOf(p)])
<1>1. PICK x \in Ids : p \in Members(guilds[x])
  BY DEF GuildsOf
<1>2. GuildsOf(p) = {x}
  BY <1>1 DEF GuildsOf, IInv, Live, Sane, Exclusive
<1>3. x \in Int
  BY GuildAssumption DEF Ids
<1>4. GuildOf(p) = x
  BY <1>2, <1>3 DEF GuildOf
<1>5. guilds[x] \in Guild
  BY <1>1 DEF IInv, TypeOK, Members
<1>6. QED
  BY <1>1, <1>2, <1>4, <1>5

LEMMA MayActIs == ASSUME IInv, NEW p \in Players, NEW id, MayAct(p, id)
    PROVE  /\ id \in Ids /\ p \in online /\ guilds[id] \in Guild /\ p \in Members(guilds[id])
           /\ \A other \in Ids : p \in Members(guilds[other]) => other = id
<1>1. p \in online /\ GuildsOf(p) # {} /\ id = GuildOf(p)
  BY DEF MayAct
<1>2. /\ GuildsOf(p) = {id} /\ id \in Ids
      /\ guilds[id] \in Guild /\ p \in Members(guilds[id])
  BY <1>1, GuildOfIs
<1>3. QED
  BY <1>1, <1>2 DEF GuildsOf

LEMMA OwnIs == IInv => IdGuildIsOwn
<1> SUFFICES ASSUME IInv, NEW p \in online
             PROVE  \/ GuildsOf(p) # {} /\ idGuild[p] = GuildOf(p)
                    \/ idGuild[p] = None /\ (GuildsOf(p) = {} \/ p \in joining)
  BY DEF IdGuildIsOwn
<1>1. p \in Players
  BY DEF IInv, TypeOK
<1>2. ASSUME NEW id \in Ids, p \in Members(guilds[id]), idGuild[p] = id
      PROVE  GuildsOf(p) # {} /\ idGuild[p] = GuildOf(p)
  <2>1. id \in GuildsOf(p)
    BY <1>2 DEF GuildsOf
  <2>2. QED
    BY <1>1, <1>2, <2>1, GuildOfIs
<1>3. (\A id \in Ids : p \notin Members(guilds[id])) => GuildsOf(p) = {}
  BY DEF GuildsOf
<1>4. QED
  BY <1>2, <1>3 DEF IInv, Own

------------------------------------------------------------------------------
(* Steps that touch neither rosters nor tables.                              *)

LEMMA Quiet == ASSUME IInv, UNCHANGED <<exists, rosters, warfare, disk>> PROVE Live' /\ Durable'
BY DEF IInv, Live, Durable, Tables, rosters, warfare

LEMMA NotInGuildKeeps == ASSUME IInv, NEW p \in Players, NotInGuild(p) PROVE IInv'
<1>1. /\ UNCHANGED <<session, rosters, pending, warfare, disk>> /\ GuildsOf(p) = {}
      /\ idGuild' = [idGuild EXCEPT ![p] = None]
  BY DEF NotInGuild
<1>2. TypeOK'
  BY <1>1 DEF IInv, TypeOK, session, rosters, warfare
<1>3. \A id \in Ids : p \notin Members(guilds[id])
  BY <1>1 DEF GuildsOf
<1>4. idGuild'[p] = None /\ \A q \in Players : q # p => idGuild'[q] = idGuild[q]
  BY <1>1 DEF IInv, TypeOK
<1>5. UNCHANGED <<online, joining, guilds>> /\ online \subseteq Players
  BY <1>1 DEF session, rosters, IInv, TypeOK
<1>6. Own(online', joining', idGuild', guilds')
  BY <1>3, <1>4, <1>5 DEF IInv, Own
<1>7. QED
  BY <1>1, <1>2, <1>6, Quiet DEF IInv, session

LEMMA InviteKeeps ==
    ASSUME IInv, NEW p \in Players, NEW t \in Players, NEW id \in Ids, Invite(p, id, t) PROVE IInv'
<1>1. /\ UNCHANGED <<session, rosters, warfare, disk>> /\ GuildsOf(t) = {}
      /\ pending' = [pending EXCEPT ![t] = [guild |-> id, inviter |-> p]]
      /\ idGuild' = [idGuild EXCEPT ![t] = None]
  BY DEF Invite
<1>2. TypeOK'
  BY <1>1 DEF IInv, TypeOK, Invitation, session, rosters, warfare
<1>3. \A x \in Ids : t \notin Members(guilds[x])
  BY <1>1 DEF GuildsOf
<1>4. idGuild'[t] = None /\ \A q \in Players : q # t => idGuild'[q] = idGuild[q]
  BY <1>1 DEF IInv, TypeOK
<1>5. UNCHANGED <<online, joining, guilds>> /\ online \subseteq Players
  BY <1>1 DEF session, rosters, IInv, TypeOK
<1>6. Own(online', joining', idGuild', guilds')
  BY <1>3, <1>4, <1>5 DEF IInv, Own
<1>7. QED
  BY <1>1, <1>2, <1>6, Quiet DEF IInv, session

\* An invite goes, answered, refused or too old.
LEMMA InviteGoneKeeps ==
    ASSUME IInv, NEW t \in Players, InviteClosed(t) \/ AcceptRefused(t) PROVE IInv'
<1>1. /\ UNCHANGED <<session, idGuild, rosters, warfare, disk>>
      /\ pending' = [pending EXCEPT ![t] = None]
  BY DEF InviteClosed, AcceptRefused
<1>2. TypeOK'
  BY <1>1 DEF IInv, TypeOK, session, rosters, warfare
<1>3. Own(online', joining', idGuild', guilds')
  BY <1>1 DEF IInv, Own, session, rosters
<1>4. QED
  BY <1>1, <1>2, <1>3, Quiet DEF IInv, session

LEMMA JoinKeeps == ASSUME IInv, NEW p \in Players, Join(p) PROVE IInv'
<1>1. /\ UNCHANGED <<closing, exists, rosters, pending, warfare, disk>>
      /\ online' = online \cup {p} /\ connected' = connected \cup {p} /\ joining' = joining \cup {p}
      /\ idGuild' = [idGuild EXCEPT ![p] = None]
  BY DEF Join
<1>2. TypeOK'
  BY <1>1 DEF IInv, TypeOK, rosters, warfare
<1>3. idGuild'[p] = None /\ p \in joining' /\ \A q \in Players : q # p => idGuild'[q] = idGuild[q]
  BY <1>1 DEF IInv, TypeOK
<1>4. guilds' = guilds /\ online \subseteq Players
  BY <1>1 DEF rosters, IInv, TypeOK
<1>5. Own(online', joining', idGuild', guilds')
  BY <1>1, <1>3, <1>4 DEF IInv, Own
<1>6. QED
  BY <1>1, <1>2, <1>5, Quiet DEF IInv

LEMMA OnJoinKeeps == ASSUME IInv, NEW p \in Players, OnJoin(p) PROVE IInv'
<1> DEFINE mine == IF p \notin online THEN idGuild[p] ELSE IF GuildsOf(p) = {} THEN None ELSE GuildOf(p)
<1>1. /\ UNCHANGED <<online, connected, closing, exists, rosters, pending, warfare, disk>>
      /\ joining' = joining \ {p}
      /\ idGuild' = [idGuild EXCEPT ![p] = mine]
  BY DEF OnJoin
<1>2. mine \in Ids \cup {None}
  BY GuildOfIs DEF IInv, TypeOK
<1>3. p \in online => \/ \E id \in Ids : p \in Members(guilds[id]) /\ mine = id
                      \/ mine = None /\ \A id \in Ids : p \notin Members(guilds[id])
  <2>1. GuildsOf(p) = {} => \A id \in Ids : p \notin Members(guilds[id])
    BY DEF GuildsOf
  <2>2. QED
    BY <2>1, GuildOfIs
<1> HIDE DEF mine
<1>4. TypeOK'
  BY <1>1, <1>2 DEF IInv, TypeOK, rosters, warfare
<1>5. idGuild'[p] = mine /\ \A q \in Players : q # p => idGuild'[q] = idGuild[q]
  BY <1>1 DEF IInv, TypeOK
<1>6. guilds' = guilds /\ online \subseteq Players
  BY <1>1 DEF rosters, IInv, TypeOK
<1>7. Own(online', joining', idGuild', guilds')
  BY <1>1, <1>3, <1>5, <1>6 DEF IInv, Own
<1>8. QED
  BY <1>1, <1>4, <1>7, Quiet DEF IInv

LEMMA SocketClosedKeeps == ASSUME IInv, NEW p \in Players, SocketClosed(p) PROVE IInv'
<1>1. /\ UNCHANGED <<online, joining, exists, idGuild, rosters, warfare, disk>>
      /\ connected' = connected \ {p}
      /\ closing' \in {closing, closing \cup {p}} /\ pending' \in {pending, InvitesKept(p)}
  BY DEF SocketClosed
<1>2. InvitesKept(p) \in [Players -> Invitation \cup {None}]
  BY DEF InvitesKept, IInv, TypeOK
<1>3. TypeOK'
  BY <1>1, <1>2 DEF IInv, TypeOK, rosters, warfare
<1>4. Own(online', joining', idGuild', guilds')
  BY <1>1 DEF IInv, Own, rosters
<1>5. QED
  BY <1>1, <1>3, <1>4, Quiet DEF IInv

LEMMA LeaveKeeps == ASSUME IInv, NEW p \in Players, Leave(p) PROVE IInv'
<1>1. /\ UNCHANGED <<connected, joining, exists, idGuild, rosters, pending, warfare, disk>>
      /\ closing' = closing \ {p} /\ online' = online \ {p}
  BY DEF Leave
<1>2. TypeOK'
  BY <1>1 DEF IInv, TypeOK, rosters, warfare
<1>3. Own(online', joining', idGuild', guilds')
  BY <1>1 DEF IInv, Own, rosters
<1>4. QED
  BY <1>1, <1>2, <1>3, Quiet DEF IInv

------------------------------------------------------------------------------
(* Writes that settle, lockouts that end and characters that are deleted.    *)

LEMMA FlushKeeps == ASSUME IInv, Flush PROVE IInv'
<1>1. /\ UNCHANGED <<session, idGuild, rosters, pending, warfare>>
      /\ Len(disk) > 1 /\ disk' = Tail(disk)
  BY DEF Flush
<1>2. History(disk, exists, nextId) /\ Tables = Last(disk)
  BY DEF IInv, Durable, Tables, Last
<1>3. History(disk', exists, nextId) /\ Last(disk') = Last(disk)
  BY <1>1, <1>2, HistoryTail
<1>4. Tables' = Tables
  BY <1>2, <1>3 DEF Tables, Last
<1>5. Live' /\ Own(online', joining', idGuild', guilds')
  BY <1>1 DEF IInv, Live, session, rosters, warfare
<1>6. Durable'
  BY <1>1, <1>3, <1>4 DEF IInv, Durable, session, rosters
<1>7. TypeOK'
  BY <1>1, <1>3 DEF IInv, TypeOK, History, session, rosters, warfare
<1>8. QED
  BY <1>5, <1>6, <1>7 DEF IInv

LEMMA CooldownOverKeeps == ASSUME IInv, NEW p \in Players, CooldownOver(p) PROVE IInv'
<1> DEFINE t == disk[1]
           u == [t EXCEPT !.cooling = t.cooling \ {p}]
<1>1. /\ UNCHANGED <<session, idGuild, guilds, byName, nextId, pending, warfare>>
      /\ Len(disk) = 1 /\ disk' = <<u>> /\ cooling' = cooling \ {p}
  BY DEF CooldownOver
<1>2. /\ disk \in Seq(Image) /\ disk # << >> /\ t \in Image
      /\ Proper(t, exists, nextId) /\ Tables = t
  BY <1>1, LastOf DEF IInv, Durable, History, Tables
<1>3. u \in Image /\ u.cooling = t.cooling \ {p} /\ u.wars = t.wars /\ u.guilds = t.guilds
  <2>1. t.cooling \ {p} \in SUBSET Players
    BY <1>2 DEF Image
  <2>2. QED
    BY <1>2, <2>1, CoolingReplaced
<1> HIDE DEF t, u
<1>4. Proper(u, exists, nextId)
  BY <1>2, <1>3 DEF Proper
<1>5. History(disk', exists, nextId) /\ Last(disk') = u
  BY <1>1, <1>3, <1>4, HistoryFirst
<1>6. Tables' = u
  BY <1>5 DEF Tables, Last
<1>7. Live' /\ Own(online', joining', idGuild', guilds')
  BY <1>1 DEF IInv, Live, session, warfare
<1>8. Agrees(u, guilds, exists) /\ Complete(u, guilds, exists, cooling')
  BY <1>1, <1>2, <1>3 DEF IInv, Durable, Agrees, Complete
<1>9. Durable'
  BY <1>1, <1>5, <1>6, <1>8 DEF Durable, session
<1>10. TypeOK'
  BY <1>1, <1>5 DEF IInv, TypeOK, History, session, warfare
<1>11. QED
  BY <1>7, <1>9, <1>10 DEF IInv

\* Guilds whose creation by p is still under way.
Refused(p) == {id \in Ids : disk[1].guilds[id] = None /\
    \E i \in 2 .. Len(disk) : /\ disk[i - 1].guilds[id] = None
                              /\ disk[i].guilds[id] # None
                              /\ disk[i].guilds[id].master = p}

LEMMA PurgedIs == ASSUME NEW t \in Image, NEW p \in Players
    PROVE  LET u == Purged(t, p) IN
           /\ u \in Image /\ u.wars = t.wars /\ u.cooling = t.cooling \ {p}
           /\ \A id \in Ids : u.guilds[id] =
                 IF t.guilds[id] = None \/ id \in Refused(p) THEN None
                 ELSE Reranked(t.guilds[id], p, None)
<1> DEFINE gs == [id \in Ids |-> IF t.guilds[id] = None \/ id \in Refused(p) THEN None
                                 ELSE Reranked(t.guilds[id], p, None)]
<1>1. t.guilds \in [Ids -> Guild \cup {None}] /\ t.cooling \in SUBSET Players
  BY DEF Image
<1>2. \A id \in Ids : gs[id] \in Guild \cup {None}
  BY <1>1, RerankedIs
<1>3. gs \in [Ids -> Guild \cup {None}] /\ t.cooling \ {p} \in SUBSET Players
  BY <1>1, <1>2
<1>4. [id \in Ids |-> IF disk[1].guilds[id] = None /\ t.guilds[id] # None
           /\ \E i \in 2 .. Len(disk) : /\ disk[i - 1].guilds[id] = None
                                        /\ disk[i].guilds[id] # None
                                        /\ disk[i].guilds[id].master = p
        THEN None ELSE Reranked(t.guilds[id], p, None)] = gs
  BY DEF Refused, Reranked
<1>5. Purged(t, p) = [t EXCEPT !.cooling = t.cooling \ {p}, !.guilds = gs]
  BY <1>4 DEF Purged
<1> HIDE DEF gs
<1>6. LET u == [t EXCEPT !.cooling = t.cooling \ {p}, !.guilds = gs] IN
      u \in Image /\ u.wars = t.wars /\ u.cooling = t.cooling \ {p} /\ u.guilds = gs
  BY <1>3 DEF Image
<1>7. \A id \in Ids : gs[id] = IF t.guilds[id] = None \/ id \in Refused(p) THEN None
                               ELSE Reranked(t.guilds[id], p, None)
  BY DEF gs
<1>8. QED
  BY <1>5, <1>6, <1>7

\* The members left in a guild.
LEMMA PurgedMembers ==
    ASSUME NEW t \in Image, NEW p \in Players, NEW id \in Ids
    PROVE  Members(Purged(t, p).guilds[id]) =
               IF id \in Refused(p) THEN {} ELSE Members(t.guilds[id]) \ {p}
<1>1. t.guilds[id] \in Guild \cup {None}
  BY DEF Image
<1>2. CASE t.guilds[id] = None \/ id \in Refused(p)
  <2>1. Purged(t, p).guilds[id] = None
    BY <1>2, PurgedIs
  <2>2. QED
    BY <1>2, <2>1, NoMembers
<1>3. CASE t.guilds[id] # None /\ id \notin Refused(p)
  <2>1. Purged(t, p).guilds[id] = Reranked(t.guilds[id], p, None) /\ t.guilds[id] \in Guild
    BY <1>1, <1>3, PurgedIs
  <2>2. None \in Ranks \cup {None}
    OBVIOUS
  <2>3. Members(Reranked(t.guilds[id], p, None)) = Members(t.guilds[id]) \ {p}
    BY <2>1, <2>2, RerankedMembers
  <2>4. QED
    BY <1>3, <2>1, <2>3
<1>4. QED
  BY <1>2, <1>3

\* What is left of a guild.
Remains(g, h, p) ==
    /\ h # None /\ g.name = h.name /\ g.master = h.master /\ g.power = h.power
    /\ Members(g) = Members(h) \ {p}

LEMMA PurgedRemains ==
    ASSUME NEW t \in Image, NEW p \in Players, NEW id \in Ids, Purged(t, p).guilds[id] # None
    PROVE  Remains(Purged(t, p).guilds[id], t.guilds[id], p)
<1>1. t.guilds[id] # None /\ Purged(t, p).guilds[id] = Reranked(t.guilds[id], p, None)
  BY PurgedIs
<1>2. t.guilds[id] \in Guild /\ None \in Ranks \cup {None}
  BY <1>1 DEF Image
<1>3. LET h == Reranked(t.guilds[id], p, None) IN
      /\ h.name = t.guilds[id].name
      /\ h.master = t.guilds[id].master /\ h.power = t.guilds[id].power
      /\ Members(h) = Members(t.guilds[id]) \ {p}
  BY <1>2, RerankedMembers
<1>4. QED
  BY <1>1, <1>3 DEF Remains

LEMMA PurgedProper ==
    ASSUME NEW t \in Image, NEW p \in Players, NEW ex, NEW n, Proper(t, ex, n)
    PROVE  Proper(Purged(t, p), ex \ {p}, n)
<1> DEFINE u == Purged(t, p)
<1>1. u \in Image /\ u.wars = t.wars
  BY PurgedIs
<1>2. ASSUME NEW id \in Ids, u.guilds[id] # None
      PROVE  /\ t.guilds[id] # None /\ u.guilds[id].name = t.guilds[id].name
             /\ u.guilds[id].master = t.guilds[id].master /\ u.guilds[id].power = t.guilds[id].power
             /\ Members(u.guilds[id]) = Members(t.guilds[id]) \ {p}
  <2>1. Remains(u.guilds[id], t.guilds[id], p)
    BY <1>2, PurgedRemains
  <2>2. QED
    BY <2>1 DEF Remains
<1> HIDE DEF u
<1>3. t.guilds \in Collection /\ u.guilds \in Collection
  BY <1>1 DEF Image, Collection
<1>4. Within(u.guilds, t.guilds)
  BY <1>2 DEF Within
<1>5. Sane(u.guilds)
  BY <1>3, <1>4, WithinSane DEF Proper
<1>6. Below(u.guilds, n)
  BY <1>2 DEF Proper, Below
<1>7. Led(u.guilds, ex \ {p})
  BY <1>2 DEF Proper, Led
<1>8. Present(u.guilds, ex \ {p})
  BY <1>2, NoMembers DEF Proper, Present
<1>9. QED
  BY <1>1, <1>5, <1>6, <1>7, <1>8 DEF Proper, u

LEMMA PurgedLocked ==
    ASSUME NEW t \in Image, NEW v \in Image, NEW p \in Players, NEW ex \in SUBSET Players, Locked(t, v, ex)
    PROVE  Locked(Purged(t, p), Purged(v, p), ex \ {p})
<1>1. ASSUME NEW id \in Ids, NEW q \in ex \ {p},
             q \in Members(Purged(t, p).guilds[id]), q \notin Members(Purged(v, p).guilds[id])
      PROVE  q \in Purged(v, p).cooling
  <2>1. Members(Purged(t, p).guilds[id]) = IF id \in Refused(p) THEN {} ELSE Members(t.guilds[id]) \ {p}
    BY PurgedMembers
  <2>2. Members(Purged(v, p).guilds[id]) = IF id \in Refused(p) THEN {} ELSE Members(v.guilds[id]) \ {p}
    BY PurgedMembers
  <2>3. id \notin Refused(p) /\ q \in Members(t.guilds[id])
    BY <1>1, <2>1
  <2>4. q \notin Members(v.guilds[id])
    BY <1>1, <2>2, <2>3
  <2>5. q \in v.cooling
    BY <1>1, <2>3, <2>4 DEF Locked
  <2>6. QED
    BY <1>1, <2>5, PurgedIs
<1>2. QED
  BY <1>1 DEF Locked

LEMMA PurgedAgrees ==
    ASSUME NEW t \in Image, NEW gs \in Collection, NEW p \in Players, NEW ex \in SUBSET Players,
           Agrees(t, gs, ex)
    PROVE  Agrees(Purged(t, p), gs, ex \ {p})
<1>1. ASSUME NEW id \in Ids, Purged(t, p).guilds[id] # None
      PROVE  gs[id] # None /\ Purged(t, p).guilds[id] = Visible(gs[id], ex \ {p})
  <2> DEFINE g == gs[id]
             h == Visible(g, ex)
             a == Reranked(h, p, None)
             b == Visible(g, ex \ {p})
  <2>1. t.guilds[id] # None /\ Purged(t, p).guilds[id] = Reranked(t.guilds[id], p, None)
    BY <1>1, PurgedIs
  <2>2. g # None /\ g \in Guild /\ t.guilds[id] = h
    BY <2>1 DEF Agrees, Collection
  <2>3. /\ h \in Guild /\ h.rank = [q \in Players |-> IF q \in ex THEN g.rank[q] ELSE None]
        /\ h.name = g.name /\ h.master = g.master /\ h.power = g.power
        /\ h.win = g.win /\ h.lose = g.lose
    BY <2>2, VisibleIs
  <2>4. ex \ {p} \in SUBSET Players
    OBVIOUS
  <2>5. /\ b \in Guild /\ b.rank = [q \in Players |-> IF q \in ex \ {p} THEN g.rank[q] ELSE None]
        /\ b.name = g.name /\ b.master = g.master /\ b.power = g.power
        /\ b.win = g.win /\ b.lose = g.lose
    BY <2>2, <2>4, VisibleIs
  <2> HIDE DEF g, h, b
  <2>6. /\ a \in Guild /\ a.rank = [h.rank EXCEPT ![p] = None]
        /\ a.name = h.name /\ a.master = h.master /\ a.power = h.power
        /\ a.win = h.win /\ a.lose = h.lose
    BY <2>3, RerankedIs
  <2> HIDE DEF a
  <2>7. \A q \in Players : a.rank[q] = b.rank[q]
    BY <2>3, <2>5, <2>6
  <2>8. a = b
    BY <2>3, <2>5, <2>6, <2>7, SameGuild
  <2>9. QED
    BY <2>1, <2>2, <2>8 DEF a, b, g
<1>2. QED
  BY <1>1 DEF Agrees

LEMMA DeleteKeeps == ASSUME IInv, NEW p \in Players, DeleteCharacter(p) PROVE IInv'
<1> DEFINE ex == exists \ {p}
<1>1. /\ UNCHANGED <<online, connected, closing, joining, idGuild, rosters, pending, warfare>>
      /\ p \in exists /\ exists' = ex
      /\ disk' = [i \in DOMAIN disk |-> Purged(disk[i], p)]
  BY DEF DeleteCharacter
<1>2. /\ disk \in Seq(Image) /\ disk # << >> /\ exists \subseteq Players /\ guilds \in Collection
      /\ \A i \in DOMAIN disk : Proper(disk[i], exists, nextId)
      /\ \A i \in DOMAIN disk : i > 1 => Locked(disk[i - 1], disk[i], exists)
  BY DEF IInv, TypeOK, Durable, History, Collection
<1>3. /\ Len(disk) \in Nat \ {0} /\ DOMAIN disk = 1 .. Len(disk)
      /\ \A i \in 1 .. Len(disk) : disk[i] \in Image
  BY <1>2, LastOf, ElementOfSeq
<1>4. \A i \in 1 .. Len(disk) : Purged(disk[i], p) \in Image
  BY <1>3, PurgedIs
<1>5. /\ disk' \in Seq(Image) /\ Len(disk') = Len(disk) /\ disk' # << >>
      /\ DOMAIN disk' = 1 .. Len(disk)
      /\ \A i \in 1 .. Len(disk) : disk'[i] = Purged(disk[i], p)
  <2> HIDE DEF ex
  <2>1. disk' \in [1 .. Len(disk) -> Image]
    BY <1>1, <1>3, <1>4
  <2>2. disk' \in Seq(Image) /\ Len(disk') = Len(disk) /\ DOMAIN disk' = 1 .. Len(disk)
    BY <1>3, <2>1
  <2>3. QED
    BY <1>1, <1>3, <2>2
<1>6. \A i \in 1 .. Len(disk) : Proper(disk'[i], ex, nextId)
  BY <1>2, <1>3, <1>5, PurgedProper
<1>7. ASSUME NEW i \in 1 .. Len(disk), i > 1 PROVE Locked(disk'[i - 1], disk'[i], ex)
  <2>1. i - 1 \in 1 .. Len(disk)
    BY <1>3, <1>7
  <2>2. disk[i] \in Image /\ disk[i - 1] \in Image /\ Locked(disk[i - 1], disk[i], exists)
    BY <1>2, <1>3, <1>7, <2>1
  <2>3. Locked(Purged(disk[i - 1], p), Purged(disk[i], p), ex)
    BY <1>2, <2>2, PurgedLocked
  <2>4. QED
    BY <1>5, <2>1, <2>3
<1>8. History(disk', ex, nextId)
  BY <1>5, <1>6, <1>7 DEF History
<1>9. Tables \in Image /\ Tables' = Purged(Tables, p)
  BY <1>3, <1>5 DEF Tables
<1>10. Agrees(Tables', guilds, ex)
  <2>1. Agrees(Tables, guilds, exists)
    BY DEF IInv, Durable
  <2>2. Agrees(Purged(Tables, p), guilds, ex)
    BY <1>2, <1>9, <2>1, PurgedAgrees
  <2>3. QED
    BY <1>9, <2>2
<1>11. ex # Players /\ ex \subseteq Players
  BY <1>2
<1>12. UNCHANGED <<guilds, byName, nextId, cooling, wars, link>>
  BY <1>1 DEF rosters, warfare
<1> HIDE DEF ex
<1>13. Durable'
  BY <1>1, <1>8, <1>10, <1>11, <1>12 DEF Durable, Complete
<1>14. Led(guilds, ex)
  BY DEF IInv, Live, Led, ex
<1>15. Live'
  BY <1>1, <1>12, <1>14 DEF IInv, Live
<1>16. TypeOK'
  BY <1>1, <1>5, <1>11, <1>12 DEF IInv, TypeOK
<1>17. Own(online', joining', idGuild', guilds')
  BY <1>1, <1>12 DEF IInv
<1>18. QED
  BY <1>13, <1>15, <1>16, <1>17 DEF IInv

------------------------------------------------------------------------------
(* One guild of a sane collection replaced.                                  *)

\* Still with members of its own, its name, its master's mask and its master.
LEMMA GuildReplaced ==
    ASSUME NEW gs \in Collection, NEW id \in Ids, NEW h \in Guild, NEW ex, NEW n, NEW bn,
           gs[id] # None, Sane(gs), Below(gs, n), Led(gs, ex), Indexed(bn, gs),
           h.name = gs[id].name, h.power[GUD_MASTER] = Powers,
           Members(h) \subseteq Members(gs[id]), h.master \in Members(h) \/ h.master \notin ex
    PROVE  LET hs == [gs EXCEPT ![id] = h] IN
           /\ hs \in Collection /\ Sane(hs) /\ Below(hs, n) /\ Led(hs, ex) /\ Indexed(bn, hs)
<1> DEFINE hs == [gs EXCEPT ![id] = h]
<1>1. /\ hs \in Collection /\ hs[id] = h /\ h # None
      /\ \A x \in Ids : x # id => hs[x] = gs[x]
  BY MembersOf DEF Collection
<1> HIDE DEF hs
<1>2. gs[id].power[GUD_MASTER] = Powers
  BY DEF Sane, MasterMasks
<1>3. Within(hs, gs)
  BY <1>1, <1>2 DEF Within
<1>4. Sane(hs)
  BY <1>1, <1>3, WithinSane
<1>5. Below(hs, n)
  BY <1>1 DEF Below
<1>6. Led(hs, ex)
  BY <1>1 DEF Led
<1>7. Indexed(bn, hs)
  BY <1>1 DEF Indexed
<1>8. QED
  BY <1>1, <1>4, <1>5, <1>6, <1>7 DEF hs

\* A statement that leaves the tables agreeing with guilds that are sane.
LEMMA StatementKept ==
    ASSUME NEW d, NEW ex \in SUBSET Players, NEW n, History(d, ex, n),
           NEW z \in Image, NEW gs \in Collection, Agrees(z, gs, ex), Sane(gs), Below(gs, n), Led(gs, ex),
           Locked(Last(d), z, ex)
    PROVE  History(Append(d, z), ex, n) /\ Last(Append(d, z)) = z
<1>1. Proper(z, ex, n)
  BY AgreesProper
<1>2. QED
  BY <1>1, HistoryAppended

\* A statement on a guild's row follows the guild, and touches no member's row.
LEMMA RowPatchedAgrees ==
    ASSUME NEW t \in Image, NEW gs \in Collection, NEW ex \in SUBSET Players, NEW id \in Ids,
           NEW g \in Guild, gs[id] # None, g.rank = gs[id].rank, Agrees(t, gs, ex)
    PROVE  LET u == RowPatched(t, id, g) IN
           /\ u \in Image /\ u.cooling = t.cooling /\ u.wars = t.wars
           /\ Agrees(u, [gs EXCEPT ![id] = g], ex)
           /\ \A x \in Ids : /\ u.guilds[x] = None <=> t.guilds[x] = None
                             /\ Members(u.guilds[x]) = Members(t.guilds[x])
<1> DEFINE u == RowPatched(t, id, g)
           hs == [gs EXCEPT ![id] = g]
<1>1. /\ u \in Image /\ u.cooling = t.cooling /\ u.wars = t.wars
      /\ \A other \in Ids \ {id} : u.guilds[other] = t.guilds[other]
      /\ IF t.guilds[id] = None THEN u.guilds[id] = None
         ELSE /\ u.guilds[id] = [g EXCEPT !.rank = t.guilds[id].rank]
              /\ u.guilds[id] \in Guild
  BY RowPatchedIs
<1>2. hs[id] = g /\ g # None /\ \A x \in Ids : x # id => hs[x] = gs[x]
  BY MembersOf DEF Collection
<1> HIDE DEF u, hs
<1>3. ASSUME t.guilds[id] # None
      PROVE  /\ u.guilds[id] = Visible(g, ex) /\ u.guilds[id] # None
             /\ Members(u.guilds[id]) = Members(t.guilds[id])
  <2>1. t.guilds[id] = Visible(gs[id], ex) /\ gs[id] \in Guild
    BY <1>3 DEF Agrees, Collection
  <2>2. LET h == Visible(gs[id], ex) IN
        /\ h.rank = [p \in Players |-> IF p \in ex THEN gs[id].rank[p] ELSE None]
        /\ Members(h) = Members(gs[id]) \cap ex
    BY <2>1, VisibleIs
  <2>3. u.guilds[id] = Visible(g, ex)
    BY <1>1, <1>3, <2>1, <2>2 DEF Visible
  <2>4. Members(Visible(g, ex)) = Members(g) \cap ex /\ Members(g) = Members(gs[id])
    <3>1. Members(Visible(g, ex)) = Members(g) \cap ex
      BY VisibleIs
    <3>2. Members(g) = Members(gs[id])
      BY <2>1, MembersOf
    <3>3. QED
      BY <3>1, <3>2
  <2>5. u.guilds[id] # None
    BY <1>1, <1>3, MembersOf
  <2>6. QED
    BY <2>1, <2>2, <2>3, <2>4, <2>5
<1>4. Agrees(u, hs, ex)
  <2>1. ASSUME NEW x \in Ids, u.guilds[x] # None
        PROVE  hs[x] # None /\ u.guilds[x] = Visible(hs[x], ex)
    <3>1. CASE x = id
      BY <1>1, <1>2, <1>3, <2>1, <3>1
    <3>2. CASE x # id
      BY <1>1, <1>2, <2>1, <3>2 DEF Agrees
    <3>3. QED
      BY <3>1, <3>2
  <2>2. QED
    BY <2>1 DEF Agrees
<1>5. \A x \in Ids : /\ u.guilds[x] = None <=> t.guilds[x] = None
                     /\ Members(u.guilds[x]) = Members(t.guilds[x])
  BY <1>1, <1>3
<1>6. QED
  BY <1>1, <1>4, <1>5 DEF u, hs

\* A member's rank is set for all to see, unless that member is deleted.
LEMMA VisibleReranked ==
    ASSUME NEW g \in Guild, NEW ex \in SUBSET Players, NEW p \in Players, NEW lv \in Ranks \cup {None}
    PROVE  Visible(Reranked(g, p, lv), ex) =
               IF p \in ex THEN Reranked(Visible(g, ex), p, lv) ELSE Visible(g, ex)
<1> DEFINE b == Reranked(g, p, lv)
           h == Visible(g, ex)
           a == Reranked(h, p, lv)
           c == Visible(b, ex)
<1>1. /\ b \in Guild /\ b.rank = [g.rank EXCEPT ![p] = lv]
      /\ b.name = g.name /\ b.master = g.master /\ b.power = g.power
      /\ b.win = g.win /\ b.lose = g.lose
  BY RerankedIs
<1>2. /\ h \in Guild /\ h.rank = [q \in Players |-> IF q \in ex THEN g.rank[q] ELSE None]
      /\ h.name = g.name /\ h.master = g.master /\ h.power = g.power
      /\ h.win = g.win /\ h.lose = g.lose
  BY VisibleIs
<1> HIDE DEF b, h
<1>3. /\ c \in Guild /\ c.rank = [q \in Players |-> IF q \in ex THEN b.rank[q] ELSE None]
      /\ c.name = b.name /\ c.master = b.master /\ c.power = b.power
      /\ c.win = b.win /\ c.lose = b.lose
  BY <1>1, VisibleIs
<1>4. /\ a \in Guild /\ a.rank = [h.rank EXCEPT ![p] = lv]
      /\ a.name = h.name /\ a.master = h.master /\ a.power = h.power
      /\ a.win = h.win /\ a.lose = h.lose
  BY <1>2, RerankedIs
<1>5. g.rank \in [Players -> Ranks \cup {None}]
  BY DEF Guild
<1> HIDE DEF a, c
<1>6. CASE p \in ex
  <2>1. \A q \in Players : a.rank[q] = c.rank[q]
    BY <1>1, <1>2, <1>3, <1>4, <1>5, <1>6
  <2>2. a = c
    BY <1>1, <1>2, <1>3, <1>4, <2>1, SameGuild
  <2>3. QED
    BY <1>6, <2>2 DEF a, b, c, h
<1>7. CASE p \notin ex
  <2>1. \A q \in Players : h.rank[q] = c.rank[q]
    BY <1>1, <1>2, <1>3, <1>5, <1>7
  <2>2. h = c
    BY <1>1, <1>2, <1>3, <2>1, SameGuild
  <2>3. QED
    BY <1>7, <2>2 DEF b, c, h
<1>8. QED
  BY <1>6, <1>7

\* A statement on a member's row finds it in its guild.
LEMMA MemberPatchedAgrees ==
    ASSUME NEW t \in Image, NEW gs \in Collection, NEW ex \in SUBSET Players, NEW id \in Ids,
           NEW p \in Players, NEW lv \in Ranks \cup {None}, p \in Members(gs[id]),
           Exclusive(gs), Agrees(t, gs, ex)
    PROVE  LET u == MemberPatched(t, p, lv) IN
           /\ u \in Image /\ u.cooling = t.cooling /\ u.wars = t.wars
           /\ Agrees(u, [gs EXCEPT ![id] = Reranked(gs[id], p, lv)], ex)
           /\ \A x \in Ids : /\ u.guilds[x] = None <=> t.guilds[x] = None
                             /\ Members(t.guilds[x]) \ {p} \subseteq Members(u.guilds[x])
                             /\ lv # None => Members(u.guilds[x]) = Members(t.guilds[x])
<1> DEFINE u == MemberPatched(t, p, lv)
           g == gs[id]
           b == Reranked(g, p, lv)
           hs == [gs EXCEPT ![id] = b]
<1>1. /\ u \in Image /\ u.cooling = t.cooling /\ u.wars = t.wars
      /\ \A x \in Ids : u.guilds[x] = IF p \in Members(t.guilds[x])
                                      THEN Reranked(t.guilds[x], p, lv) ELSE t.guilds[x]
  BY MemberPatchedIs
<1>2. g \in Guild /\ \A x \in Ids : p \in Members(gs[x]) => x = id
  <2>1. g # None
    BY NoMembers
  <2>2. QED
    BY <2>1 DEF Exclusive, Collection
<1>3. /\ b \in Guild /\ b.rank = [g.rank EXCEPT ![p] = lv]
      /\ b.name = g.name /\ b.master = g.master /\ b.power = g.power
      /\ b.win = g.win /\ b.lose = g.lose
  BY <1>2, RerankedIs
<1>4. hs[id] = b /\ b # None /\ \A x \in Ids : x # id => hs[x] = gs[x]
  BY <1>3, MembersOf DEF Collection
<1> HIDE DEF u, hs, b
<1>5. ASSUME NEW x \in Ids, t.guilds[x] # None
      PROVE  /\ t.guilds[x] \in Guild /\ t.guilds[x] = Visible(gs[x], ex) /\ gs[x] \in Guild
             /\ Members(t.guilds[x]) = Members(gs[x]) \cap ex
             /\ p \in Members(t.guilds[x]) <=> x = id /\ p \in ex
  <2>1. gs[x] \in Guild /\ t.guilds[x] = Visible(gs[x], ex)
    BY <1>5 DEF Agrees, Collection
  <2>2. LET h == Visible(gs[x], ex) IN h \in Guild /\ Members(h) = Members(gs[x]) \cap ex
    BY <2>1, VisibleIs
  <2>3. QED
    BY <1>2, <2>1, <2>2
<1>6. ASSUME t.guilds[id] # None
      PROVE  u.guilds[id] = Visible(b, ex) /\ u.guilds[id] # None
  <2>1. t.guilds[id] = Visible(g, ex) /\ (p \in Members(t.guilds[id]) <=> p \in ex)
    BY <1>5, <1>6
  <2>2. u.guilds[id] = IF p \in ex THEN Reranked(Visible(g, ex), p, lv) ELSE Visible(g, ex)
    BY <1>1, <2>1
  <2>3. u.guilds[id] = Visible(b, ex)
    BY <1>2, <2>2, VisibleReranked DEF b
  <2>4. Visible(b, ex) \in Guild
    BY <1>3, VisibleIs
  <2>5. QED
    BY <2>3, <2>4, MembersOf
<1>7. ASSUME NEW x \in Ids, x # id PROVE u.guilds[x] = t.guilds[x]
  BY <1>1, <1>5, <1>7, NoMembers
<1>8. t.guilds[id] = None => u.guilds[id] = None
  BY <1>1, NoMembers
<1>9. Agrees(u, hs, ex)
  <2>1. ASSUME NEW x \in Ids, u.guilds[x] # None
        PROVE  hs[x] # None /\ u.guilds[x] = Visible(hs[x], ex)
    <3>1. CASE x = id
      BY <1>4, <1>6, <1>8, <2>1, <3>1
    <3>2. CASE x # id
      BY <1>4, <1>7, <2>1, <3>2 DEF Agrees
    <3>3. QED
      BY <3>1, <3>2
  <2>2. QED
    BY <2>1 DEF Agrees
<1>10. ASSUME NEW x \in Ids
       PROVE  /\ u.guilds[x] = None <=> t.guilds[x] = None
              /\ Members(t.guilds[x]) \ {p} \subseteq Members(u.guilds[x])
              /\ lv # None => Members(u.guilds[x]) = Members(t.guilds[x])
  <2>1. CASE p \notin Members(t.guilds[x])
    BY <1>1, <2>1
  <2>2. CASE p \in Members(t.guilds[x])
    <3>1. t.guilds[x] \in Guild
      BY <1>5, <2>2, NoMembers
    <3>2. LET h == Reranked(t.guilds[x], p, lv) IN
          /\ h # None
          /\ lv = None => Members(h) = Members(t.guilds[x]) \ {p}
          /\ lv # None => Members(h) = Members(t.guilds[x]) \cup {p}
      BY <3>1, RerankedMembers
    <3>3. QED
      BY <1>1, <2>2, <3>1, <3>2, MembersOf
  <2>3. QED
    BY <2>1, <2>2
<1>11. QED
  BY <1>1, <1>9, <1>10 DEF u, hs, b

------------------------------------------------------------------------------
(* The handlers on rosters and guilds.                                       *)

\* What such a handler has to show; those of the wars change link and wars as well.
LEMMA HandlerSettled ==
    ASSUME IInv, UNCHANGED <<session, nextId>>,
           link' \in [Ids -> 0 .. MaxWars], wars' \in [WarIds -> War \cup {None}],
           pending' \in [Players -> Invitation \cup {None}],
           guilds' \in Collection, byName' \in [Names -> Ids \cup {None}],
           cooling' \subseteq Players, idGuild' \in [Players -> Ids \cup {None}],
           Sane(guilds'), Below(guilds', nextId), Led(guilds', exists), Indexed(byName', guilds'),
           History(disk', exists, nextId), Agrees(Last(disk'), guilds', exists),
           Complete(Last(disk'), guilds', exists, cooling'),
           Own(online, joining, idGuild', guilds')
    PROVE  IInv'
<1>1. /\ online' = online /\ connected' = connected /\ closing' = closing
      /\ joining' = joining /\ exists' = exists /\ nextId' = nextId
  BY DEF session
<1>2. TypeOK'
  BY <1>1 DEF IInv, TypeOK, Collection, History
<1>3. Live'
  BY <1>1 DEF IInv, Live
<1>4. Durable'
  BY <1>1 DEF Durable, Tables, Last
<1>5. Own(online', joining', idGuild', guilds')
  BY <1>1
<1>6. QED
  BY <1>2, <1>3, <1>4, <1>5 DEF IInv

LEMMA HandlerKept ==
    ASSUME IInv, UNCHANGED <<session, nextId, warfare>>,
           pending' \in [Players -> Invitation \cup {None}],
           guilds' \in Collection, byName' \in [Names -> Ids \cup {None}],
           cooling' \subseteq Players, idGuild' \in [Players -> Ids \cup {None}],
           Sane(guilds'), Below(guilds', nextId), Led(guilds', exists), Indexed(byName', guilds'),
           History(disk', exists, nextId), Agrees(Last(disk'), guilds', exists),
           Complete(Last(disk'), guilds', exists, cooling'),
           Own(online, joining, idGuild', guilds')
    PROVE  IInv'
<1>1. /\ link' \in [Ids -> 0 .. MaxWars] /\ wars' \in [WarIds -> War \cup {None}]
      /\ UNCHANGED <<session, nextId>>
  BY DEF IInv, TypeOK, warfare
<1>2. QED
  BY <1>1, HandlerSettled

LEMMA InvariantIs == ASSUME IInv
    PROVE  /\ exists \in SUBSET Players /\ online \subseteq Players /\ cooling \subseteq Players
           /\ guilds \in Collection /\ byName \in [Names -> Ids \cup {None}]
           /\ pending \in [Players -> Invitation \cup {None}]
           /\ idGuild \in [Players -> Ids \cup {None}]
           /\ link \in [Ids -> 0 .. MaxWars] /\ wars \in [WarIds -> War \cup {None}]
           /\ disk \in Seq(Image) /\ disk # << >> /\ Last(disk) \in Image /\ Last(disk) = Tables
           /\ Sane(guilds) /\ Below(guilds, nextId) /\ Led(guilds, exists) /\ Indexed(byName, guilds)
           /\ History(disk, exists, nextId)
           /\ Agrees(Tables, guilds, exists) /\ Complete(Tables, guilds, exists, cooling)
           /\ Own(online, joining, idGuild, guilds)
<1>1. disk \in Seq(Image) /\ disk # << >>
  BY DEF IInv, TypeOK
<1>2. Last(disk) \in Image /\ Len(disk) \in DOMAIN disk
  BY <1>1, LastOf
<1>3. QED
  BY <1>1, <1>2 DEF IInv, TypeOK, Live, Durable, Collection, Tables, Last

LEMMA OwnKept ==
    ASSUME NEW on, NEW jo, NEW ig, NEW gs, NEW hs, Own(on, jo, ig, gs),
           \A x \in Ids : Members(hs[x]) = Members(gs[x])
    PROVE  Own(on, jo, ig, hs)
BY DEF Own

\* The statements a handler issues, after the tables have come to d's last image.
Good(gs, ex, n) == gs \in Collection /\ Sane(gs) /\ Below(gs, n) /\ Led(gs, ex)
RankStep(gs, hs, id, p, lv) ==
    /\ gs \in Collection /\ id \in Ids /\ p \in Players /\ lv \in Ranks \cup {None}
    /\ p \in Members(gs[id]) /\ Exclusive(gs)
    /\ hs = [gs EXCEPT ![id] = Reranked(gs[id], p, lv)]
RowStep(gs, hs, id, g) ==
    /\ gs \in Collection /\ id \in Ids /\ g \in Guild
    /\ gs[id] # None /\ g.rank = gs[id].rank
    /\ hs = [gs EXCEPT ![id] = g]

Issued(d, u, hs, ex, n) ==
    /\ u \in Image /\ u.cooling = Last(d).cooling
    /\ History(Append(d, u), ex, n) /\ Last(Append(d, u)) = u /\ Agrees(u, hs, ex)
    /\ \A x \in Ids : u.guilds[x] = None <=> Last(d).guilds[x] = None

LEMMA MemberStatement ==
    ASSUME NEW d, NEW ex, NEW n, NEW gs, NEW hs, NEW id, NEW p, NEW lv,
           ex \in SUBSET Players, History(d, ex, n), Agrees(Last(d), gs, ex),
           RankStep(gs, hs, id, p, lv), Good(hs, ex, n),
           lv # None \/ p \notin ex \/ p \in Last(d).cooling
    PROVE  Issued(d, MemberPatched(Last(d), p, lv), hs, ex, n)
<1> DEFINE t == Last(d)
           u == MemberPatched(t, p, lv)
<1>1. t \in Image
  <2>1. d \in Seq(Image) /\ d # << >>
    BY DEF History
  <2>2. QED
    BY <2>1, LastOf
<1> HIDE DEF t
<1>2. /\ u \in Image /\ u.cooling = t.cooling /\ u.wars = t.wars
      /\ Agrees(u, [gs EXCEPT ![id] = Reranked(gs[id], p, lv)], ex)
      /\ \A x \in Ids : /\ u.guilds[x] = None <=> t.guilds[x] = None
                        /\ Members(t.guilds[x]) \ {p} \subseteq Members(u.guilds[x])
                        /\ lv # None => Members(u.guilds[x]) = Members(t.guilds[x])
  <2>1. Agrees(t, gs, ex)
    BY DEF t
  <2>2. t \in Image /\ ex \in SUBSET Players /\ p \in Members(gs[id]) /\ Exclusive(gs)
    BY <1>1 DEF RankStep
  <2>3. id \in Ids /\ p \in Players /\ lv \in Ranks \cup {None} /\ gs \in Collection
    BY DEF RankStep
  <2>4. QED
    BY ONLY <2>1, <2>2, <2>3, MemberPatchedAgrees
<1> HIDE DEF u
<1>3. Locked(t, u, ex)
  BY <1>2 DEF Locked, t
<1>4. Agrees(u, hs, ex)
  BY <1>1, <1>2 DEF RankStep
<1>5. History(Append(d, u), ex, n) /\ Last(Append(d, u)) = u
  BY <1>2, <1>3, <1>4, StatementKept DEF t, Good
<1>6. QED
  BY <1>2, <1>4, <1>5 DEF t, u, Issued

LEMMA RowStatement ==
    ASSUME NEW d, NEW ex, NEW n, NEW gs, NEW hs, NEW id, NEW g,
           ex \in SUBSET Players, History(d, ex, n), Agrees(Last(d), gs, ex),
           RowStep(gs, hs, id, g), Good(hs, ex, n)
    PROVE  Issued(d, RowPatched(Last(d), id, g), hs, ex, n)
<1> DEFINE t == Last(d)
           u == RowPatched(t, id, g)
<1>1. t \in Image
  <2>1. d \in Seq(Image) /\ d # << >>
    BY DEF History
  <2>2. QED
    BY <2>1, LastOf
<1> HIDE DEF t
<1>2. /\ u \in Image /\ u.cooling = t.cooling /\ u.wars = t.wars
      /\ Agrees(u, [gs EXCEPT ![id] = g], ex)
      /\ \A x \in Ids : /\ u.guilds[x] = None <=> t.guilds[x] = None
                        /\ Members(u.guilds[x]) = Members(t.guilds[x])
  <2>1. Agrees(t, gs, ex)
    BY DEF t
  <2>2. /\ gs[id] # None /\ g.rank = gs[id].rank /\ ex \in SUBSET Players /\ t \in Image
        /\ id \in Ids /\ g \in Guild /\ gs \in Collection
    BY <1>1 DEF RowStep
  <2>3. QED
    BY ONLY <2>1, <2>2, RowPatchedAgrees
<1> HIDE DEF u
<1>3. Locked(t, u, ex)
  BY <1>2 DEF Locked, t
<1>4. Agrees(u, hs, ex)
  BY <1>1, <1>2 DEF RowStep
<1>5. History(Append(d, u), ex, n) /\ Last(Append(d, u)) = u
  BY <1>2, <1>3, <1>4, StatementKept DEF t, Good
<1>6. QED
  BY <1>2, <1>4, <1>5 DEF t, u, Issued

LEMMA LockStatement ==
    ASSUME IInv, NEW S \in SUBSET Players
    PROVE  LET u == LockedOut(Tables, S) IN
           /\ u \in Image /\ u.cooling = Tables.cooling \cup (S \cap exists) /\ u.guilds = Tables.guilds
           /\ History(Append(disk, u), exists, nextId) /\ Last(Append(disk, u)) = u
           /\ Agrees(u, guilds, exists)
<1> DEFINE u == LockedOut(Tables, S)
<1>1. /\ u \in Image /\ u.guilds = Tables.guilds /\ u.wars = Tables.wars
      /\ u.cooling = Tables.cooling \cup (S \cap exists)
  <2>1. Tables \in Image /\ exists \subseteq Players
    BY InvariantIs
  <2>2. QED
    BY <2>1, LockedOutIs
<1> HIDE DEF u
<1>2. Agrees(u, guilds, exists) /\ Locked(Last(disk), u, exists)
  BY <1>1, InvariantIs DEF Agrees, Locked
<1>3. History(Append(disk, u), exists, nextId) /\ Last(Append(disk, u)) = u
  <2>1. /\ exists \in SUBSET Players /\ History(disk, exists, nextId) /\ guilds \in Collection
        /\ Sane(guilds) /\ Below(guilds, nextId) /\ Led(guilds, exists)
    BY InvariantIs
  <2>2. QED
    BY <1>1, <1>2, <2>1, StatementKept
<1>4. QED
  BY <1>1, <1>2, <1>3 DEF u

LEMMA SetMemberLevelKeeps ==
    ASSUME IInv, NEW p \in Players, NEW t \in Players, NEW id \in Ids, NEW lv \in Ranks,
           SetMemberLevel(p, id, t, lv)
    PROVE  IInv'
<1> DEFINE h == Reranked(guilds[id], t, lv)
           u == MemberPatched(Tables, t, lv)
<1>1. /\ guilds[id] \in Guild /\ t \in Members(guilds[id]) /\ lv # None
      /\ UNCHANGED <<session, idGuild, byName, nextId, cooling, pending, warfare>>
      /\ guilds' = [guilds EXCEPT ![id].rank[t] = lv] /\ disk' = disk \o <<u>>
  BY MayActIs, RanksAreNumbers DEF SetMemberLevel, Issue
<1>2. guilds' = [guilds EXCEPT ![id] = h]
  BY <1>1, MembersOf DEF Reranked
<1>3. /\ h \in Guild /\ h.name = guilds[id].name /\ h.master = guilds[id].master
      /\ h.power = guilds[id].power /\ Members(h) = Members(guilds[id])
  <2>1. lv \in Ranks \cup {None}
    OBVIOUS
  <2>2. /\ h \in Guild /\ h.name = guilds[id].name /\ h.master = guilds[id].master
        /\ h.power = guilds[id].power /\ Members(h) = Members(guilds[id]) \cup {t}
    BY <1>1, <2>1, RerankedMembers
  <2>3. QED
    BY <1>1, <2>2
<1> HIDE DEF h, u
<1>4. guilds[id] # None /\ h.power[GUD_MASTER] = Powers /\ (h.master \in Members(h) \/ h.master \notin exists)
  BY <1>1, <1>3, MembersOf, InvariantIs DEF Sane, MasterMasks, Led
<1>5. guilds' \in Collection /\ Sane(guilds') /\ Below(guilds', nextId) /\ Led(guilds', exists)
      /\ Indexed(byName, guilds')
  BY <1>2, <1>3, <1>4, InvariantIs, GuildReplaced
<1>6. \A x \in Ids : Members(guilds'[x]) = Members(guilds[x])
  BY <1>2, <1>3, InvariantIs DEF Collection
<1>7. /\ u \in Image /\ u.cooling = Tables.cooling /\ u.wars = Tables.wars
      /\ Agrees(u, guilds', exists)
      /\ \A x \in Ids : /\ u.guilds[x] = None <=> Tables.guilds[x] = None
                        /\ Members(u.guilds[x]) = Members(Tables.guilds[x])
  <2>1. /\ Tables \in Image /\ guilds \in Collection /\ exists \in SUBSET Players
        /\ Exclusive(guilds) /\ Agrees(Tables, guilds, exists) /\ lv \in Ranks \cup {None}
    BY InvariantIs DEF Sane
  <2>2. /\ u \in Image /\ u.cooling = Tables.cooling /\ u.wars = Tables.wars
        /\ Agrees(u, [guilds EXCEPT ![id] = h], exists)
        /\ \A x \in Ids : /\ u.guilds[x] = None <=> Tables.guilds[x] = None
                          /\ Members(Tables.guilds[x]) \ {t} \subseteq Members(u.guilds[x])
                          /\ lv # None => Members(u.guilds[x]) = Members(Tables.guilds[x])
    <3>1. t \in Members(guilds[id])
      BY <1>1
    <3>2. QED
      BY <2>1, <3>1, MemberPatchedAgrees DEF u, h
  <2>3. QED
    BY <1>1, <1>2, <2>2
<1>8. disk' = Append(disk, u)
  BY <1>1, <1>7, InvariantIs, Statements
<1>9. Locked(Last(disk), u, exists)
  BY <1>7, InvariantIs DEF Locked
<1>10. History(disk', exists, nextId) /\ Last(disk') = u
  BY <1>5, <1>7, <1>8, <1>9, InvariantIs, StatementKept
<1>11. Complete(u, guilds', exists, cooling)
  <2>1. Complete(Tables, guilds, exists, cooling) /\ \A x \in Ids : x # id => guilds'[x] = guilds[x]
    BY <1>2, InvariantIs DEF Collection
  <2>2. QED
    BY <1>4, <1>7, <2>1 DEF Complete
<1>12. Own(online, joining, idGuild, guilds')
  BY <1>6, InvariantIs, OwnKept
<1>13. QED
  BY <1>1, <1>5, <1>7, <1>10, <1>11, <1>12, InvariantIs, HandlerKept

LEMMA SetAuthorityKeeps ==
    ASSUME IInv, NEW p \in Players, NEW id \in Ids, NEW mask \in Masks, SetAuthority(p, id, mask)
    PROVE  IInv'
<1> DEFINE h == [guilds[id] EXCEPT !.power = Authority(mask)]
           u == RowPatched(Tables, id, h)
<1>1. /\ guilds[id] \in Guild
      /\ UNCHANGED <<session, idGuild, byName, nextId, cooling, pending, warfare>>
      /\ guilds' = [guilds EXCEPT ![id].power = Authority(mask)] /\ disk' = disk \o <<u>>
  BY MayActIs DEF SetAuthority, Issue
<1>2. guilds' = [guilds EXCEPT ![id] = h]
  BY <1>1
<1>3. Authority(mask) \in [Ranks -> SUBSET Powers] /\ Authority(mask)[GUD_MASTER] = Powers
  BY GuildAssumption, RanksAreNumbers DEF Authority
<1>4. /\ h \in Guild /\ h.name = guilds[id].name /\ h.master = guilds[id].master
      /\ h.power = Authority(mask) /\ h.rank = guilds[id].rank
  BY <1>1, <1>3 DEF Guild
<1>5. Members(h) = Members(guilds[id])
  BY <1>1, <1>4, MembersOf
<1> HIDE DEF h, u
<1>6. guilds[id] # None /\ h.power[GUD_MASTER] = Powers /\ (h.master \in Members(h) \/ h.master \notin exists)
  BY <1>1, <1>3, <1>4, <1>5, MembersOf, InvariantIs DEF Led
<1>7. guilds' \in Collection /\ Sane(guilds') /\ Below(guilds', nextId) /\ Led(guilds', exists)
      /\ Indexed(byName, guilds')
  <2>1. /\ guilds \in Collection /\ Sane(guilds) /\ Below(guilds, nextId) /\ Led(guilds, exists)
        /\ Indexed(byName, guilds)
    BY InvariantIs
  <2>2. Members(h) \subseteq Members(guilds[id])
    BY <1>5
  <2>3. QED
    BY <1>2, <1>4, <1>6, <2>1, <2>2, GuildReplaced
<1>8. \A x \in Ids : Members(guilds'[x]) = Members(guilds[x])
  BY <1>1, <1>2, <1>5, InvariantIs DEF Collection
<1>9. /\ u \in Image /\ u.cooling = Tables.cooling /\ u.wars = Tables.wars
      /\ Agrees(u, guilds', exists)
      /\ \A x \in Ids : /\ u.guilds[x] = None <=> Tables.guilds[x] = None
                        /\ Members(u.guilds[x]) = Members(Tables.guilds[x])
  <2>1. /\ Tables \in Image /\ guilds \in Collection /\ exists \in SUBSET Players
        /\ Agrees(Tables, guilds, exists)
    BY InvariantIs
  <2>2. /\ u \in Image /\ u.cooling = Tables.cooling /\ u.wars = Tables.wars
        /\ Agrees(u, [guilds EXCEPT ![id] = h], exists)
        /\ \A x \in Ids : /\ u.guilds[x] = None <=> Tables.guilds[x] = None
                          /\ Members(u.guilds[x]) = Members(Tables.guilds[x])
    BY <1>4, <1>6, <2>1, RowPatchedAgrees DEF u
  <2>3. QED
    BY <1>2, <2>2
<1>10. disk' = Append(disk, u)
  BY <1>1, <1>9, InvariantIs, Statements
<1>11. Locked(Last(disk), u, exists)
  BY <1>9, InvariantIs DEF Locked
<1>12. History(disk', exists, nextId) /\ Last(disk') = u
  BY <1>7, <1>9, <1>10, <1>11, InvariantIs, StatementKept
<1>13. Complete(u, guilds', exists, cooling)
  <2>1. Complete(Tables, guilds, exists, cooling) /\ \A x \in Ids : x # id => guilds'[x] = guilds[x]
    BY <1>2, InvariantIs DEF Collection
  <2>2. QED
    BY <1>6, <1>9, <2>1 DEF Complete
<1>14. Own(online, joining, idGuild, guilds')
  BY <1>8, InvariantIs, OwnKept
<1>15. QED
  BY <1>1, <1>7, <1>9, <1>12, <1>13, <1>14, InvariantIs, HandlerKept

LEMMA LeaveOrKickKeeps ==
    ASSUME IInv, NEW p \in Players, NEW t \in Players, NEW id \in Ids, LeaveOrKick(p, id, t)
    PROVE  IInv'
<1> DEFINE h == Reranked(guilds[id], t, None)
           a == LockedOut(Tables, {t})
           d == Append(disk, a)
           u == MemberPatched(a, t, None)
<1>1. /\ guilds[id] \in Guild /\ t \in Members(guilds[id]) /\ t # guilds[id].master
      /\ UNCHANGED <<session, byName, nextId, pending, warfare>>
      /\ guilds' = [guilds EXCEPT ![id].rank[t] = None] /\ disk' = disk \o <<a, u>>
      /\ cooling' = cooling \cup {t} /\ idGuild' = Cleared(p, {t})
  BY MayActIs DEF LeaveOrKick, Issue, MayRemove, IsMaster, RemovedRows, MemberRemoved
<1>2. guilds' = [guilds EXCEPT ![id] = h]
  BY <1>1, MembersOf DEF Reranked
<1>3. /\ h \in Guild /\ h.name = guilds[id].name /\ h.master = guilds[id].master
      /\ h.power = guilds[id].power /\ Members(h) = Members(guilds[id]) \ {t}
  <2>1. None \in Ranks \cup {None}
    OBVIOUS
  <2>2. QED
    BY <1>1, <2>1, RerankedMembers
<1>4. /\ a \in Image /\ a.cooling = Tables.cooling \cup ({t} \cap exists) /\ a.guilds = Tables.guilds
      /\ History(d, exists, nextId) /\ Last(d) = a /\ Agrees(a, guilds, exists)
  BY LockStatement
<1> HIDE DEF h, a, d
<1>5. guilds[id] # None /\ h.power[GUD_MASTER] = Powers /\ (h.master \in Members(h) \/ h.master \notin exists)
  BY <1>1, <1>3, MembersOf, InvariantIs DEF Sane, MasterMasks, Led
<1>6. guilds' \in Collection /\ Sane(guilds') /\ Below(guilds', nextId) /\ Led(guilds', exists)
      /\ Indexed(byName, guilds')
  <2>1. /\ guilds \in Collection /\ Sane(guilds) /\ Below(guilds, nextId) /\ Led(guilds, exists)
        /\ Indexed(byName, guilds)
    BY InvariantIs
  <2>2. Members(h) \subseteq Members(guilds[id])
    BY <1>3
  <2>3. QED
    BY <1>2, <1>3, <1>5, <2>1, <2>2, GuildReplaced
<1>7. /\ u \in Image /\ u.cooling = a.cooling
      /\ History(Append(d, u), exists, nextId) /\ Last(Append(d, u)) = u /\ Agrees(u, guilds', exists)
      /\ \A x \in Ids : u.guilds[x] = None <=> a.guilds[x] = None
  <2>1. /\ exists \in SUBSET Players /\ guilds \in Collection /\ Exclusive(guilds)
        /\ None \in Ranks \cup {None} /\ t \in Members(guilds[id])
        /\ Agrees(Last(d), guilds, exists)
        /\ guilds' = [guilds EXCEPT ![id] = Reranked(guilds[id], t, None)]
    BY <1>1, <1>2, <1>4, InvariantIs DEF Sane, h
  <2>2. t \notin exists \/ t \in Last(d).cooling
    BY <1>4
  <2>3. QED
    <3>1. /\ exists \in SUBSET Players /\ History(d, exists, nextId)
          /\ Agrees(Last(d), guilds, exists) /\ RankStep(guilds, guilds', id, t, None)
          /\ Good(guilds', exists, nextId)
          /\ (t \notin exists \/ t \in Last(d).cooling)
      BY <1>4, <1>6, <2>1, <2>2 DEF Good, RankStep
    <3>2. Issued(d, MemberPatched(Last(d), t, None), guilds', exists, nextId)
      BY ONLY <3>1, MemberStatement
    <3>3. QED
      BY <1>4, <3>2 DEF Issued
<1> HIDE DEF u
<1>8. disk' = Append(d, u)
  BY <1>1, <1>4, <1>7, InvariantIs, Statements DEF d
<1>9. Complete(u, guilds', exists, cooling')
  <2>1. Complete(Tables, guilds, exists, cooling) /\ \A x \in Ids : x # id => guilds'[x] = guilds[x]
    BY <1>2, InvariantIs DEF Collection
  <2>2. QED
    BY <1>1, <1>4, <1>5, <1>7, <2>1 DEF Complete
<1>10. \A q \in Players, x \in Ids : q \in Members(guilds'[x]) <=> q \in Members(guilds[x]) /\ q # t
  <2>1. /\ guilds'[id] = h /\ \A x \in Ids : x # id => guilds'[x] = guilds[x]
        /\ \A x \in Ids : t \in Members(guilds[x]) => x = id
    BY <1>1, <1>2, InvariantIs DEF Collection, Sane, Exclusive
  <2>2. QED
    BY <1>3, <2>1
<1>11. /\ idGuild' \in [Players -> Ids \cup {None}]
       /\ \A q \in online : idGuild'[q] = IF q = t THEN None ELSE idGuild[q]
  BY <1>1, InvariantIs DEF Cleared
<1>12. Own(online, joining, idGuild', guilds')
  <2>1. Own(online, joining, idGuild, guilds) /\ online \subseteq Players
    BY InvariantIs
  <2>2. ASSUME NEW q \in online
        PROVE  \/ \E x \in Ids : q \in Members(guilds'[x]) /\ idGuild'[q] = x
               \/ idGuild'[q] = None /\ (q \in joining \/ \A x \in Ids : q \notin Members(guilds'[x]))
    <3>1. CASE q = t
      BY <1>10, <1>11, <2>1, <3>1
    <3>2. CASE q # t
      BY <1>10, <1>11, <2>1, <3>2 DEF Own
    <3>3. QED
      BY <3>1, <3>2
  <2>3. QED
    BY <2>2 DEF Own
<1>13. cooling' \subseteq Players /\ byName' = byName /\ pending' = pending
  BY <1>1, InvariantIs
<1>14. QED
  BY <1>1, <1>6, <1>7, <1>8, <1>9, <1>11, <1>12, <1>13, InvariantIs, HandlerKept

LEMMA ChangeMasterKeeps ==
    ASSUME IInv, NEW p \in Players, NEW t \in Players, NEW id \in Ids, ChangeMaster(p, id, t)
    PROVE  IInv'
<1> DEFINE g1 == [guilds[id] EXCEPT !.master = t]
           g2 == Reranked(g1, p, GUD_ROOKIE)
           g3 == Reranked(g2, t, GUD_MASTER)
           gs1 == [guilds EXCEPT ![id] = g1]
           gs2 == [guilds EXCEPT ![id] = g2]
           gs3 == [guilds EXCEPT ![id] = g3]
           t1 == RowPatched(Tables, id, g1)
           t2 == MemberPatched(t1, p, GUD_ROOKIE)
           t3 == MemberPatched(t2, t, GUD_MASTER)
           d1 == Append(disk, t1)
           d2 == Append(d1, t2)
           d3 == Append(d2, t3)
<1>1. /\ guilds[id] \in Guild /\ t \in Members(guilds[id]) /\ p \in Members(guilds[id]) /\ p # t
      /\ UNCHANGED <<session, idGuild, byName, nextId, cooling, pending, warfare>>
      /\ guilds' = [guilds EXCEPT ![id] = [g1 EXCEPT !.rank = HandedOver(g1.rank, p, t)]]
      /\ disk' = disk \o <<t1, t2, t3>>
  BY MayActIs DEF ChangeMaster, Issue
<1>2. /\ g1 \in Guild /\ g1.name = guilds[id].name /\ g1.master = t
      /\ g1.power = guilds[id].power /\ g1.rank = guilds[id].rank
  BY <1>1 DEF Guild
<1>3. Members(g1) = Members(guilds[id])
  BY <1>1, <1>2, MembersOf
<1>4. /\ GUD_ROOKIE \in Ranks \cup {None} /\ GUD_ROOKIE # None
      /\ GUD_MASTER \in Ranks \cup {None} /\ GUD_MASTER # None
  BY RanksAreNumbers
<1> HIDE DEF g1
<1>5. /\ g2 \in Guild /\ g2.name = g1.name /\ g2.master = g1.master
      /\ g2.power = g1.power /\ Members(g2) = Members(g1) \cup {p}
  BY <1>2, <1>4, RerankedMembers
<1> HIDE DEF g2
<1>6. /\ g3 \in Guild /\ g3.name = g2.name /\ g3.master = g2.master
      /\ g3.power = g2.power /\ Members(g3) = Members(g2) \cup {t}
  BY <1>4, <1>5, RerankedMembers
<1> HIDE DEF g3
<1>7. ASSUME NEW h \in {g1, g2, g3}
      PROVE  LET hs == [guilds EXCEPT ![id] = h] IN
             /\ hs \in Collection /\ Sane(hs) /\ Below(hs, nextId) /\ Led(hs, exists) /\ Indexed(byName, hs)
             /\ Members(h) = Members(guilds[id])
  <2>1. /\ guilds \in Collection /\ Sane(guilds) /\ Below(guilds, nextId) /\ Led(guilds, exists)
        /\ Indexed(byName, guilds)
    BY InvariantIs
  <2>2. guilds[id] # None /\ guilds[id].power[GUD_MASTER] = Powers
    BY <1>1, <2>1, MembersOf DEF Sane, MasterMasks
  <2>3. /\ h \in Guild /\ h.name = guilds[id].name /\ h.power = guilds[id].power /\ h.master = t
        /\ Members(h) = Members(guilds[id])
    BY <1>1, <1>2, <1>3, <1>5, <1>6, <1>7
  <2>4. Members(h) \subseteq Members(guilds[id]) /\ h.master \in Members(h) /\ h.power[GUD_MASTER] = Powers
    BY <1>1, <2>2, <2>3
  <2>5. QED
    BY <2>1, <2>2, <2>3, <2>4, GuildReplaced
<1>8. /\ gs1 \in Collection /\ Sane(gs1) /\ Below(gs1, nextId) /\ Led(gs1, exists)
      /\ gs2 \in Collection /\ Sane(gs2) /\ Below(gs2, nextId) /\ Led(gs2, exists)
      /\ gs3 \in Collection /\ Sane(gs3) /\ Below(gs3, nextId) /\ Led(gs3, exists) /\ Indexed(byName, gs3)
      /\ Members(g1) = Members(guilds[id]) /\ Members(g2) = Members(guilds[id])
      /\ Members(g3) = Members(guilds[id])
  BY <1>7
<1>9. /\ gs1[id] = g1 /\ gs2[id] = g2 /\ gs3[id] = g3
      /\ gs2 = [gs1 EXCEPT ![id] = g2] /\ gs3 = [gs2 EXCEPT ![id] = g3]
      /\ \A x \in Ids : x # id => gs3[x] = guilds[x]
  BY InvariantIs DEF Collection
<1> HIDE DEF gs1, gs2, gs3
<1>10. guilds' = gs3
  <2> DEFINE r == g1.rank
             k == [g1 EXCEPT !.rank = HandedOver(r, p, t)]
  <2>1. r \in [Players -> Ranks \cup {None}]
    BY <1>2 DEF Guild
  <2>2. HandedOver(r, p, t) \in [Players -> Ranks \cup {None}]
    BY <1>4, <2>1 DEF HandedOver
  <2>3. \A q \in Players : HandedOver(r, p, t)[q] =
            IF q = t THEN GUD_MASTER ELSE IF q = p THEN GUD_ROOKIE ELSE r[q]
    BY <1>1, <2>1 DEF HandedOver
  <2>4. /\ k \in Guild /\ k.rank = HandedOver(r, p, t)
        /\ k.name = g1.name /\ k.master = g1.master /\ k.power = g1.power
        /\ k.win = g1.win /\ k.lose = g1.lose
    BY <1>2, <2>2, RanksReplaced
  <2> HIDE DEF k
  <2>5. /\ g2.rank = [r EXCEPT ![p] = GUD_ROOKIE] /\ g2.win = g1.win /\ g2.lose = g1.lose
    BY <1>2, <1>4, RerankedIs DEF g2
  <2>6. /\ g3.rank = [g2.rank EXCEPT ![t] = GUD_MASTER] /\ g3.win = g2.win /\ g3.lose = g2.lose
    BY <1>4, <1>5, RerankedIs DEF g3
  <2> HIDE DEF r
  <2>7. \A q \in Players : g3.rank[q] = k.rank[q]
    BY <2>1, <2>3, <2>4, <2>5, <2>6
  <2>10. /\ g3.name = k.name /\ g3.master = k.master /\ g3.power = k.power
         /\ g3.win = k.win /\ g3.lose = k.lose
    BY <1>5, <1>6, <2>4, <2>5, <2>6
  <2>8. g3 = k
    BY ONLY <1>6, <2>4, <2>7, <2>10, SameGuild
  <2>9. QED
    BY <1>1, <2>8 DEF gs3, k, r
<1>11. /\ exists \in SUBSET Players /\ History(disk, exists, nextId) /\ guilds \in Collection
       /\ Agrees(Last(disk), guilds, exists) /\ Last(disk) = Tables
       /\ guilds[id] # None /\ Exclusive(gs1) /\ Exclusive(gs2)
  BY <1>1, <1>8, MembersOf, InvariantIs DEF Sane
<1>12. /\ t1 \in Image /\ t1.cooling = Tables.cooling
       /\ History(d1, exists, nextId) /\ Last(d1) = t1 /\ Agrees(t1, gs1, exists)
       /\ \A x \in Ids : t1.guilds[x] = None <=> Tables.guilds[x] = None
  <2>1. gs1 = [guilds EXCEPT ![id] = g1]
    BY DEF gs1
  <2>2. /\ exists \in SUBSET Players /\ History(disk, exists, nextId)
        /\ Agrees(Last(disk), guilds, exists) /\ RowStep(guilds, gs1, id, g1)
        /\ Good(gs1, exists, nextId)
    BY <1>2, <1>8, <1>11, <2>1 DEF Good, RowStep
  <2>3. Issued(disk, RowPatched(Last(disk), id, g1), gs1, exists, nextId)
    BY ONLY <2>2, RowStatement
  <2>4. QED
    BY <1>11, <2>3 DEF Issued
<1> HIDE DEF t1, d1
<1>13. /\ t2 \in Image /\ t2.cooling = t1.cooling
       /\ History(d2, exists, nextId) /\ Last(d2) = t2 /\ Agrees(t2, gs2, exists)
       /\ \A x \in Ids : t2.guilds[x] = None <=> t1.guilds[x] = None
  <2>1. gs2 = [gs1 EXCEPT ![id] = Reranked(gs1[id], p, GUD_ROOKIE)] /\ p \in Members(gs1[id])
    BY <1>1, <1>3, <1>9 DEF g2
  <2>2. QED
    <3>1. /\ exists \in SUBSET Players /\ History(d1, exists, nextId)
          /\ Agrees(Last(d1), gs1, exists) /\ RankStep(gs1, gs2, id, p, GUD_ROOKIE)
          /\ Good(gs2, exists, nextId) /\ GUD_ROOKIE # None
      BY <1>4, <1>8, <1>11, <1>12, <2>1 DEF Good, RankStep
    <3>2. Issued(d1, MemberPatched(Last(d1), p, GUD_ROOKIE), gs2, exists, nextId)
      BY ONLY <3>1, MemberStatement
    <3>3. QED
      BY <1>12, <3>2 DEF Issued
<1> HIDE DEF t2, d2
<1>14. /\ t3 \in Image /\ t3.cooling = t2.cooling
       /\ History(d3, exists, nextId) /\ Last(d3) = t3 /\ Agrees(t3, gs3, exists)
       /\ \A x \in Ids : t3.guilds[x] = None <=> t2.guilds[x] = None
  <2>1. gs3 = [gs2 EXCEPT ![id] = Reranked(gs2[id], t, GUD_MASTER)] /\ t \in Members(gs2[id])
    BY <1>1, <1>8, <1>9 DEF g3
  <2>2. QED
    <3>1. /\ exists \in SUBSET Players /\ History(d2, exists, nextId)
          /\ Agrees(Last(d2), gs2, exists) /\ RankStep(gs2, gs3, id, t, GUD_MASTER)
          /\ Good(gs3, exists, nextId) /\ GUD_MASTER # None
      BY <1>4, <1>8, <1>11, <1>13, <2>1 DEF Good, RankStep
    <3>2. Issued(d2, MemberPatched(Last(d2), t, GUD_MASTER), gs3, exists, nextId)
      BY ONLY <3>1, MemberStatement
    <3>3. QED
      BY <1>13, <3>2 DEF Issued
<1> HIDE DEF t3
<1>15. disk' = d3
  BY <1>1, <1>12, <1>13, <1>14, InvariantIs, Statements DEF d1, d2
<1> HIDE DEF d3
<1>16. Complete(t3, gs3, exists, cooling)
  <2>1. Complete(Tables, guilds, exists, cooling)
    BY InvariantIs
  <2>2. QED
    BY <1>9, <1>11, <1>12, <1>13, <1>14, <2>1 DEF Complete
<1>17. Own(online, joining, idGuild, gs3)
  <2>1. \A x \in Ids : Members(gs3[x]) = Members(guilds[x])
    BY <1>8, <1>9
  <2>2. QED
    BY <2>1, InvariantIs, OwnKept
<1>18. QED
  BY <1>1, <1>8, <1>10, <1>14, <1>15, <1>16, <1>17, InvariantIs, HandlerKept

LEMMA RenameKeeps ==
    ASSUME IInv, NEW p \in Players, NEW id \in Ids, NEW n \in Names, Rename(p, id, n)
    PROVE  IInv'
<1> DEFINE h == [guilds[id] EXCEPT !.name = n]
           u == RowPatched(Last(disk), id, h)
<1>1. /\ guilds[id] \in Guild /\ byName[n] \in {None, id} /\ byName' = Reindexed(id, n)
      /\ UNCHANGED <<session, idGuild, nextId, cooling, pending, warfare>>
      /\ guilds' = [guilds EXCEPT ![id].name = n] /\ disk' = disk \o <<u>>
  <2>1. Last(disk) = Tables
    BY InvariantIs
  <2>2. QED
    BY <2>1, MayActIs DEF Rename, Issue
<1>2. guilds' = [guilds EXCEPT ![id] = h]
  BY <1>1
<1>3. /\ h \in Guild /\ h.name = n /\ h.master = guilds[id].master
      /\ h.power = guilds[id].power /\ h.rank = guilds[id].rank
  BY <1>1 DEF Guild
<1>4. Members(h) = Members(guilds[id]) /\ h # None /\ guilds[id] # None
  BY <1>1, <1>3, MembersOf
<1> HIDE DEF h, u
<1>5. /\ guilds \in Collection /\ byName \in [Names -> Ids \cup {None}] /\ exists \in SUBSET Players
      /\ Sane(guilds) /\ Below(guilds, nextId) /\ Led(guilds, exists) /\ Indexed(byName, guilds)
      /\ History(disk, exists, nextId) /\ Agrees(Last(disk), guilds, exists)
  BY InvariantIs
<1>6. /\ guilds' \in Collection /\ guilds'[id] = h /\ \A x \in Ids : x # id => guilds'[x] = guilds[x]
      /\ \A x \in Ids : Members(guilds'[x]) = Members(guilds[x])
      /\ \A x \in Ids : guilds'[x] # None <=> guilds[x] # None
  BY <1>2, <1>3, <1>4, <1>5 DEF Collection
<1>7. \A x \in Ids : guilds[x] # None /\ guilds[x].name = n => x = id
  <2>1. ASSUME NEW x \in Ids, guilds[x] # None, guilds[x].name = n PROVE x = id
    <3>1. byName[n] = x
      BY <1>5, <2>1 DEF Indexed
    <3>2. x # None
      BY GuildAssumption DEF Ids
    <3>3. QED
      BY <1>1, <3>1, <3>2
  <2>2. QED
    BY <2>1
<1>8. Sane(guilds')
  <2>1. NamesApart(guilds')
    BY <1>3, <1>5, <1>6, <1>7 DEF Sane, NamesApart
  <2>2. Exclusive(guilds') /\ Fits(guilds')
    BY <1>5, <1>6 DEF Sane, Exclusive, Fits
  <2>3. MasterMasks(guilds')
    BY <1>3, <1>4, <1>5, <1>6 DEF Sane, MasterMasks
  <2>4. QED
    BY <2>1, <2>2, <2>3 DEF Sane
<1>9. Below(guilds', nextId) /\ Led(guilds', exists)
  BY <1>3, <1>4, <1>5, <1>6 DEF Below, Led
<1>10. /\ byName' \in [Names -> Ids \cup {None}]
       /\ \A m \in Names : byName'[m] = IF m = n THEN id ELSE IF m = guilds[id].name THEN None ELSE byName[m]
  BY <1>1, <1>5 DEF Reindexed, Guild
<1>11. Indexed(byName', guilds')
  <2>1. ASSUME NEW m \in Names, NEW x \in Ids
        PROVE  byName'[m] = x <=> guilds'[x] # None /\ guilds'[x].name = m
    <3>1. x # None /\ (byName[m] = x <=> guilds[x] # None /\ guilds[x].name = m)
          /\ (byName[m] = id <=> guilds[id].name = m)
      BY <1>4, <1>5, GuildAssumption DEF Indexed, Ids
    <3>2. CASE x = id
      BY <1>3, <1>4, <1>6, <1>10, <3>1, <3>2
    <3>3. CASE x # id
      BY <1>6, <1>7, <1>10, <3>1, <3>3
    <3>4. QED
      BY <3>2, <3>3
  <2>2. QED
    BY <2>1 DEF Indexed
<1>12. Issued(disk, u, guilds', exists, nextId)
  <2>1. RowStep(guilds, guilds', id, h) /\ Good(guilds', exists, nextId)
    BY <1>2, <1>3, <1>4, <1>5, <1>6, <1>8, <1>9 DEF RowStep, Good
  <2>2. Issued(disk, RowPatched(Last(disk), id, h), guilds', exists, nextId)
    BY ONLY <1>5, <2>1, RowStatement
  <2>3. QED
    BY <2>2 DEF u
<1>13. disk' = Append(disk, u) /\ Last(disk') = u /\ History(disk', exists, nextId)
       /\ Agrees(u, guilds', exists)
  BY <1>1, <1>12, InvariantIs, Statements DEF Issued
<1>14. Complete(u, guilds', exists, cooling)
  <2>1. Complete(Last(disk), guilds, exists, cooling)
    BY InvariantIs
  <2>2. QED
    BY <1>6, <1>12, <2>1 DEF Complete, Issued
<1>15. Own(online, joining, idGuild, guilds')
  BY <1>6, InvariantIs, OwnKept
<1>16. QED
  BY <1>1, <1>6, <1>8, <1>9, <1>10, <1>11, <1>13, <1>14, <1>15, InvariantIs, HandlerKept

LEMMA DestroyKeeps ==
    ASSUME IInv, NEW p \in Players, NEW id \in Ids, Destroy(p, id)
    PROVE  IInv'
<1> DEFINE S == Members(guilds[id])
           a == LockedOut(Tables, S)
           u == RowRemoved(a, id)
           d == Append(disk, a)
<1>1. /\ guilds[id] \in Guild
      /\ UNCHANGED <<session, nextId, pending, warfare>>
      /\ guilds' = [guilds EXCEPT ![id] = None] /\ byName' = [byName EXCEPT ![guilds[id].name] = None]
      /\ cooling' = cooling \cup S /\ idGuild' = Cleared(p, S) /\ disk' = disk \o <<a, u>>
  BY MayActIs DEF Destroy, Issue
<1>2. /\ guilds \in Collection /\ byName \in [Names -> Ids \cup {None}] /\ exists \in SUBSET Players
      /\ Sane(guilds) /\ Below(guilds, nextId) /\ Led(guilds, exists) /\ Indexed(byName, guilds)
      /\ S \in SUBSET Players /\ guilds[id] # None
  BY <1>1, InvariantIs, MembersOf DEF Members
<1>3. /\ guilds' \in Collection /\ guilds'[id] = None /\ \A x \in Ids : x # id => guilds'[x] = guilds[x]
  BY <1>1, <1>2 DEF Collection
<1>4. Sane(guilds')
  <2>1. Within(guilds', guilds)
    BY <1>3 DEF Within
  <2>2. QED
    BY <1>2, <1>3, <2>1, WithinSane
<1>5. Below(guilds', nextId) /\ Led(guilds', exists)
  BY <1>2, <1>3 DEF Below, Led
<1>6. byName' \in [Names -> Ids \cup {None}] /\ Indexed(byName', guilds')
  <2>1. /\ byName' \in [Names -> Ids \cup {None}]
        /\ \A m \in Names : byName'[m] = IF m = guilds[id].name THEN None ELSE byName[m]
    BY <1>1, <1>2 DEF Guild
  <2>2. ASSUME NEW m \in Names, NEW x \in Ids
        PROVE  byName'[m] = x <=> guilds'[x] # None /\ guilds'[x].name = m
    <3>1. x # None /\ (byName[m] = x <=> guilds[x] # None /\ guilds[x].name = m)
          /\ (byName[m] = id <=> guilds[id].name = m)
      BY <1>2, GuildAssumption DEF Indexed, Ids
    <3>2. QED
      BY <1>3, <2>1, <3>1
  <2>3. QED
    BY <2>1, <2>2 DEF Indexed
<1>7. /\ a \in Image /\ a.cooling = Tables.cooling \cup (S \cap exists) /\ a.guilds = Tables.guilds
      /\ History(d, exists, nextId) /\ Last(d) = a /\ Agrees(a, guilds, exists)
  BY <1>2, LockStatement
<1> HIDE DEF a, d
<1>8. u \in Image /\ u.cooling = a.cooling /\ u.wars = a.wars /\ u.guilds = [a.guilds EXCEPT ![id] = None]
  <2>1. None \in Guild \cup {None}
    OBVIOUS
  <2>2. QED
    BY <1>7, <2>1, RowReplaced DEF RowRemoved
<1> HIDE DEF u
<1>9. u.guilds[id] = None /\ \A x \in Ids : x # id => u.guilds[x] = a.guilds[x]
  BY <1>7, <1>8 DEF Image
<1>10. Agrees(u, guilds', exists)
  BY <1>3, <1>7, <1>9 DEF Agrees
<1>11. Locked(Last(d), u, exists)
  <2>1. ASSUME NEW x \in Ids, NEW q \in exists, q \in Members(a.guilds[x]), q \notin Members(u.guilds[x])
        PROVE  q \in u.cooling
    <3>1. x = id
      BY <1>9, <2>1
    <3>2. a.guilds[id] = Visible(guilds[id], exists) /\ Members(Visible(guilds[id], exists)) = S \cap exists
      <4>1. a.guilds[id] # None
        BY <2>1, <3>1, NoMembers
      <4>2. a.guilds[id] = Visible(guilds[id], exists)
        BY <1>7, <4>1 DEF Agrees
      <4>3. QED
        BY <1>1, <1>2, <4>2, VisibleIs
    <3>3. QED
      BY <1>7, <1>8, <2>1, <3>1, <3>2
  <2>2. QED
    BY <1>7, <2>1 DEF Locked
<1>12. History(Append(d, u), exists, nextId) /\ Last(Append(d, u)) = u
  BY <1>2, <1>3, <1>4, <1>5, <1>7, <1>8, <1>10, <1>11, StatementKept
<1>13. disk' = Append(d, u)
  BY <1>1, <1>7, <1>8, InvariantIs, Statements DEF d
<1>14. Complete(u, guilds', exists, cooling')
  <2>1. Complete(Tables, guilds, exists, cooling)
    BY InvariantIs
  <2>2. S \subseteq Players
    BY <1>2
  <2>3. QED
    BY <1>1, <1>3, <1>7, <1>8, <1>9, <2>1, <2>2 DEF Complete
<1>15. \A q \in Players, x \in Ids : q \in Members(guilds'[x]) <=> q \in Members(guilds[x]) /\ x # id
  BY <1>3, NoMembers
<1>16. \A q \in S, x \in Ids : q \in Members(guilds[x]) => x = id
  BY <1>2 DEF Sane, Exclusive
<1>17. /\ idGuild' \in [Players -> Ids \cup {None}] /\ online \subseteq Players
       /\ \A q \in online : idGuild'[q] = IF q \in S THEN None ELSE idGuild[q]
  BY <1>1, InvariantIs DEF Cleared
<1>18. cooling' \subseteq Players /\ pending' = pending
  BY <1>1, <1>2, InvariantIs
<1> HIDE DEF S
<1>19. Own(online, joining, idGuild', guilds')
  <2>1. Own(online, joining, idGuild, guilds)
    BY InvariantIs
  <2>2. ASSUME NEW q \in online
        PROVE  \/ \E x \in Ids : q \in Members(guilds'[x]) /\ idGuild'[q] = x
               \/ idGuild'[q] = None /\ (q \in joining \/ \A x \in Ids : q \notin Members(guilds'[x]))
    <3>1. CASE q \in S
      BY <1>15, <1>16, <1>17, <3>1
    <3>2. CASE q \notin S
      BY <1>15, <1>17, <2>1, <3>2 DEF Own, S
    <3>3. QED
      BY <3>1, <3>2
  <2>3. QED
    BY <2>2 DEF Own
<1>20. QED
  BY <1>1, <1>3, <1>4, <1>5, <1>6, <1>10, <1>12, <1>13, <1>14, <1>17, <1>18, <1>19, InvariantIs, HandlerKept

LEMMA AcceptKeeps ==
    ASSUME IInv, NEW t \in Players, Accept(t)
    PROVE  IInv'
<1> DEFINE id == pending[t].guild
           g == guilds[id]
           h == Reranked(g, t, GUD_ROOKIE)
           u == MemberAdded(Tables, id, t)
<1>1. /\ guilds \in Collection /\ byName \in [Names -> Ids \cup {None}] /\ exists \in SUBSET Players
      /\ Sane(guilds) /\ Below(guilds, nextId) /\ Led(guilds, exists) /\ Indexed(byName, guilds)
      /\ Agrees(Tables, guilds, exists) /\ Tables = Last(disk) /\ Tables \in Image
      /\ History(disk, exists, nextId) /\ idGuild \in [Players -> Ids \cup {None}]
      /\ GUD_ROOKIE \in Ranks \cup {None} /\ GUD_ROOKIE # None
  BY InvariantIs, RanksAreNumbers
<1>2. /\ id \in Ids /\ g \in Guild /\ g # None /\ Cardinality(Members(g)) < MaxMembers
      /\ \A x \in Ids : t \notin Members(guilds[x])
      /\ guilds' = [guilds EXCEPT ![id].rank[t] = GUD_ROOKIE]
      /\ idGuild' = [idGuild EXCEPT ![t] = id] /\ disk' = disk \o <<u>>
      /\ pending' = [pending EXCEPT ![t] = None]
      /\ UNCHANGED <<session, byName, nextId, cooling, warfare>>
  <2>1. pending[t] \in Invitation
    BY InvariantIs DEF Accept
  <2>2. id \in Ids
    BY <2>1 DEF Invitation
  <2>3. g # None /\ GuildsOf(t) = {} /\ Cardinality(Members(g)) < MaxMembers
    BY DEF Accept, Acceptable, IsGuild, HasRoom
  <2>4. \A x \in Ids : t \notin Members(guilds[x])
    BY <2>3 DEF GuildsOf
  <2>5. g \in Guild
    BY <1>1, <2>2, <2>3 DEF Collection
  <2>6. QED
    BY <2>2, <2>3, <2>4, <2>5 DEF Accept, Issue
<1>3. pending' \in [Players -> Invitation \cup {None}]
  BY <1>2, InvariantIs
<1> HIDE DEF id, u
<1>4. guilds' = [guilds EXCEPT ![id] = h]
  BY <1>2 DEF Reranked
<1>5. /\ h \in Guild /\ h # None /\ h.name = g.name /\ h.master = g.master
      /\ h.power = g.power /\ Members(h) = Members(g) \cup {t}
  BY <1>1, <1>2, RerankedMembers
<1> HIDE DEF h
<1>6. /\ guilds' \in Collection /\ guilds'[id] = h /\ \A x \in Ids : x # id => guilds'[x] = guilds[x]
      /\ \A x \in Ids : guilds'[x] # None <=> guilds[x] # None
  BY <1>1, <1>2, <1>4, <1>5 DEF Collection
<1>7. Sane(guilds')
  <2>7. \A q \in Players, x \in Ids :
            q \in Members(guilds'[x]) <=> q \in Members(guilds[x]) \/ (q = t /\ x = id)
    BY <1>5, <1>6
  <2>1. Exclusive(guilds')
    BY <1>1, <1>2, <2>7 DEF Sane, Exclusive
  <2>2. NamesApart(guilds')
    BY <1>1, <1>2, <1>5, <1>6 DEF Sane, NamesApart
  <2>3. MasterMasks(guilds')
    BY <1>1, <1>2, <1>5, <1>6 DEF Sane, MasterMasks
  <2>4. Cardinality(Members(h)) <= MaxMembers
    <3>1. IsFiniteSet(Members(g)) /\ Cardinality(Members(g)) \in Nat
      BY <1>2, FiniteMembers
    <3>2. Cardinality(Members(h)) = Cardinality(Members(g)) + 1
      BY <1>2, <1>5, <3>1, FS_AddElement
    <3>3. QED
      BY <1>2, <3>1, <3>2, GuildAssumption
  <2>5. Fits(guilds')
    BY <1>1, <1>6, <2>4 DEF Sane, Fits
  <2>6. QED
    BY <2>1, <2>2, <2>3, <2>5 DEF Sane
<1>8. Below(guilds', nextId) /\ Led(guilds', exists) /\ Indexed(byName, guilds')
  <2>1. Below(guilds', nextId)
    BY <1>1, <1>6 DEF Below
  <2>2. g.master \in Members(g) \/ g.master \notin exists
    BY <1>1, <1>2 DEF Led
  <2>3. Led(guilds', exists)
    BY <1>1, <1>5, <1>6, <2>2 DEF Led
  <2>4. Indexed(byName, guilds')
    BY <1>1, <1>2, <1>5, <1>6 DEF Indexed
  <2>5. QED
    BY <2>1, <2>3, <2>4
<1>9. /\ u \in Image /\ u.cooling = Tables.cooling /\ u.wars = Tables.wars
      /\ \A x \in Ids : x # id => u.guilds[x] = Tables.guilds[x]
      /\ u.guilds[id] = IF t \in exists THEN Reranked(Tables.guilds[id], t, GUD_ROOKIE)
                        ELSE Tables.guilds[id]
  <2> DEFINE k == Reranked(Tables.guilds[id], t, GUD_ROOKIE)
  <2>1. Tables.guilds \in [Ids -> Guild \cup {None}]
    BY <1>1 DEF Image
  <2>2. k \in Guild \cup {None}
    <3>1. CASE Tables.guilds[id] = None
      BY <3>1 DEF Reranked
    <3>2. CASE Tables.guilds[id] # None
      <4>1. Tables.guilds[id] \in Guild
        BY <1>2, <2>1, <3>2
      <4>2. QED
        BY <1>1, <4>1, RerankedMembers
    <3>3. QED
      BY <3>1, <3>2
  <2>3. u = IF t \in exists THEN [Tables EXCEPT !.guilds[id] = k] ELSE Tables
    BY DEF u, MemberAdded
  <2> HIDE DEF k
  <2>4. LET v == [Tables EXCEPT !.guilds[id] = k] IN
        /\ v \in Image /\ v.cooling = Tables.cooling /\ v.wars = Tables.wars
        /\ v.guilds = [Tables.guilds EXCEPT ![id] = k]
    BY <1>1, <1>2, <2>2, RowReplaced
  <2>5. QED
    BY <1>1, <1>2, <2>1, <2>3, <2>4 DEF k
<1>10. ASSUME Tables.guilds[id] # None
       PROVE  u.guilds[id] = Visible(h, exists) /\ u.guilds[id] # None
  <2>1. Tables.guilds[id] = Visible(g, exists)
    BY <1>1, <1>2, <1>10 DEF Agrees
  <2>2. u.guilds[id] = Visible(h, exists)
    BY <1>1, <1>2, <1>9, <2>1, VisibleReranked DEF h
  <2>3. Visible(h, exists) \in Guild
    BY <1>1, <1>5, VisibleIs
  <2>4. QED
    BY <2>2, <2>3, MembersOf
<1>11. Tables.guilds[id] = None => u.guilds[id] = None
  BY <1>9 DEF Reranked
<1>12. Agrees(u, guilds', exists)
  <2>1. ASSUME NEW x \in Ids, u.guilds[x] # None
        PROVE  guilds'[x] # None /\ u.guilds[x] = Visible(guilds'[x], exists)
    <3>1. CASE x = id
      BY <1>5, <1>6, <1>10, <1>11, <2>1, <3>1
    <3>2. CASE x # id
      BY <1>1, <1>6, <1>9, <2>1, <3>2 DEF Agrees
    <3>3. QED
      BY <3>1, <3>2
  <2>2. QED
    BY <2>1 DEF Agrees
<1>13. Locked(Last(disk), u, exists)
  <2>1. Members(Tables.guilds[id]) \subseteq Members(u.guilds[id])
    <3>1. CASE Tables.guilds[id] = None
      BY <3>1, NoMembers
    <3>2. CASE Tables.guilds[id] # None
      <4>1. Tables.guilds[id] = Visible(g, exists) /\ u.guilds[id] = Visible(h, exists)
        BY <1>1, <1>2, <1>10, <3>2 DEF Agrees
      <4>2. Members(Visible(g, exists)) = Members(g) \cap exists
        BY <1>1, <1>2, VisibleIs
      <4>3. Members(Visible(h, exists)) = Members(h) \cap exists
        BY <1>1, <1>5, VisibleIs
      <4>4. QED
        BY <1>5, <4>1, <4>2, <4>3
    <3>3. QED
      BY <3>1, <3>2
  <2>2. QED
    BY <1>1, <1>9, <2>1 DEF Locked
<1>14. disk' = Append(disk, u)
  BY <1>2, <1>9, InvariantIs, Statements
<1>15. History(disk', exists, nextId) /\ Last(disk') = u
  BY <1>1, <1>6, <1>7, <1>8, <1>9, <1>12, <1>13, <1>14, StatementKept
<1>16. Complete(u, guilds', exists, cooling)
  <2>1. Complete(Tables, guilds, exists, cooling)
    BY InvariantIs
  <2>2. QED
    BY <1>6, <1>9, <1>10, <2>1 DEF Complete
<1>17. idGuild' \in [Players -> Ids \cup {None}] /\ idGuild'[t] = id
       /\ \A q \in Players : q # t => idGuild'[q] = idGuild[q]
  BY <1>1, <1>2
<1>18. \A q \in Players, x \in Ids : q # t => (q \in Members(guilds'[x]) <=> q \in Members(guilds[x]))
  BY <1>5, <1>6
<1>19. Own(online, joining, idGuild', guilds')
  <2>1. Own(online, joining, idGuild, guilds) /\ online \subseteq Players
    BY InvariantIs
  <2>2. ASSUME NEW q \in online
        PROVE  \/ \E x \in Ids : q \in Members(guilds'[x]) /\ idGuild'[q] = x
               \/ idGuild'[q] = None /\ (q \in joining \/ \A x \in Ids : q \notin Members(guilds'[x]))
    <3>1. CASE q = t
      BY <1>2, <1>5, <1>6, <1>17, <3>1
    <3>2. CASE q # t
      BY <1>17, <1>18, <2>1, <3>2 DEF Own
    <3>3. QED
      BY <3>1, <3>2
  <2>3. QED
    BY <2>2 DEF Own
<1>20. cooling' \subseteq Players /\ byName' = byName /\ cooling' = cooling
  BY <1>2, InvariantIs
<1>21. QED
  BY <1>1, <1>2, <1>3, <1>6, <1>7, <1>8, <1>12, <1>15, <1>16, <1>17, <1>19, <1>20, HandlerKept

\* A new guild has its founder, and nobody else.
LEMMA NewGuildIs == ASSUME NEW p \in Players, NEW n \in Names
    PROVE  LET g == NewGuild(p, n) IN
           /\ g \in Guild /\ g # None /\ g.name = n /\ g.master = p /\ g.power[GUD_MASTER] = Powers
           /\ g.rank = [q \in Players |-> IF q = p THEN GUD_MASTER ELSE None]
           /\ Members(g) = {p}
<1> DEFINE g == NewGuild(p, n)
<1>1. 0 \in 0 .. MaxCount
  BY GuildAssumption
<1>2. [lv \in Ranks |-> IF lv = GUD_MASTER THEN Powers ELSE {}] \in [Ranks -> SUBSET Powers]
  OBVIOUS
<1>3. [q \in Players |-> IF q = p THEN GUD_MASTER ELSE None] \in [Players -> Ranks \cup {None}]
  BY RanksAreNumbers
<1>4. /\ g \in Guild /\ g.name = n /\ g.master = p
      /\ g.power = [lv \in Ranks |-> IF lv = GUD_MASTER THEN Powers ELSE {}]
      /\ g.rank = [q \in Players |-> IF q = p THEN GUD_MASTER ELSE None]
  BY <1>1, <1>2, <1>3 DEF NewGuild, Guild
<1> HIDE DEF g
<1>5. g.power[GUD_MASTER] = Powers
  BY <1>4, RanksAreNumbers
<1>6. \A q \in Players : g.rank[q] # None <=> q = p
  BY <1>4, RanksAreNumbers
<1>7. g # None /\ Members(g) = {p}
  BY <1>4, <1>6, MembersOf
<1>8. QED
  BY <1>4, <1>5, <1>7 DEF g

LEMMA CreateKeeps ==
    ASSUME IInv, NEW p \in Players, NEW n \in Names, Create(p, n)
    PROVE  IInv'
<1> DEFINE id == nextId
           g == NewGuild(p, n)
           m == id + 1
           u == RowsCreated(Tables, id, g)
<1>1. /\ guilds \in Collection /\ byName \in [Names -> Ids \cup {None}] /\ exists \in SUBSET Players
      /\ Sane(guilds) /\ Below(guilds, id) /\ Led(guilds, exists) /\ Indexed(byName, guilds)
      /\ Agrees(Tables, guilds, exists) /\ Tables = Last(disk) /\ Tables \in Image
      /\ History(disk, exists, id) /\ idGuild \in [Players -> Ids \cup {None}]
      /\ disk \in Seq(Image) /\ online \subseteq Players
  BY InvariantIs
<1>2. /\ GuildsOf(p) = {} /\ byName[n] = None /\ p \in online /\ nextId <= MaxId
      /\ guilds' = [guilds EXCEPT ![id] = g] /\ byName' = [byName EXCEPT ![n] = id]
      /\ nextId' = m /\ idGuild' = [idGuild EXCEPT ![p] = id] /\ disk' = disk \o <<u>>
      /\ UNCHANGED <<session, cooling, pending, warfare>>
  BY DEF Create, Issue
<1>3. /\ id \in Ids /\ id \in Int /\ m \in Int /\ m \in 1 .. (MaxId + 1) /\ id <= m /\ id < m
  BY <1>2, GuildAssumption DEF IInv, TypeOK, Ids
<1>4. /\ g \in Guild /\ g # None /\ g.name = n /\ g.master = p /\ g.power[GUD_MASTER] = Powers
      /\ g.rank = [q \in Players |-> IF q = p THEN GUD_MASTER ELSE None]
      /\ Members(g) = {p}
  BY NewGuildIs
<1> HIDE DEF g, u, id, m
<1>5. guilds[id] = None /\ Tables.guilds[id] = None
  <2>1. ~ (id < id)
    BY <1>3
  <2>2. QED
    BY <1>1, <1>3, <2>1 DEF Below, Agrees
<1>6. /\ guilds' \in Collection /\ guilds'[id] = g /\ \A x \in Ids : x # id => guilds'[x] = guilds[x]
  BY <1>1, <1>2, <1>3, <1>4 DEF Collection
<1>7. (\A x \in Ids : p \notin Members(guilds[x])) /\ \A x \in Ids : guilds[x] # None => guilds[x].name # n
  <2>1. ASSUME NEW x \in Ids, guilds[x] # None, guilds[x].name = n PROVE FALSE
    <3>1. byName[n] = x
      BY <1>1, <2>1 DEF Indexed
    <3>2. x # None
      BY GuildAssumption DEF Ids
    <3>3. QED
      BY <1>2, <3>1, <3>2
  <2>2. QED
    BY <1>2, <2>1 DEF GuildsOf
<1>8. Sane(guilds')
  <2>1. Exclusive(guilds')
    BY <1>1, <1>4, <1>6, <1>7 DEF Sane, Exclusive
  <2>2. NamesApart(guilds')
    BY <1>1, <1>4, <1>6, <1>7 DEF Sane, NamesApart
  <2>3. MasterMasks(guilds')
    BY <1>1, <1>4, <1>6 DEF Sane, MasterMasks
  <2>4. Cardinality(Members(g)) = 1
    BY <1>4, FS_Singleton
  <2>5. Fits(guilds')
    BY <1>1, <1>6, <2>4, GuildAssumption DEF Sane, Fits
  <2>6. QED
    BY <2>1, <2>2, <2>3, <2>5 DEF Sane
<1>9. Below(guilds', m)
  <2>1. ASSUME NEW x \in Ids, guilds'[x] # None PROVE x < m
    <3>1. CASE x = id
      BY <1>3, <3>1
    <3>2. CASE x # id
      <4>1. x < id /\ x \in Int
        BY <1>1, <1>6, <2>1, <3>2, GuildAssumption DEF Below, Ids
      <4>2. QED
        BY <1>3, <4>1
    <3>3. QED
      BY <3>1, <3>2
  <2>2. QED
    BY <2>1 DEF Below
<1>10. Led(guilds', exists)
  BY <1>1, <1>4, <1>6 DEF Led
<1>11. byName' \in [Names -> Ids \cup {None}] /\ Indexed(byName', guilds')
  <2>1. /\ byName' \in [Names -> Ids \cup {None}]
        /\ \A k \in Names : byName'[k] = IF k = n THEN id ELSE byName[k]
    BY <1>1, <1>2, <1>3
  <2>2. ASSUME NEW k \in Names, NEW x \in Ids
        PROVE  byName'[k] = x <=> guilds'[x] # None /\ guilds'[x].name = k
    <3>1. byName[k] = x <=> guilds[x] # None /\ guilds[x].name = k
      BY <1>1 DEF Indexed
    <3>2. CASE x = id
      BY <1>4, <1>5, <1>6, <2>1, <3>1, <3>2
    <3>3. CASE x # id
      BY <1>6, <1>7, <2>1, <3>1, <3>3
    <3>4. QED
      BY <3>2, <3>3
  <2>3. QED
    BY <2>1, <2>2 DEF Indexed
<1>12. /\ u \in Image /\ u.cooling = Tables.cooling /\ u.wars = Tables.wars
       /\ \A x \in Ids : x # id => u.guilds[x] = Tables.guilds[x]
       /\ u.guilds[id] = IF p \in exists THEN g ELSE None
  <2>1. Tables.guilds \in [Ids -> Guild \cup {None}]
    BY <1>1 DEF Image
  <2>2. u = IF p \in exists THEN [Tables EXCEPT !.guilds[id] = g] ELSE Tables
    BY <1>4 DEF u, RowsCreated
  <2>3. LET v == [Tables EXCEPT !.guilds[id] = g] IN
        /\ v \in Image /\ v.cooling = Tables.cooling /\ v.wars = Tables.wars
        /\ v.guilds = [Tables.guilds EXCEPT ![id] = g]
    <3>1. g \in Guild \cup {None}
      BY <1>4
    <3>2. QED
      BY <1>1, <1>3, <3>1, RowReplaced
  <2>4. QED
    BY <1>1, <1>3, <1>5, <2>1, <2>2, <2>3
<1>13. p \in exists => g = Visible(g, exists)
  <2>1. ASSUME p \in exists PROVE g = Visible(g, exists)
    <3> DEFINE h == Visible(g, exists)
    <3>1. /\ h \in Guild /\ h.rank = [q \in Players |-> IF q \in exists THEN g.rank[q] ELSE None]
          /\ h.name = g.name /\ h.master = g.master /\ h.power = g.power
          /\ h.win = g.win /\ h.lose = g.lose
      BY <1>1, <1>4, VisibleIs
    <3> HIDE DEF h
    <3>2. \A q \in Players : g.rank[q] = h.rank[q]
      BY <1>4, <2>1, <3>1
    <3>3. g = h
      BY <1>4, <3>1, <3>2, SameGuild
    <3>4. QED
      BY <3>3 DEF h
  <2>2. QED
    BY <2>1
<1>14. Agrees(u, guilds', exists)
  <2>1. ASSUME NEW x \in Ids, u.guilds[x] # None
        PROVE  guilds'[x] # None /\ u.guilds[x] = Visible(guilds'[x], exists)
    <3>1. CASE x = id
      BY <1>4, <1>6, <1>12, <1>13, <2>1, <3>1
    <3>2. CASE x # id
      BY <1>1, <1>6, <1>12, <2>1, <3>2 DEF Agrees
    <3>3. QED
      BY <3>1, <3>2
  <2>2. QED
    BY <2>1 DEF Agrees
<1>15. Locked(Last(disk), u, exists)
  BY <1>1, <1>5, <1>12, NoMembers DEF Locked
<1>16. disk' = Append(disk, u)
  BY <1>1, <1>2, <1>12, Statements
<1>17. History(disk', exists, m) /\ Last(disk') = u
  <2>1. History(disk, exists, m)
    BY <1>1, <1>3, <1>12, HistoryRaised
  <2>2. QED
    BY <1>1, <1>6, <1>8, <1>9, <1>10, <1>12, <1>14, <1>15, <1>16, <2>1, StatementKept
<1>18. Complete(u, guilds', exists, cooling)
  <2>1. Complete(Tables, guilds, exists, cooling)
    BY InvariantIs
  <2>2. QED
    BY <1>4, <1>6, <1>12, <2>1 DEF Complete
<1>19. idGuild' \in [Players -> Ids \cup {None}] /\ idGuild'[p] = id
       /\ \A q \in Players : q # p => idGuild'[q] = idGuild[q]
  BY <1>1, <1>2, <1>3
<1>20. Own(online, joining, idGuild', guilds')
  <2>1. Own(online, joining, idGuild, guilds)
    BY InvariantIs
  <2>2. \A q \in Players, x \in Ids : q # p => (q \in Members(guilds'[x]) <=> q \in Members(guilds[x]))
    BY <1>4, <1>5, <1>6, NoMembers
  <2>3. ASSUME NEW q \in online
        PROVE  \/ \E x \in Ids : q \in Members(guilds'[x]) /\ idGuild'[q] = x
               \/ idGuild'[q] = None /\ (q \in joining \/ \A x \in Ids : q \notin Members(guilds'[x]))
    <3>1. CASE q = p
      BY <1>3, <1>4, <1>6, <1>19, <3>1
    <3>2. CASE q # p
      BY <1>1, <1>19, <2>1, <2>2, <3>2 DEF Own
    <3>3. QED
      BY <3>1, <3>2
  <2>4. QED
    BY <2>3 DEF Own
<1>21. /\ online' = online /\ connected' = connected /\ closing' = closing /\ joining' = joining
       /\ exists' = exists /\ cooling' = cooling /\ pending' = pending /\ link' = link /\ wars' = wars
  BY <1>2 DEF session, warfare
<1>22. TypeOK'
  BY <1>2, <1>3, <1>6, <1>11, <1>17, <1>19, <1>21 DEF IInv, TypeOK, Collection, History, m
<1>23. Live'
  BY <1>2, <1>8, <1>9, <1>10, <1>11, <1>21 DEF IInv, Live
<1>24. Durable'
  BY <1>2, <1>14, <1>17, <1>18, <1>21 DEF Durable, Tables, Last
<1>25. QED
  BY <1>20, <1>21, <1>22, <1>23, <1>24 DEF IInv

------------------------------------------------------------------------------
(* A restart takes up what is durable.                                       *)

LEMMA LeastExists ==
    ASSUME NEW S \in SUBSET Nat, S # {}
    PROVE  \E x \in S : \A y \in S : x <= y
<1> DEFINE lt == {x \in Nat \X Nat : x[1] < x[2]}
<1>1. IsWellFoundedOn(lt, Nat)
  BY NatLessThanWellFounded DEF OpToRel
<1>2. \A u, v \in Nat : <<u, v>> \in lt <=> u < v
  OBVIOUS
<1> HIDE DEF lt
<1>3. PICK x \in S : \A y \in S : ~ (<<y, x>> \in lt)
  <2>1. S \subseteq Nat /\ S # {}
    OBVIOUS
  <2>2. QED
    BY <1>1, <2>1, WFMin
<1>4. ASSUME NEW y \in S PROVE x <= y
  <2>1. x \in Nat /\ y \in Nat
    OBVIOUS
  <2>2. ~ (y < x)
    BY <1>2, <1>3, <2>1
  <2>3. QED
    BY <2>1, <2>2
<1>5. QED
  BY <1>4

LEMMA NextFreeIs == ASSUME NEW gs \in Collection
    PROVE  NextFree(gs) \in 1 .. (MaxId + 1) /\ Below(gs, NextFree(gs))
<1> DEFINE above == {n \in 1 .. (MaxId + 1) : \A id \in Ids : gs[id] # None => id < n}
<1>1. MaxId + 1 \in above /\ above \in SUBSET Nat
  BY GuildAssumption DEF Ids
<1>2. PICK n \in above : \A k \in above : n <= k
  BY <1>1, LeastExists
<1>3. n = 1 \/ gs[n - 1] # None
  <2>1. SUFFICES ASSUME n # 1, gs[n - 1] = None PROVE FALSE
    OBVIOUS
  <2>2. n \in 1 .. (MaxId + 1) /\ n - 1 \in 1 .. (MaxId + 1) /\ n \in Int
    BY <1>2, <2>1, GuildAssumption
  <2>3. ASSUME NEW id \in Ids, gs[id] # None PROVE id < n - 1
    <3>1. id < n /\ id # n - 1 /\ id \in Int
      BY <1>2, <2>1, <2>3, GuildAssumption DEF Ids
    <3>2. QED
      BY <2>2, <3>1
  <2>4. n - 1 \in above
    BY <2>2, <2>3
  <2>5. QED
    BY <1>2, <2>2, <2>4
<1>4. \E k \in 1 .. (MaxId + 1) :
          /\ \A id \in Ids : gs[id] # None => id < k
          /\ k = 1 \/ gs[k - 1] # None
  BY <1>2, <1>3
<1>5. QED
  BY <1>4 DEF NextFree, Below

\* The masks in the tables are already what hydrate forces.
LEMMA HydratedIs == ASSUME NEW g \in Guild \cup {None}, g # None => g.power[GUD_MASTER] = Powers
    PROVE  Hydrated(g) = g
<1>1. CASE g = None
  BY <1>1 DEF Hydrated
<1>2. CASE g # None
  <2>1. g \in Guild /\ g.power \in [Ranks -> SUBSET Powers]
    BY <1>2 DEF Guild
  <2>2. Authority(g.power) = g.power
    BY <1>2, <2>1 DEF Authority
  <2>3. [g EXCEPT !.power = g.power] = g
    BY <2>1 DEF Guild
  <2>4. QED
    BY <1>2, <2>2, <2>3 DEF Hydrated
<1>3. QED
  BY <1>1, <1>2

\* Members that are all there are all visible.
LEMMA AllVisible == ASSUME NEW g \in Guild, NEW ex \in SUBSET Players, Members(g) \subseteq ex
    PROVE  Visible(g, ex) = g
<1> DEFINE h == Visible(g, ex)
<1>1. /\ h \in Guild /\ h.rank = [q \in Players |-> IF q \in ex THEN g.rank[q] ELSE None]
      /\ h.name = g.name /\ h.master = g.master /\ h.power = g.power
      /\ h.win = g.win /\ h.lose = g.lose
  BY VisibleIs
<1> HIDE DEF h
<1>2. \A q \in Players : q \notin ex => g.rank[q] = None
  BY MembersOf
<1>3. \A q \in Players : h.rank[q] = g.rank[q]
  BY <1>1, <1>2
<1>4. h = g
  BY <1>1, <1>3, SameGuild
<1>5. QED
  BY <1>4 DEF h

LEMMA ThenOne == ASSUME NEW t \in Image, NEW u \in Image PROVE Append(<<t>>, u) = <<t, u>>
<1>1. <<t>> \in Seq(Image) /\ <<t, u>> \in Seq(Image) /\ Append(<<t>>, u) \in Seq(Image)
  OBVIOUS
<1>2. Len(<<t, u>>) = 2 /\ Len(Append(<<t>>, u)) = 2
  OBVIOUS
<1>3. \A i \in 1 .. 2 : Append(<<t>>, u)[i] = <<t, u>>[i]
  OBVIOUS
<1>4. QED
  BY <1>1, <1>2, <1>3, SeqEqual

\* With the wars, hydrate may issue a write of its own, u.
LEMMA HydrateKeeps ==
    ASSUME IInv, Hydrate, NEW u \in Image, u.guilds = disk[1].guilds, u.cooling = disk[1].cooling,
           disk' = <<disk[1]>> \/ disk' = <<disk[1], u>>,
           link' \in [Ids -> 0 .. MaxWars], wars' \in [WarIds -> War \cup {None}]
    PROVE  IInv'
<1> DEFINE t == disk[1]
           gs == t.guilds
<1>1. /\ online' = {} /\ connected' = {} /\ closing' = {} /\ joining' = {} /\ exists' = exists
      /\ idGuild' = [p \in Players |-> None] /\ pending' = [p \in Players |-> None]
      /\ guilds' = [id \in Ids |-> Hydrated(gs[id])]
      /\ byName' = [n \in Names |->
            IF \E id \in Ids : gs[id] # None /\ gs[id].name = n
            THEN CHOOSE id \in Ids : gs[id] # None /\ gs[id].name = n ELSE None]
      /\ nextId' = NextFree(gs) /\ cooling' = t.cooling
      /\ disk' = <<t>> \/ disk' = <<t, u>>
  BY DEF Hydrate
<1>2. /\ t \in Image /\ Proper(t, exists, nextId) /\ exists \in SUBSET Players
      /\ u.guilds = gs /\ u.cooling = t.cooling
  BY LastOf, InvariantIs DEF History
<1> HIDE DEF t
<1>3. gs \in Collection /\ t.cooling \in SUBSET Players
      /\ Sane(gs) /\ Led(gs, exists) /\ Present(gs, exists)
  BY <1>2 DEF Image, Collection, Proper
<1> HIDE DEF gs
<1>4. guilds' = gs
  <2>1. \A id \in Ids : Hydrated(gs[id]) = gs[id]
    BY <1>3, HydratedIs DEF Collection, Sane, MasterMasks
  <2>2. QED
    BY <1>1, <1>3, <2>1 DEF Collection
<1>5. nextId' \in 1 .. (MaxId + 1) /\ Below(gs, nextId')
  BY <1>1, <1>3, NextFreeIs
<1>6. byName' \in [Names -> Ids \cup {None}] /\ Indexed(byName', gs)
  <2>1. ASSUME NEW n \in Names
        PROVE  /\ byName'[n] \in Ids \cup {None}
               /\ \A id \in Ids : byName'[n] = id <=> gs[id] # None /\ gs[id].name = n
    <3>1. CASE \E id \in Ids : gs[id] # None /\ gs[id].name = n
      <4>1. byName'[n] = CHOOSE id \in Ids : gs[id] # None /\ gs[id].name = n
        BY <1>1, <3>1
      <4>2. PICK y \in Ids : gs[y] # None /\ gs[y].name = n /\ byName'[n] = y
        BY <3>1, <4>1
      <4>3. \A id \in Ids : gs[id] # None /\ gs[id].name = n => id = y
        BY <1>3, <4>2 DEF Sane, NamesApart
      <4>4. QED
        BY <4>2, <4>3
    <3>2. CASE ~ \E id \in Ids : gs[id] # None /\ gs[id].name = n
      <4>1. byName'[n] = None
        BY <1>1, <3>2
      <4>2. \A id \in Ids : id # None
        BY GuildAssumption DEF Ids
      <4>3. QED
        BY <3>2, <4>1, <4>2
    <3>3. QED
      BY <3>1, <3>2
  <2>2. DOMAIN byName' = Names /\ byName' = [n \in Names |-> byName'[n]]
    BY <1>1
  <2>3. QED
    BY <2>1, <2>2 DEF Indexed
<1>7. History(disk', exists, nextId') /\ Last(disk') \in {t, u}
  <2>1. Proper(t, exists, nextId') /\ Proper(u, exists, nextId')
    BY <1>2, <1>3, <1>5 DEF Proper, gs
  <2>2. History(<<t>>, exists, nextId') /\ Last(<<t>>) = t
    BY <1>2, <2>1, HistoryFirst
  <2>3. Locked(t, u, exists)
    BY <1>2 DEF Locked, gs
  <2>4. History(Append(<<t>>, u), exists, nextId') /\ Last(Append(<<t>>, u)) = u
    BY <2>1, <2>2, <2>3, HistoryAppended
  <2>5. Append(<<t>>, u) = <<t, u>>
    BY <1>2, ThenOne
  <2>6. QED
    BY <1>1, <2>2, <2>4, <2>5
<1>8. Agrees(Last(disk'), gs, exists)
  <2>1. ASSUME NEW id \in Ids, gs[id] # None PROVE gs[id] = Visible(gs[id], exists)
    BY <1>2, <1>3, <2>1, AllVisible DEF Collection, Present
  <2>2. Last(disk').guilds = gs
    BY <1>2, <1>7 DEF gs
  <2>3. QED
    BY <2>1, <2>2 DEF Agrees
<1>9. Complete(Last(disk'), gs, exists, cooling')
  <2>1. Last(disk').guilds = gs /\ Last(disk').cooling = cooling'
    BY <1>1, <1>2, <1>7 DEF gs
  <2>2. QED
    BY <2>1 DEF Complete
<1>10. Own(online', joining', idGuild', guilds')
  BY <1>1 DEF Own
<1>11. TypeOK'
  BY <1>1, <1>3, <1>4, <1>5, <1>6, <1>7 DEF IInv, TypeOK, Collection, History
<1>12. Live'
  BY <1>1, <1>3, <1>4, <1>5, <1>6 DEF IInv, Live
<1>13. Durable'
  BY <1>1, <1>4, <1>7, <1>8, <1>9 DEF Durable, Tables, Last
<1>14. QED
  BY <1>10, <1>11, <1>12, <1>13 DEF IInv

LEMMA RestartKeeps == ASSUME IInv, Restart PROVE IInv'
<1>1. Hydrate /\ disk' = <<disk[1]>> /\ link' = link /\ wars' = wars
  BY DEF Restart, warfare
<1>2. disk[1] \in Image
  BY LastOf, InvariantIs
<1>3. link' \in [Ids -> 0 .. MaxWars] /\ wars' \in [WarIds -> War \cup {None}]
  BY <1>1, InvariantIs
<1>4. QED
  BY <1>1, <1>2, <1>3, HydrateKeeps

------------------------------------------------------------------------------
(* What the steps of Guild leave alone: the wars, and the guilds they are not *)
(* about.                                                                     *)

\* The guilds outside S remain, with their members.
Stays(gs, hs, S) == \A x \in Ids \ S :
    Members(hs[x]) = Members(gs[x]) /\ (gs[x] # None => hs[x] # None)
Follows(t, u, S) == u.wars = t.wars /\ Stays(t.guilds, u.guilds, S)
Steady(S) ==
    /\ Stays(guilds, guilds', S) /\ Follows(Tables, Tables', S)
    /\ \A i \in DOMAIN disk' :
          (\E j \in DOMAIN disk : disk'[i] = disk[j]) \/ Follows(Tables, disk'[i], S)

LEMMA FollowsOn == ASSUME NEW t, NEW u, NEW v, NEW S, Follows(t, u, S), Follows(u, v, S)
    PROVE  Follows(t, v, S)
BY DEF Follows, Stays

LEMMA LockFollows ==
    ASSUME IInv, NEW t \in Image, NEW Q \in SUBSET Players, NEW S
    PROVE  LockedOut(t, Q) \in Image /\ Follows(t, LockedOut(t, Q), S)
BY InvariantIs, LockedOutIs DEF Follows, Stays

LEMMA RowFollows ==
    ASSUME NEW t \in Image, NEW id \in Ids, NEW g \in Guild, NEW S
    PROVE  RowPatched(t, id, g) \in Image /\ Follows(t, RowPatched(t, id, g), S)
<1> DEFINE u == RowPatched(t, id, g)
<1>1. /\ u \in Image /\ u.cooling = t.cooling /\ u.wars = t.wars
      /\ \A other \in Ids \ {id} : u.guilds[other] = t.guilds[other]
      /\ IF t.guilds[id] = None THEN u.guilds[id] = None
         ELSE /\ u.guilds[id] = [g EXCEPT !.rank = t.guilds[id].rank]
              /\ u.guilds[id] \in Guild
  BY RowPatchedIs
<1> HIDE DEF u
<1>2. ASSUME t.guilds[id] # None
      PROVE  Members(u.guilds[id]) = Members(t.guilds[id]) /\ u.guilds[id] # None
  <2>1. t.guilds[id] \in Guild /\ u.guilds[id] \in Guild
    BY <1>1, <1>2 DEF Image
  <2>2. u.guilds[id].rank = t.guilds[id].rank
    BY <1>1, <1>2 DEF Guild
  <2>3. QED
    BY <2>1, <2>2, MembersOf
<1>3. \A x \in Ids : /\ Members(u.guilds[x]) = Members(t.guilds[x])
                     /\ t.guilds[x] # None => u.guilds[x] # None
  BY <1>1, <1>2
<1>4. QED
  BY <1>1, <1>3 DEF u, Follows, Stays

\* p is in no guild of t but id.
Alone(t, p, id) == \A x \in Ids : p \in Members(t.guilds[x]) => x = id

LEMMA TablesAlone ==
    ASSUME IInv, NEW p \in Players, NEW id \in Ids, p \in Members(guilds[id])
    PROVE  Alone(Tables, p, id)
<1>1. \A x \in Ids : Members(Tables.guilds[x]) \subseteq Members(guilds[x])
  <2>1. /\ Tables \in Image /\ guilds \in Collection /\ exists \in SUBSET Players
        /\ Agrees(Tables, guilds, exists) /\ Sane(guilds) /\ Below(guilds, nextId)
        /\ Led(guilds, exists)
    BY InvariantIs
  <2>2. QED
    BY <2>1, AgreesProper
<1>2. QED
  BY <1>1 DEF Alone, IInv, Live, Sane, Exclusive

LEMMA AloneKept ==
    ASSUME NEW t, NEW u, NEW p, NEW id, Follows(t, u, {id}), Alone(t, p, id) PROVE Alone(u, p, id)
BY DEF Follows, Stays, Alone

LEMMA MemberFollows ==
    ASSUME NEW t \in Image, NEW p \in Players, NEW lv \in Ranks \cup {None}, NEW id \in Ids,
           Alone(t, p, id)
    PROVE  MemberPatched(t, p, lv) \in Image /\ Follows(t, MemberPatched(t, p, lv), {id})
BY MemberPatchedIs DEF Follows, Stays, Alone

LEMMA RowReplacedFollows ==
    ASSUME NEW t \in Image, NEW id \in Ids, NEW g \in Guild \cup {None}
    PROVE  [t EXCEPT !.guilds[id] = g] \in Image /\ Follows(t, [t EXCEPT !.guilds[id] = g], {id})
<1> DEFINE u == [t EXCEPT !.guilds[id] = g]
<1>1. u \in Image /\ u.wars = t.wars /\ u.guilds = [t.guilds EXCEPT ![id] = g]
  BY RowReplaced
<1> HIDE DEF u
<1>2. \A x \in Ids \ {id} : u.guilds[x] = t.guilds[x]
  BY <1>1 DEF Image
<1>3. QED
  BY <1>1, <1>2 DEF u, Follows, Stays

LEMMA ItselfFollows == ASSUME NEW t, NEW S PROVE Follows(t, t, S)
BY DEF Follows, Stays

\* A step that issues one, two or three statements.
LEMMA SteadyIssue ==
    ASSUME IInv, NEW S, NEW a \in Image, NEW b \in Image, NEW c \in Image,
           Stays(guilds, guilds', S), Follows(Tables, a, S), Follows(a, b, S), Follows(b, c, S),
           disk' = disk \o <<a>> \/ disk' = disk \o <<a, b>> \/ disk' = disk \o <<a, b, c>>
    PROVE  Steady(S)
<1>1. disk \in Seq(Image) /\ disk # << >> /\ Len(disk) \in Nat /\ DOMAIN disk = 1 .. Len(disk)
  BY InvariantIs, LastOf
<1>2. Follows(Tables, b, S) /\ Follows(Tables, c, S)
  BY FollowsOn
<1>3. ASSUME NEW w \in Seq({a, b, c}), Len(w) > 0, disk' = disk \o w
      PROVE  /\ \A i \in DOMAIN disk' : (\E j \in DOMAIN disk : disk'[i] = disk[j]) \/ disk'[i] \in {a, b, c}
             /\ Tables' \in {a, b, c}
  <2>1. /\ Len(disk') = Len(disk) + Len(w) /\ DOMAIN disk' = 1 .. (Len(disk) + Len(w)) /\ Len(w) \in Nat
        /\ \A i \in 1 .. Len(disk) : disk'[i] = disk[i]
        /\ \A i \in 1 .. Len(w) : disk'[Len(disk) + i] = w[i]
    BY <1>1, <1>3
  <2>2. ASSUME NEW i \in DOMAIN disk', i \notin DOMAIN disk PROVE disk'[i] \in {a, b, c}
    <3>1. i - Len(disk) \in 1 .. Len(w) /\ Len(disk) + (i - Len(disk)) = i
      BY <1>1, <2>1, <2>2
    <3>2. disk'[i] = w[i - Len(disk)]
      BY <2>1, <3>1
    <3>3. \A k \in 1 .. Len(w) : w[k] \in {a, b, c}
      BY <1>3, ElementOfSeq
    <3>4. QED
      BY <3>1, <3>2, <3>3
  <2>3. Tables' \in {a, b, c}
    <3>1. Len(disk') \in DOMAIN disk' /\ Len(disk') \notin DOMAIN disk
      BY <1>1, <1>3, <2>1
    <3>2. QED
      BY <2>2, <3>1 DEF Tables
  <2>4. QED
    BY <1>1, <2>1, <2>2, <2>3
<1>4. <<a>> \in Seq({a, b, c}) /\ <<a, b>> \in Seq({a, b, c}) /\ <<a, b, c>> \in Seq({a, b, c})
      /\ Len(<<a>>) > 0 /\ Len(<<a, b>>) > 0 /\ Len(<<a, b, c>>) > 0
  OBVIOUS
<1>5. \E w \in Seq({a, b, c}) : Len(w) > 0 /\ disk' = disk \o w
  BY <1>4
<1>6. QED
  BY <1>2, <1>3, <1>5 DEF Steady

\* A step that issues none.
LEMMA SteadyStill ==
    ASSUME IInv, NEW S, UNCHANGED guilds, disk' = disk \/ (Len(disk) > 1 /\ disk' = Tail(disk))
    PROVE  Steady(S)
<1>1. Stays(guilds, guilds', S)
  BY DEF Stays
<1>2. disk \in Seq(Image) /\ disk # << >> /\ Len(disk) \in Nat /\ DOMAIN disk = 1 .. Len(disk)
  BY InvariantIs, LastOf
<1>3. CASE disk' = disk
  BY <1>1, <1>3, ItselfFollows DEF Steady, Tables
<1>4. CASE Len(disk) > 1 /\ disk' = Tail(disk)
  <2>1. /\ Len(disk') = Len(disk) - 1 /\ DOMAIN disk' = 1 .. (Len(disk) - 1)
        /\ \A i \in 1 .. (Len(disk) - 1) : disk'[i] = disk[i + 1]
    <3>1. Tail(disk) \in Seq(Image) /\ Len(Tail(disk)) = Len(disk) - 1
      BY <1>2, HeadTailProperties
    <3>2. DOMAIN Tail(disk) = 1 .. (Len(disk) - 1)
      BY <3>1, LenProperties
    <3>3. \A i \in 1 .. (Len(disk) - 1) : Tail(disk)[i] = disk[i + 1]
      BY <1>2
    <3>4. QED
      BY <1>4, <3>1, <3>2, <3>3
  <2>2. Tables' = Tables
    <3>1. Len(disk) - 1 \in 1 .. (Len(disk) - 1) /\ (Len(disk) - 1) + 1 = Len(disk)
      <4>1. Len(disk) \in Nat /\ Len(disk) > 1
        BY <1>2, <1>4
      <4>2. QED
        BY ONLY <4>1
    <3>2. disk'[Len(disk')] = disk[Len(disk)]
      BY <2>1, <3>1
    <3>3. QED
      BY <3>2 DEF Tables
  <2>3. \A i \in DOMAIN disk' : i + 1 \in DOMAIN disk
    BY <1>2, <2>1
  <2>4. QED
    BY <1>1, <2>1, <2>2, <2>3, ItselfFollows DEF Steady
<1>5. QED
  BY <1>3, <1>4

LEMMA SetMemberLevelSteady ==
    ASSUME IInv, NEW p \in Players, NEW t \in Players, NEW id \in Ids, NEW lv \in Ranks,
           SetMemberLevel(p, id, t, lv)
    PROVE  Steady({id})
<1> DEFINE a == MemberPatched(Tables, t, lv)
<1>1. /\ t \in Members(guilds[id]) /\ guilds' = [guilds EXCEPT ![id].rank[t] = lv]
      /\ disk' = disk \o <<a>>
  BY DEF SetMemberLevel, Issue
<1>2. a \in Image /\ Follows(Tables, a, {id})
  BY <1>1, TablesAlone, MemberFollows, InvariantIs
<1> HIDE DEF a
<1>3. Stays(guilds, guilds', {id})
  BY <1>1, InvariantIs DEF Stays, Collection
<1>4. QED
  BY <1>1, <1>2, <1>3, ItselfFollows, SteadyIssue

LEMMA LeaveOrKickSteady ==
    ASSUME IInv, NEW p \in Players, NEW t \in Players, NEW id \in Ids, LeaveOrKick(p, id, t)
    PROVE  Steady({id})
<1> DEFINE a == LockedOut(Tables, {t})
           b == MemberRemoved(a, t)
<1>1. /\ t \in Members(guilds[id]) /\ guilds' = [guilds EXCEPT ![id].rank[t] = None]
      /\ disk' = disk \o <<a, b>>
  BY DEF LeaveOrKick, Issue, RemovedRows
<1>2. a \in Image /\ Follows(Tables, a, {id})
  <2>1. {t} \in SUBSET Players /\ Tables \in Image
    BY InvariantIs
  <2>2. QED
    BY <2>1, LockFollows
<1> HIDE DEF a
<1>3. Alone(a, t, id)
  BY <1>1, <1>2, TablesAlone, AloneKept
<1>4. b \in Image /\ Follows(a, b, {id})
  BY <1>2, <1>3, MemberFollows DEF MemberRemoved
<1> HIDE DEF b
<1>5. Stays(guilds, guilds', {id})
  BY <1>1, InvariantIs DEF Stays, Collection
<1>6. QED
  BY <1>1, <1>2, <1>4, <1>5, ItselfFollows, SteadyIssue

LEMMA ChangeMasterSteady ==
    ASSUME IInv, NEW p \in Players, NEW t \in Players, NEW id \in Ids, ChangeMaster(p, id, t)
    PROVE  Steady({id})
<1> DEFINE g1 == [guilds[id] EXCEPT !.master = t]
           a == RowPatched(Tables, id, g1)
           b == MemberPatched(a, p, GUD_ROOKIE)
           c == MemberPatched(b, t, GUD_MASTER)
<1>1. /\ MayAct(p, id) /\ t \in Members(guilds[id])
      /\ guilds' = [guilds EXCEPT ![id] = [g1 EXCEPT !.rank = HandedOver(@, p, t)]]
      /\ disk' = disk \o <<a, b, c>>
  BY DEF ChangeMaster, Issue
<1>2. guilds[id] \in Guild /\ p \in Members(guilds[id]) /\ Tables \in Image
  BY <1>1, MayActIs, InvariantIs
<1>3. g1 \in Guild
  BY <1>2 DEF Guild
<1>4. Stays(guilds, guilds', {id})
  BY <1>1, InvariantIs DEF Stays, Collection
<1> HIDE DEF g1
<1>5. a \in Image /\ Follows(Tables, a, {id})
  BY <1>2, <1>3, RowFollows
<1> HIDE DEF a
<1>6. Alone(a, p, id) /\ Alone(a, t, id)
  BY <1>1, <1>2, <1>5, TablesAlone, AloneKept
<1>7. b \in Image /\ Follows(a, b, {id})
  BY <1>5, <1>6, RanksAreNumbers, MemberFollows
<1> HIDE DEF b
<1>8. Alone(b, t, id)
  BY <1>6, <1>7, AloneKept
<1>9. c \in Image /\ Follows(b, c, {id})
  BY <1>7, <1>8, RanksAreNumbers, MemberFollows
<1> HIDE DEF c
<1>10. QED
  BY <1>1, <1>4, <1>5, <1>7, <1>9, SteadyIssue

\* A guild's own row, members or not.
LEMMA RowSteady ==
    ASSUME IInv, NEW id \in Ids, NEW g \in Guild, g.rank = guilds[id].rank, guilds[id] \in Guild,
           guilds' = [guilds EXCEPT ![id] = g], disk' = disk \o <<RowPatched(Tables, id, g)>>
    PROVE  Steady({})
<1> DEFINE a == RowPatched(Tables, id, g)
<1>1. a \in Image /\ Follows(Tables, a, {})
  BY RowFollows, InvariantIs
<1>2. disk' = disk \o <<a>>
  OBVIOUS
<1> HIDE DEF a
<1>3. Members(g) = Members(guilds[id]) /\ g # None
  BY MembersOf
<1>4. Stays(guilds, guilds', {})
  BY <1>3, InvariantIs DEF Stays, Collection
<1>5. QED
  BY <1>1, <1>2, <1>4, ItselfFollows, SteadyIssue

LEMMA RenameSteady ==
    ASSUME IInv, NEW p \in Players, NEW id \in Ids, NEW n \in Names, Rename(p, id, n)
    PROVE  Steady({})
<1> DEFINE g == [guilds[id] EXCEPT !.name = n]
<1>1. /\ MayAct(p, id) /\ guilds' = [guilds EXCEPT ![id].name = n]
      /\ disk' = disk \o <<RowPatched(Tables, id, g)>>
  BY DEF Rename, Issue
<1>2. guilds[id] \in Guild
  BY <1>1, MayActIs
<1>3. g \in Guild /\ g.rank = guilds[id].rank
  BY <1>2 DEF Guild
<1>4. guilds' = [guilds EXCEPT ![id] = g]
  BY <1>1, <1>2, InvariantIs DEF Collection
<1> HIDE DEF g
<1>5. QED
  BY <1>1, <1>2, <1>3, <1>4, RowSteady

LEMMA SetAuthoritySteady ==
    ASSUME IInv, NEW p \in Players, NEW id \in Ids, NEW mask \in Masks, SetAuthority(p, id, mask)
    PROVE  Steady({})
<1> DEFINE g == [guilds[id] EXCEPT !.power = Authority(mask)]
<1>1. /\ MayAct(p, id) /\ guilds' = [guilds EXCEPT ![id].power = Authority(mask)]
      /\ disk' = disk \o <<RowPatched(Tables, id, g)>>
  BY DEF SetAuthority, Issue
<1>2. guilds[id] \in Guild
  BY <1>1, MayActIs
<1>3. Authority(mask) \in [Ranks -> SUBSET Powers]
  BY GuildAssumption DEF Authority
<1>4. g \in Guild /\ g.rank = guilds[id].rank
  BY <1>2, <1>3 DEF Guild
<1>5. guilds' = [guilds EXCEPT ![id] = g]
  BY <1>1, <1>2, InvariantIs DEF Collection
<1> HIDE DEF g
<1>6. QED
  BY <1>1, <1>2, <1>4, <1>5, RowSteady

LEMMA DestroySteady ==
    ASSUME IInv, NEW p \in Players, NEW id \in Ids, Destroy(p, id)
    PROVE  Steady({id})
<1> DEFINE a == LockedOut(Tables, Members(guilds[id]))
           b == RowRemoved(a, id)
<1>1. guilds' = [guilds EXCEPT ![id] = None] /\ disk' = disk \o <<a, b>>
  BY DEF Destroy, Issue
<1>2. a \in Image /\ Follows(Tables, a, {id})
  <2>1. Members(guilds[id]) \in SUBSET Players /\ Tables \in Image
    BY InvariantIs DEF Members
  <2>2. QED
    BY <2>1, LockFollows
<1> HIDE DEF a
<1>3. b \in Image /\ Follows(a, b, {id})
  BY <1>2, RowReplacedFollows DEF RowRemoved
<1> HIDE DEF b
<1>4. Stays(guilds, guilds', {id})
  BY <1>1, InvariantIs DEF Stays, Collection
<1>5. QED
  BY <1>1, <1>2, <1>3, <1>4, ItselfFollows, SteadyIssue

LEMMA AcceptSteady ==
    ASSUME IInv, NEW t \in Players, Accept(t) PROVE Steady({pending[t].guild})
<1> DEFINE id == pending[t].guild
           a == MemberAdded(Tables, id, t)
<1>1. /\ pending[t] # None /\ guilds' = [guilds EXCEPT ![id].rank[t] = GUD_ROOKIE]
      /\ disk' = disk \o <<a>>
  BY DEF Accept, Issue
<1>2. id \in Ids
  BY <1>1, InvariantIs DEF Invitation
<1> HIDE DEF id
<1>3. a \in Image /\ Follows(Tables, a, {id})
  <2>1. Tables \in Image /\ Tables.guilds[id] \in Guild \cup {None}
    BY <1>2, InvariantIs DEF Image
  <2>2. Reranked(Tables.guilds[id], t, GUD_ROOKIE) \in Guild \cup {None}
    BY <2>1, RerankedIs, RanksAreNumbers DEF Reranked
  <2>3. a = [Tables EXCEPT !.guilds[id] = Reranked(Tables.guilds[id], t, GUD_ROOKIE)] \/ a = Tables
    BY DEF MemberAdded
  <2> HIDE DEF a
  <2>4. CASE a = Tables
    BY <2>1, <2>4, ItselfFollows
  <2>5. CASE a # Tables
    <3> DEFINE g == Reranked(Tables.guilds[id], t, GUD_ROOKIE)
    <3>1. g \in Guild \cup {None} /\ a = [Tables EXCEPT !.guilds[id] = g]
      BY <2>2, <2>3, <2>5
    <3> HIDE DEF g
    <3>2. QED
      BY <1>2, <2>1, <3>1, RowReplacedFollows
  <2>6. QED
    BY <2>4, <2>5
<1> HIDE DEF a
<1>4. Stays(guilds, guilds', {id})
  BY <1>1, InvariantIs DEF Stays, Collection
<1>5. Steady({id})
  BY <1>1, <1>3, <1>4, ItselfFollows, SteadyIssue
<1>6. QED
  BY <1>5 DEF id

LEMMA CreateSteady ==
    ASSUME IInv, NEW p \in Players, NEW n \in Names, Create(p, n) PROVE Steady({nextId})
<1> DEFINE g == NewGuild(p, n)
           a == RowsCreated(Tables, nextId, g)
<1>1. /\ nextId <= MaxId /\ guilds' = [guilds EXCEPT ![nextId] = g]
      /\ disk' = disk \o <<a>>
  BY DEF Create, Issue
<1>2. nextId \in Ids /\ g \in Guild /\ Tables \in Image
  <2>1. nextId \in 1 .. (MaxId + 1) /\ MaxId \in Nat
    BY GuildAssumption DEF IInv, TypeOK
  <2>2. g \in Guild
    BY NewGuildIs
  <2>3. QED
    BY <1>1, <2>1, <2>2, InvariantIs DEF Ids
<1> HIDE DEF g
<1>3. a \in Image /\ Follows(Tables, a, {nextId})
  BY <1>2, RowReplacedFollows, ItselfFollows DEF RowsCreated
<1> HIDE DEF a
<1>4. Stays(guilds, guilds', {nextId})
  BY <1>1, InvariantIs DEF Stays, Collection
<1>5. QED
  BY <1>1, <1>3, <1>4, ItselfFollows, SteadyIssue

LEMMA CooldownOverSteady == ASSUME IInv, NEW p \in Players, CooldownOver(p) PROVE Steady({})
<1> DEFINE t == disk[1]
           u == [t EXCEPT !.cooling = t.cooling \ {p}]
<1>1. guilds' = guilds /\ Len(disk) = 1 /\ disk' = <<u>>
  BY DEF CooldownOver
<1>2. t \in Image /\ Tables = t /\ t.cooling \ {p} \in SUBSET Players
  <2>1. t \in Image
    BY LastOf, InvariantIs
  <2>2. QED
    BY <1>1, <2>1 DEF Tables, Image
<1>3. u \in Image /\ u.wars = t.wars /\ u.guilds = t.guilds
  BY <1>2, CoolingReplaced
<1> HIDE DEF t, u
<1>4. Follows(t, u, {}) /\ Stays(guilds, guilds', {})
  BY <1>1, <1>3 DEF Follows, Stays
<1>5. DOMAIN disk' = {1} /\ disk'[1] = u /\ Tables' = u
  BY <1>1 DEF Tables
<1>6. QED
  BY <1>2, <1>4, <1>5 DEF Steady

\* So a step of Guild that deletes nobody leaves the guilds at war alone.
Harmless == \E S \in SUBSET Ids : Steady(S) /\ \A x \in S : guilds[x] = None \/ ~ AtWar(x)

LEMMA HarmlessIf ==
    /\ Steady({}) => Harmless
    /\ \A id \in Ids : Steady({id}) /\ (guilds[id] = None \/ ~ AtWar(id)) => Harmless
<1>1. Steady({}) => Harmless
  BY DEF Harmless
<1>2. ASSUME NEW id \in Ids, Steady({id}), guilds[id] = None \/ ~ AtWar(id) PROVE Harmless
  <2>1. {id} \in SUBSET Ids /\ \A x \in {id} : guilds[x] = None \/ ~ AtWar(x)
    BY <1>2
  <2>2. QED
    BY <1>2, <2>1 DEF Harmless
<1>3. QED
  BY <1>1, <1>2

LEMMA InviteStepHarmless == ASSUME IInv, InviteStep PROVE Harmless
<1>1. ASSUME NEW p \in Players, NEW t \in Players, NEW id \in Ids, Invite(p, id, t) PROVE Harmless
  <2>1. UNCHANGED guilds /\ disk' = disk
    BY <1>1 DEF Invite, rosters
  <2>2. QED
    BY <2>1, SteadyStill, HarmlessIf
<1>2. ASSUME NEW t \in Players, InviteClosed(t) \/ AcceptRefused(t) PROVE Harmless
  <2>1. UNCHANGED guilds /\ disk' = disk
    BY <1>2 DEF InviteClosed, AcceptRefused, rosters
  <2>2. QED
    BY <2>1, SteadyStill, HarmlessIf
<1>3. ASSUME NEW t \in Players, Accept(t) PROVE Harmless
  <2>1. pending[t] # None /\ ~ AtWar(pending[t].guild)
    BY <1>3 DEF Accept, Acceptable
  <2>2. pending[t].guild \in Ids
    BY <2>1, InvariantIs DEF Invitation
  <2>3. Steady({pending[t].guild})
    BY <1>3, AcceptSteady
  <2>4. QED
    BY <2>1, <2>2, <2>3, HarmlessIf
<1>4. QED
  BY <1>1, <1>2, <1>3 DEF InviteStep, Decline, ExpireInvite

LEMMA RosterStepHarmless == ASSUME IInv, RosterStep PROVE Harmless
<1>1. ASSUME NEW p \in Players, NEW id \in Ids, Destroy(p, id) PROVE Harmless
  BY <1>1, DestroySteady, HarmlessIf DEF Destroy
<1>2. ASSUME NEW p \in Players, NEW id \in Ids, NEW t \in Players, LeaveOrKick(p, id, t) PROVE Harmless
  BY <1>2, LeaveOrKickSteady, HarmlessIf DEF LeaveOrKick
<1>3. ASSUME NEW p \in Players, NEW id \in Ids, NEW t \in Players, ChangeMaster(p, id, t) PROVE Harmless
  BY <1>3, ChangeMasterSteady, HarmlessIf DEF ChangeMaster
<1>4. ASSUME NEW p \in Players, NEW id \in Ids, NEW t \in Players, NEW lv \in Ranks,
             SetMemberLevel(p, id, t, lv)
      PROVE  Harmless
  BY <1>4, SetMemberLevelSteady, HarmlessIf DEF SetMemberLevel
<1>5. ASSUME NEW p \in Players, NotInGuild(p) PROVE Harmless
  <2>1. UNCHANGED guilds /\ disk' = disk
    BY <1>5 DEF NotInGuild, rosters
  <2>2. QED
    BY <2>1, SteadyStill, HarmlessIf
<1>6. QED
  BY <1>1, <1>2, <1>3, <1>4, <1>5 DEF RosterStep

LEMMA CreateStepHarmless == ASSUME IInv, CreateStep PROVE Harmless
<1>1. PICK p \in Players, n \in Names : Create(p, n)
  BY DEF CreateStep
<1>2. nextId \in 1 .. (MaxId + 1) /\ MaxId \in Nat /\ nextId <= MaxId
  BY <1>1, GuildAssumption DEF IInv, TypeOK, Create
<1>3. nextId \in Ids /\ guilds[nextId] = None
  <2>1. nextId \in Ids /\ ~ (nextId < nextId)
    BY <1>2 DEF Ids
  <2>2. QED
    BY <2>1, InvariantIs DEF Below
<1>4. QED
  BY <1>1, <1>3, CreateSteady, HarmlessIf

LEMMA GuildHarmless ==
    ASSUME IInv, \/ InviteStep \/ RosterStep \/ CreateStep \/ SettingStep \/ Flush
                 \/ \E p \in Players : Leave(p) \/ OnJoin(p) \/ Join(p) \/ SocketClosed(p) \/ CooldownOver(p)
    PROVE  Harmless
<1>1. CASE SettingStep
  BY <1>1, RenameSteady, SetAuthoritySteady, HarmlessIf DEF SettingStep
<1>2. CASE Flush
  <2>1. UNCHANGED guilds /\ Len(disk) > 1 /\ disk' = Tail(disk)
    BY <1>2 DEF Flush, rosters
  <2>2. QED
    BY <2>1, SteadyStill, HarmlessIf
<1>3. ASSUME NEW p \in Players, Leave(p) \/ OnJoin(p) \/ Join(p) \/ SocketClosed(p) PROVE Harmless
  <2>1. UNCHANGED guilds /\ disk' = disk
    BY <1>3 DEF Leave, OnJoin, Join, SocketClosed, rosters
  <2>2. QED
    BY <2>1, SteadyStill, HarmlessIf
<1>4. ASSUME NEW p \in Players, CooldownOver(p) PROVE Harmless
  BY <1>4, CooldownOverSteady, HarmlessIf
<1>5. QED
  BY <1>1, <1>2, <1>3, <1>4, InviteStepHarmless, RosterStepHarmless, CreateStepHarmless

\* Nor do such steps touch who fights, who exists, or bring anyone into the world.
LEMMA GuildLeaves ==
    ASSUME \/ InviteStep \/ RosterStep \/ CreateStep \/ SettingStep \/ Flush
           \/ \E p \in Players : Leave(p)
    PROVE  UNCHANGED <<warfare, exists>> /\ online' \in SUBSET online
<1>1. CASE InviteStep
  BY <1>1 DEF InviteStep, Invite, Decline, ExpireInvite, InviteClosed, Accept, AcceptRefused, session
<1>2. CASE RosterStep
  <2>1. ASSUME NEW p \in Players, NEW id \in Ids, Destroy(p, id) PROVE UNCHANGED <<session, warfare>>
    BY <2>1 DEF Destroy
  <2>2. ASSUME NEW p \in Players, NEW id \in Ids, NEW t \in Players,
               \/ LeaveOrKick(p, id, t) \/ ChangeMaster(p, id, t)
               \/ \E lv \in Ranks : SetMemberLevel(p, id, t, lv)
        PROVE  UNCHANGED <<session, warfare>>
    BY <2>2 DEF LeaveOrKick, ChangeMaster, SetMemberLevel
  <2>3. ASSUME NEW p \in Players, NotInGuild(p) PROVE UNCHANGED <<session, warfare>>
    BY <2>3 DEF NotInGuild
  <2>4. UNCHANGED <<session, warfare>>
    BY <1>2, <2>1, <2>2, <2>3 DEF RosterStep
  <2>5. QED
    BY <2>4 DEF session
<1>3. CASE CreateStep
  BY <1>3 DEF CreateStep, Create, session
<1>4. CASE SettingStep
  BY <1>4 DEF SettingStep, Rename, SetAuthority, session
<1>5. CASE Flush
  BY <1>5 DEF Flush, session
<1>6. CASE \E p \in Players : Leave(p)
  BY <1>6 DEF Leave
<1>7. QED
  BY <1>1, <1>2, <1>3, <1>4, <1>5, <1>6

------------------------------------------------------------------------------
(* The invariant.                                                            *)

LEMMA InitIInv == Init => IInv
<1> SUFFICES ASSUME Init PROVE IInv
  OBVIOUS
<1> DEFINE t == [guilds |-> NoGuilds, cooling |-> {}, wars |-> NoWars]
<1>1. /\ online = {} /\ connected = {} /\ closing = {} /\ joining = {} /\ exists = Players
      /\ idGuild = [p \in Players |-> None] /\ guilds = NoGuilds /\ byName = [n \in Names |-> None]
      /\ nextId = 1 /\ cooling = {} /\ pending = [p \in Players |-> None]
      /\ link = [id \in Ids |-> 0] /\ wars = NoWars /\ disk = <<t>>
  BY DEF Init
<1>2. NoGuilds \in Collection /\ NoWars \in [WarIds -> War \cup {None}]
      /\ \A id \in Ids : NoGuilds[id] = None
  BY DEF NoGuilds, NoWars, Collection
<1>3. t \in Image /\ t.guilds = NoGuilds /\ t.cooling = {}
  BY <1>2 DEF Image, Collection
<1> HIDE DEF t
<1>4. Sane(NoGuilds)
  <2>1. 0 <= MaxMembers
    BY GuildAssumption
  <2>2. QED
    BY <1>2, <2>1, NoMembers DEF Sane, Exclusive, NamesApart, Fits, MasterMasks
<1>5. Below(NoGuilds, 1) /\ Led(NoGuilds, Players) /\ Present(NoGuilds, Players)
  BY <1>2, NoMembers DEF Below, Led, Present
<1>6. Indexed(byName, NoGuilds)
  <2>1. \A id \in Ids : id # None
    BY GuildAssumption DEF Ids
  <2>2. QED
    BY <1>1, <1>2, <2>1 DEF Indexed
<1>7. Proper(t, Players, 1)
  BY <1>3, <1>4, <1>5 DEF Proper
<1>8. History(disk, exists, nextId) /\ Last(disk) = t
  BY <1>1, <1>3, <1>7, HistoryFirst
<1>9. Agrees(t, guilds, exists) /\ Complete(t, guilds, exists, cooling)
  BY <1>1, <1>2, <1>3 DEF Agrees, Complete
<1>10. Own(online, joining, idGuild, guilds)
  BY <1>1 DEF Own
<1>11. TypeOK
  <2>1. nextId \in 1 .. (MaxId + 1) /\ 0 \in 0 .. MaxWars
    BY <1>1, GuildAssumption
  <2>2. QED
    BY <1>1, <1>2, <1>8, <2>1 DEF TypeOK, History, Collection
<1>12. Live
  BY <1>1, <1>4, <1>5, <1>6 DEF Live
<1>13. Durable
  BY <1>8, <1>9 DEF Durable, Tables, Last
<1>14. QED
  BY <1>10, <1>11, <1>12, <1>13 DEF IInv

LEMMA StepKeeps == IInv /\ [Next]_vars => IInv'
<1> SUFFICES ASSUME IInv, [Next]_vars PROVE IInv'
  OBVIOUS
<1>1. CASE UNCHANGED vars
  BY <1>1 DEF vars, session, rosters, warfare, IInv, TypeOK, Live, Durable, Tables
<1>2. CASE InviteStep
  BY <1>2, InviteKeeps, InviteGoneKeeps, AcceptKeeps DEF InviteStep, Decline, ExpireInvite
<1>3. CASE RosterStep
  BY <1>3, DestroyKeeps, LeaveOrKickKeeps, ChangeMasterKeeps, SetMemberLevelKeeps, NotInGuildKeeps
     DEF RosterStep
<1>4. CASE CreateStep
  BY <1>4, CreateKeeps DEF CreateStep
<1>5. CASE SettingStep
  BY <1>5, RenameKeeps, SetAuthorityKeeps DEF SettingStep
<1>6. CASE PendingStep
  BY <1>6, FlushKeeps, OnJoinKeeps, LeaveKeeps DEF PendingStep
<1>7. CASE WorldStep
  BY <1>7, JoinKeeps, SocketClosedKeeps, DeleteKeeps, CooldownOverKeeps DEF WorldStep
<1>8. CASE Restart
  BY <1>8, RestartKeeps
<1>9. QED
  BY <1>1, <1>2, <1>3, <1>4, <1>5, <1>6, <1>7, <1>8 DEF Next, GuildStep

\* Without its war steps, the guild's tables carry the wars from image to image.
Carried == \A i \in DOMAIN disk : disk[i].wars = wars

LEMMA CarriedKeeps == IInv /\ Carried /\ [Next]_vars => Carried'
<1> SUFFICES ASSUME IInv, Carried, [Next]_vars PROVE Carried'
  OBVIOUS
<1>1. disk \in Seq(Image) /\ disk # << >> /\ Tables.wars = wars
      /\ DOMAIN disk = 1 .. Len(disk) /\ 1 \in DOMAIN disk
  BY InvariantIs, LastOf DEF Carried, Tables
<1>2. CASE UNCHANGED vars
  BY <1>2 DEF vars, warfare, Carried
<1>3. CASE \E p \in Players : DeleteCharacter(p)
  <2>1. PICK p \in Players : DeleteCharacter(p)
    BY <1>3
  <2>2. disk' = [i \in DOMAIN disk |-> Purged(disk[i], p)] /\ wars' = wars
    BY <2>1 DEF DeleteCharacter, warfare
  <2>3. \A i \in DOMAIN disk : Purged(disk[i], p).wars = disk[i].wars
    BY <1>1, ElementOfSeq, PurgedIs
  <2>4. QED
    BY <2>2, <2>3 DEF Carried
<1>4. CASE Restart
  BY <1>1, <1>4 DEF Restart, warfare, Carried
<1>5. CASE \/ InviteStep \/ RosterStep \/ CreateStep \/ SettingStep \/ Flush
           \/ \E p \in Players : Leave(p) \/ OnJoin(p) \/ Join(p) \/ SocketClosed(p) \/ CooldownOver(p)
  <2>1. PICK S \in SUBSET Ids : Steady(S)
    BY <1>5, GuildHarmless DEF Harmless
  <2>2. wars' = wars
    <3>1. UNCHANGED warfare
      BY <1>5, GuildLeaves DEF OnJoin, Join, SocketClosed, CooldownOver
    <3>2. QED
      BY <3>1 DEF warfare
  <2>3. QED
    BY <1>1, <2>1, <2>2 DEF Carried, Steady, Follows
<1>6. QED
  BY <1>2, <1>3, <1>4, <1>5 DEF Next, GuildStep, PendingStep, WorldStep

LEMMA Invariance == Spec => [](IInv /\ Carried)
<1>1. Init => Carried
  BY DEF Init, Carried
<1>2. QED
  BY <1>1, InitIInv, StepKeeps, CarriedKeeps, PTL DEF Spec

------------------------------------------------------------------------------
(* The properties of Guild, from the invariant.                               *)

LEMMA RegistrySaneIs == IInv => RegistrySane
<1> SUFFICES ASSUME IInv PROVE RegistrySane
  OBVIOUS
<1>1. \A p \in Players : \A id, other \in GuildsOf(p) : id = other
  BY DEF IInv, Live, Sane, Exclusive, GuildsOf
<1>2. \A id \in Ids : Cardinality(Members(guilds[id])) <= MaxMembers
  BY DEF IInv, Live, Sane, Fits
<1>3. \A n \in Names, id \in Ids : byName[n] = id <=> IsGuild(id) /\ guilds[id].name = n
  BY DEF IInv, Live, Indexed, IsGuild
<1>4. QED
  BY <1>1, <1>2, <1>3 DEF RegistrySane

LEMMA GuildsAreLedIs == IInv => GuildsAreLed
<1> SUFFICES ASSUME IInv PROVE GuildsAreLed
  OBVIOUS
<1>1. \A id \in Ids : LedBy(guilds[id])
  BY DEF IInv, Live, Led, LedBy
<1>2. \A i \in DOMAIN disk, id \in Ids : LedBy(disk[i].guilds[id])
  BY DEF IInv, Durable, History, Proper, Led, LedBy
<1>3. QED
  BY <1>1, <1>2 DEF GuildsAreLed

LEMMA LeaversLockedIs == IInv => LeaversLocked
<1> SUFFICES ASSUME IInv, NEW i \in 2 .. Len(disk), NEW p \in exists,
                    Listed(disk[i - 1], p), ~ Listed(disk[i], p)
             PROVE  p \in disk[i].cooling
  BY DEF LeaversLocked
<1>1. disk \in Seq(Image) /\ disk # << >>
  BY DEF IInv, TypeOK
<1>2. i \in DOMAIN disk /\ i > 1
  BY <1>1, LastOf
<1>3. Locked(disk[i - 1], disk[i], exists)
  BY <1>2 DEF IInv, Durable, History
<1>4. QED
  BY <1>3 DEF Locked, Listed

LEMMA StoredAsLiveIs == IInv /\ Tables.wars = wars => StoredAsLive
<1> SUFFICES ASSUME IInv, Tables.wars = wars, exists = Players
             PROVE  Tables = [guilds |-> guilds, cooling |-> cooling, wars |-> wars]
  BY DEF StoredAsLive
<1>1. /\ guilds \in Collection /\ Tables \in Image /\ Tables.wars = wars
      /\ Agrees(Tables, guilds, exists) /\ Complete(Tables, guilds, exists, cooling)
  BY InvariantIs DEF IInv, Live
<1>2. Tables.guilds \in Collection /\ Tables.cooling = cooling
  BY <1>1 DEF Image, Collection, Complete
<1>3. ASSUME NEW id \in Ids PROVE Tables.guilds[id] = guilds[id]
  <2>1. CASE guilds[id] = None
    BY <1>1, <2>1 DEF Agrees
  <2>2. CASE guilds[id] # None
    <3>1. guilds[id] \in Guild /\ Tables.guilds[id] = Visible(guilds[id], exists)
      BY <1>1, <2>2 DEF Agrees, Complete, Collection
    <3>2. Members(guilds[id]) \subseteq exists /\ exists \in SUBSET Players
      BY DEF Members
    <3>3. QED
      BY <3>1, <3>2, AllVisible
  <2>3. QED
    BY <2>1, <2>2
<1>4. Tables.guilds = guilds
  BY <1>1, <1>2, <1>3 DEF Collection
<1>5. QED
  BY <1>1, <1>2, <1>4 DEF Image

------------------------------------------------------------------------------
(* Ranks.  In memory exactly the master holds the master's rank; an image on *)
(* the way of a changeMaster may show two masters or none, but no image is   *)
(* over a cap, so that whatever a restart loads is not either.               *)

Holders(g, lv) == {q \in Players : g.rank[q] = lv}
WithinCaps(g) == \A lv \in Ranks : Cardinality(Holders(g, lv)) <= RankCap[lv]
Capped(gs) == \A id \in Ids : gs[id] # None => WithinCaps(gs[id])

\* No holder of a rank that gs does not show, rookies apart.
Lesser(hs, gs) == \A id \in Ids : hs[id] # None =>
    /\ gs[id] # None
    /\ \A lv \in Ranks \ {GUD_ROOKIE} : Holders(hs[id], lv) \subseteq Holders(gs[id], lv)

\* A master who is on no roster is deleted and gone: nobody invites one back.
WellRanked(gs, known) ==
    Led(gs, known) /\ (\A id \in Ids : OneMaster(gs[id])) /\ Capped(gs)

RanksInv ==
    /\ WellRanked(guilds, exists \cup online)
    /\ \A i \in DOMAIN disk : Capped(disk[i].guilds)

LEMMA HoldersFinite ==
    ASSUME NEW g, NEW lv
    PROVE  IsFiniteSet(Holders(g, lv)) /\ Cardinality(Holders(g, lv)) \in Nat
<1>1. Holders(g, lv) \subseteq Players /\ IsFiniteSet(Players)
  BY GuildAssumption DEF Holders
<1>2. QED
  BY <1>1, FS_Subset, FS_CardinalityType

LEMMA MoreHolders ==
    ASSUME NEW S, NEW T, IsFiniteSet(T), S \subseteq T
    PROVE  Cardinality(S) <= Cardinality(T)
BY FS_Subset

LEMMA RookiesFit ==
    ASSUME NEW g \in Guild, Cardinality(Members(g)) <= MaxMembers
    PROVE  Cardinality(Holders(g, GUD_ROOKIE)) <= RankCap[GUD_ROOKIE]
<1>1. Holders(g, GUD_ROOKIE) \subseteq Members(g)
  BY MembersOf, RanksAreNumbers DEF Holders
<1>2. IsFiniteSet(Members(g)) /\ Cardinality(Members(g)) \in Nat
  BY FiniteMembers
<1>3. Cardinality(Holders(g, GUD_ROOKIE)) <= Cardinality(Members(g))
  BY <1>1, <1>2, MoreHolders
<1>4. RankCap[GUD_ROOKIE] = MaxMembers /\ MaxMembers \in Nat
  BY RankCapAssumption, GuildAssumption
<1>5. Cardinality(Holders(g, GUD_ROOKIE)) \in Nat
  BY HoldersFinite
<1>6. QED
  BY <1>2, <1>3, <1>4, <1>5

LEMMA OneMasterIs ==
    ASSUME NEW g \in Guild
    PROVE  OneMaster(g) <=> \A q \in Players :
               g.rank[q] = GUD_MASTER <=> q = g.master /\ g.rank[q] # None
<1>1. g # None /\ Members(g) = {p \in Players : g.rank[p] # None}
  BY MembersOf
<1>2. QED
  BY <1>1 DEF OneMaster

\* A guild with one master and with room for its rookies: the other ranks count.
LEMMA WithinCapsIf ==
    ASSUME NEW g \in Guild, OneMaster(g), Cardinality(Members(g)) <= MaxMembers,
           \A lv \in Ranks \ {GUD_MASTER, GUD_ROOKIE} : Cardinality(Holders(g, lv)) <= RankCap[lv]
    PROVE  WithinCaps(g)
<1>1. Cardinality(Holders(g, GUD_MASTER)) <= RankCap[GUD_MASTER]
  <2>1. Holders(g, GUD_MASTER) \subseteq {g.master}
    BY OneMasterIs DEF Holders
  <2>2. IsFiniteSet({g.master}) /\ Cardinality({g.master}) = 1
    BY FS_Singleton
  <2>3. Cardinality(Holders(g, GUD_MASTER)) <= 1
    BY <2>1, <2>2, MoreHolders
  <2>4. QED
    BY <2>3, RankCapAssumption
<1>2. QED
  BY <1>1, RookiesFit DEF WithinCaps

LEMMA LesserCapped ==
    ASSUME NEW gs \in Collection, NEW hs \in Collection, Lesser(hs, gs), Fits(hs), Capped(gs)
    PROVE  Capped(hs)
<1> SUFFICES ASSUME NEW id \in Ids, hs[id] # None, NEW lv \in Ranks
             PROVE  Cardinality(Holders(hs[id], lv)) <= RankCap[lv]
  BY DEF Capped, WithinCaps
<1>1. hs[id] \in Guild /\ gs[id] # None /\ Cardinality(Members(hs[id])) <= MaxMembers
  BY DEF Collection, Lesser, Fits
<1>2. CASE lv = GUD_ROOKIE
  BY <1>1, <1>2, RookiesFit
<1>3. CASE lv # GUD_ROOKIE
  <2>1. Holders(hs[id], lv) \subseteq Holders(gs[id], lv)
    BY <1>3 DEF Lesser
  <2>2. Cardinality(Holders(hs[id], lv)) <= Cardinality(Holders(gs[id], lv))
    BY <2>1, HoldersFinite, MoreHolders
  <2>3. Cardinality(Holders(gs[id], lv)) <= RankCap[lv]
    BY <1>1 DEF Capped, WithinCaps
  <2>4. /\ Cardinality(Holders(hs[id], lv)) \in Nat /\ Cardinality(Holders(gs[id], lv)) \in Nat
        /\ RankCap[lv] \in Nat
    BY HoldersFinite, GuildAssumption
  <2>5. QED
    BY <2>2, <2>3, <2>4
<1>4. QED
  BY <1>2, <1>3

LEMMA AgreesLesser ==
    ASSUME NEW t \in Image, NEW gs \in Collection, NEW ex \in SUBSET Players, Agrees(t, gs, ex)
    PROVE  t.guilds \in Collection /\ Lesser(t.guilds, gs)
<1>1. t.guilds \in Collection
  BY DEF Image, Collection
<1>2. ASSUME NEW id \in Ids, t.guilds[id] # None
      PROVE  /\ gs[id] # None
             /\ \A lv \in Ranks \ {GUD_ROOKIE} : Holders(t.guilds[id], lv) \subseteq Holders(gs[id], lv)
  <2>1. gs[id] \in Guild /\ t.guilds[id] = Visible(gs[id], ex) /\ gs[id] # None
    BY <1>2 DEF Agrees, Collection
  <2>2. t.guilds[id].rank = [p \in Players |-> IF p \in ex THEN gs[id].rank[p] ELSE None]
    BY <2>1, VisibleIs
  <2>3. QED
    BY <2>1, <2>2, RanksAreNumbers DEF Holders
<1>3. QED
  BY <1>1, <1>2 DEF Lesser

\* The last image shows what the memory has.
LEMMA DiskCapped ==
    ASSUME NEW d, NEW gs \in Collection, NEW ex \in SUBSET Players, NEW n,
           History(d, ex, n), Agrees(Last(d), gs, ex), Capped(gs),
           \A i \in DOMAIN d : i # Len(d) => Capped(d[i].guilds)
    PROVE  \A i \in DOMAIN d : Capped(d[i].guilds)
<1>1. d \in Seq(Image) /\ d # << >>
  BY DEF History
<1>2. Last(d) \in Image /\ Len(d) \in DOMAIN d
  BY <1>1, LastOf
<1>3. Fits(Last(d).guilds)
  BY <1>2 DEF History, Proper, Sane, Last
<1>4. Capped(Last(d).guilds)
  BY <1>2, <1>3, AgreesLesser, LesserCapped
<1>5. QED
  BY <1>4 DEF Last

LEMMA InvariantNext ==
    ASSUME IInv'
    PROVE  /\ exists' \in SUBSET Players /\ guilds' \in Collection /\ Fits(guilds')
           /\ disk' \in Seq(Image) /\ disk' # << >>
           /\ History(disk', exists', nextId') /\ Agrees(Last(disk'), guilds', exists')
BY DEF IInv, TypeOK, Live, Durable, Tables, Last, Collection, Sane

\* A handler that leaves one guild well ranked, and whose earlier images show
\* what the tables showed, keeps the ranks.
LEMMA RanksSettled ==
    ASSUME IInv', WellRanked(guilds', exists' \cup online'),
           \A i \in DOMAIN disk' : i # Len(disk') => Capped(disk'[i].guilds)
    PROVE  RanksInv'
BY InvariantNext, DiskCapped DEF RanksInv, WellRanked

LEMMA MemoryRanked ==
    ASSUME IInv, IInv', RanksInv, NEW id \in Ids, NEW h \in Guild,
           guilds' = [guilds EXCEPT ![id] = h], UNCHANGED session,
           h.master \in Members(h) \/ h.master \notin exists \cup online, OneMaster(h),
           \A lv \in Ranks \ {GUD_MASTER, GUD_ROOKIE} : Cardinality(Holders(h, lv)) <= RankCap[lv]
    PROVE  WellRanked(guilds', exists' \cup online')
<1>1. guilds \in Collection /\ guilds'[id] = h /\ \A x \in Ids : x # id => guilds'[x] = guilds[x]
  BY InvariantIs DEF Collection
<1>2. Cardinality(Members(h)) <= MaxMembers
  BY <1>1, InvariantNext DEF Fits
<1>3. WithinCaps(h)
  BY <1>2, WithinCapsIf
<1>4. QED
  BY <1>1, <1>3 DEF RanksInv, WellRanked, Capped, Led, session

\* The images a queue gains.
LEMMA Queued ==
    ASSUME NEW d \in Seq(Image), NEW a, NEW b, NEW c, NEW e,
           e \in {d \o <<a>>, d \o <<a, b>>, d \o <<a, b, c>>}
    PROVE  /\ Len(d) \in Nat /\ DOMAIN d = 1 .. Len(d)
           /\ e = d \o <<a>> => Len(e) = Len(d) + 1
           /\ e = d \o <<a, b>> => Len(e) = Len(d) + 2 /\ e[Len(d) + 1] = a
           /\ e = d \o <<a, b, c>> => Len(e) = Len(d) + 3 /\ e[Len(d) + 1] = a /\ e[Len(d) + 2] = b
           /\ DOMAIN e = 1 .. Len(e) /\ \A i \in 1 .. Len(d) : e[i] = d[i]
<1> DEFINE S == Image \cup {a, b, c}
<1>1. d \in Seq(S) /\ <<a>> \in Seq(S) /\ <<a, b>> \in Seq(S) /\ <<a, b, c>> \in Seq(S)
  OBVIOUS
<1> HIDE DEF S
<1>2. Len(d) \in Nat /\ DOMAIN d = 1 .. Len(d)
  OBVIOUS
<1>3. ASSUME e = d \o <<a>>
      PROVE  Len(e) = Len(d) + 1 /\ DOMAIN e = 1 .. Len(e) /\ \A i \in 1 .. Len(d) : e[i] = d[i]
  BY <1>1, <1>3
<1>4. ASSUME e = d \o <<a, b>>
      PROVE  /\ Len(e) = Len(d) + 2 /\ DOMAIN e = 1 .. Len(e) /\ \A i \in 1 .. Len(d) : e[i] = d[i]
             /\ e[Len(d) + 1] = a
  BY <1>1, <1>4
<1>5. ASSUME e = d \o <<a, b, c>>
      PROVE  /\ Len(e) = Len(d) + 3 /\ DOMAIN e = 1 .. Len(e) /\ \A i \in 1 .. Len(d) : e[i] = d[i]
             /\ e[Len(d) + 1] = a /\ e[Len(d) + 2] = b
  BY <1>1, <1>5
<1>6. QED
  BY <1>2, <1>3, <1>4, <1>5

\* Handlers that issue one statement.
LEMMA OneIssued ==
    ASSUME IInv, IInv', RanksInv, WellRanked(guilds', exists' \cup online'),
           NEW a, disk' = disk \o <<a>>
    PROVE  RanksInv'
<1>1. disk \in Seq(Image)
  BY InvariantIs
<1>2. /\ Len(disk) \in Nat /\ DOMAIN disk = 1 .. Len(disk) /\ Len(disk') = Len(disk) + 1
      /\ DOMAIN disk' = 1 .. Len(disk') /\ \A i \in 1 .. Len(disk) : disk'[i] = disk[i]
  BY <1>1, Queued
<1>4. \A i \in DOMAIN disk' : i # Len(disk') => i \in DOMAIN disk /\ disk'[i] = disk[i]
  BY <1>2
<1>3. QED
  BY <1>4, RanksSettled DEF RanksInv

\* Handlers that issue a lockout first, which leaves the rosters alone.
LEMMA TwoIssued ==
    ASSUME IInv, IInv', RanksInv, WellRanked(guilds', exists' \cup online'),
           NEW a, NEW b, disk' = disk \o <<a, b>>, a.guilds = Tables.guilds
    PROVE  RanksInv'
<1>1. disk \in Seq(Image) /\ Len(disk) \in DOMAIN disk /\ Tables = disk[Len(disk)]
  BY InvariantIs, LastOf DEF Tables
<1>2. Capped(a.guilds)
  BY <1>1 DEF RanksInv
<1>3. /\ Len(disk) \in Nat /\ DOMAIN disk = 1 .. Len(disk) /\ Len(disk') = Len(disk) + 2
      /\ DOMAIN disk' = 1 .. Len(disk') /\ \A i \in 1 .. Len(disk) : disk'[i] = disk[i]
      /\ disk'[Len(disk) + 1] = a
  BY <1>1, Queued
<1>4. \A i \in DOMAIN disk' : i # Len(disk') =>
          \/ i \in DOMAIN disk /\ disk'[i] = disk[i]
          \/ disk'[i] = a
  BY <1>3
<1>5. QED
  BY <1>2, <1>4, RanksSettled DEF RanksInv

LEMMA StillRanked ==
    ASSUME RanksInv, UNCHANGED guilds, disk' = disk,
           exists' \cup online' \subseteq exists \cup online
    PROVE  RanksInv'
BY DEF RanksInv, WellRanked, Led

LEMMA CreateRanked ==
    ASSUME IInv, IInv', RanksInv, NEW p \in Players, NEW n \in Names, Create(p, n)
    PROVE  RanksInv'
<1> DEFINE h == NewGuild(p, n)
<1>1. /\ nextId \in Ids /\ guilds' = [guilds EXCEPT ![nextId] = h]
      /\ disk' = disk \o <<RowsCreated(Tables, nextId, h)>> /\ UNCHANGED session
  <2>1. nextId \in 1 .. (MaxId + 1) /\ nextId <= MaxId /\ MaxId \in Nat
    BY GuildAssumption DEF Create, IInv, TypeOK
  <2>2. QED
    BY <2>1 DEF Create, Issue, Ids
<1>2. /\ h \in Guild /\ h.master = p
      /\ \A q \in Players : h.rank[q] = IF q = p THEN GUD_MASTER ELSE None
  BY NewGuildIs DEF NewGuild
<1> HIDE DEF h
<1>3. OneMaster(h) /\ h.master \in Members(h)
  BY <1>2, OneMasterIs, MembersOf, RanksAreNumbers
<1>4. ASSUME NEW lv \in Ranks \ {GUD_MASTER, GUD_ROOKIE}
      PROVE  Cardinality(Holders(h, lv)) <= RankCap[lv]
  <2>1. Holders(h, lv) = {}
    BY <1>2, RanksAreNumbers DEF Holders
  <2>2. Cardinality(Holders(h, lv)) = 0 /\ RankCap[lv] \in Nat
    BY <2>1, FS_EmptySet, GuildAssumption
  <2>3. QED
    BY <2>2
<1>5. QED
  BY <1>1, <1>2, <1>3, <1>4, MemoryRanked, OneIssued

\* A guild with the ranks and the master it had.
LEMMA SameRanked ==
    ASSUME IInv, IInv', RanksInv, NEW id \in Ids, guilds[id] # None, NEW h \in Guild,
           h.rank = guilds[id].rank, h.master = guilds[id].master,
           guilds' = [guilds EXCEPT ![id] = h], UNCHANGED session
    PROVE  WellRanked(guilds', exists' \cup online')
<1>1. /\ guilds[id] \in Guild /\ OneMaster(guilds[id]) /\ WithinCaps(guilds[id])
      /\ guilds[id].master \in Members(guilds[id]) \/ guilds[id].master \notin exists \cup online
  BY InvariantIs DEF Collection, RanksInv, WellRanked, Capped, Led
<1>2. OneMaster(h) /\ (h.master \in Members(h) \/ h.master \notin exists \cup online)
  BY <1>1, OneMasterIs, MembersOf
<1>3. \A lv \in Ranks : Cardinality(Holders(h, lv)) <= RankCap[lv]
  BY <1>1 DEF WithinCaps, Holders
<1>4. QED
  BY <1>2, <1>3, MemoryRanked

LEMMA SettingRanked ==
    ASSUME IInv, IInv', RanksInv, SettingStep
    PROVE  RanksInv'
<1>1. ASSUME NEW p \in Players, NEW id \in Ids, NEW n \in Names, Rename(p, id, n) PROVE RanksInv'
  <2> DEFINE h == [guilds[id] EXCEPT !.name = n]
  <2>1. guilds[id] \in Guild /\ guilds[id] # None
    BY <1>1, MayActIs, MembersOf DEF Rename
  <2>2. h \in Guild /\ h.rank = guilds[id].rank /\ h.master = guilds[id].master
    BY <2>1 DEF Guild
  <2>3. /\ guilds' = [guilds EXCEPT ![id] = h]
        /\ disk' = disk \o <<RowPatched(Tables, id, h)>>
        /\ UNCHANGED session
    BY <1>1 DEF Rename, Issue
  <2> HIDE DEF h
  <2>4. QED
    BY <2>1, <2>2, <2>3, SameRanked, OneIssued
<1>2. ASSUME NEW p \in Players, NEW id \in Ids, NEW mask \in Masks, SetAuthority(p, id, mask)
      PROVE  RanksInv'
  <2> DEFINE h == [guilds[id] EXCEPT !.power = Authority(mask)]
  <2>1. guilds[id] \in Guild /\ guilds[id] # None
    BY <1>2, MayActIs, MembersOf DEF SetAuthority
  <2>2. Authority(mask) \in [Ranks -> SUBSET Powers]
    BY GuildAssumption DEF Authority
  <2>3. h \in Guild /\ h.rank = guilds[id].rank /\ h.master = guilds[id].master
    BY <2>1, <2>2 DEF Guild
  <2>4. /\ guilds' = [guilds EXCEPT ![id] = h]
        /\ disk' = disk \o <<RowPatched(Tables, id, h)>>
        /\ UNCHANGED session
    BY <1>2 DEF SetAuthority, Issue
  <2> HIDE DEF h
  <2>5. QED
    BY <2>1, <2>3, <2>4, SameRanked, OneIssued
<1>3. QED
  BY <1>1, <1>2 DEF SettingStep

LEMMA DestroyRanked ==
    ASSUME IInv, IInv', RanksInv, NEW p \in Players, NEW id \in Ids, Destroy(p, id)
    PROVE  RanksInv'
<1> DEFINE a == LockedOut(Tables, Members(guilds[id]))
<1>1. /\ id \in Ids /\ guilds' = [guilds EXCEPT ![id] = None]
      /\ disk' = disk \o <<a, RowRemoved(a, id)>> /\ UNCHANGED session
  BY DEF Destroy, Issue
<1>2. a.guilds = Tables.guilds
  BY InvariantIs, LockedOutIs DEF Members
<1>3. guilds \in Collection
  BY InvariantIs
<1>4. \A x \in Ids : guilds'[x] = None \/ guilds'[x] = guilds[x]
  BY <1>1, <1>3 DEF Collection
<1>5. WellRanked(guilds', exists' \cup online')
  BY <1>1, <1>4 DEF RanksInv, WellRanked, Capped, Led, OneMaster, session
<1> HIDE DEF a
<1>6. QED
  BY <1>1, <1>2, <1>5, TwoIssued

LEMMA AcceptRanked ==
    ASSUME IInv, IInv', RanksInv, NEW t \in Players, Accept(t)
    PROVE  RanksInv'
<1> DEFINE id == pending[t].guild
           g == guilds[id]
           h == Reranked(g, t, GUD_ROOKIE)
<1>1. /\ t \in online /\ pending[t] # None /\ g # None /\ GuildsOf(t) = {}
      /\ guilds' = [guilds EXCEPT ![id].rank[t] = GUD_ROOKIE]
      /\ disk' = disk \o <<MemberAdded(Tables, id, t)>> /\ UNCHANGED session
  BY DEF Accept, Acceptable, IsGuild, Issue
<1>2. id \in Ids /\ guilds \in Collection
  BY <1>1, InvariantIs DEF Invitation
<1> HIDE DEF id
<1>3. g \in Guild /\ t \notin Members(g)
  BY <1>1, <1>2 DEF Collection, GuildsOf
<1>4. guilds' = [guilds EXCEPT ![id] = h]
  BY <1>1 DEF Reranked
<1>5. /\ OneMaster(g) /\ WithinCaps(g)
      /\ g.master \in Members(g) \/ g.master \notin exists \cup online
  BY <1>1, <1>2 DEF RanksInv, WellRanked, Capped, Led
<1> HIDE DEF g
<1>6. /\ h \in Guild /\ h.rank = [g.rank EXCEPT ![t] = GUD_ROOKIE] /\ h.master = g.master
      /\ Members(h) = Members(g) \cup {t}
  BY <1>3, RerankedIs, RanksAreNumbers
<1> HIDE DEF h
<1>7. \A q \in Players : h.rank[q] = IF q = t THEN GUD_ROOKIE ELSE g.rank[q]
  BY <1>3, <1>6 DEF Guild
<1>8. g.rank[t] = None /\ g.master # t
  BY <1>1, <1>3, <1>5, MembersOf
<1>9. OneMaster(h)
  <2>1. \A q \in Players : g.rank[q] = GUD_MASTER <=> q = g.master /\ g.rank[q] # None
    BY <1>3, <1>5, OneMasterIs
  <2>2. GUD_ROOKIE # GUD_MASTER
    BY DEF GUD_ROOKIE, GUD_MASTER
  <2>3. \A q \in Players : h.rank[q] = GUD_MASTER <=> q = h.master /\ h.rank[q] # None
    BY <1>6, <1>7, <1>8, <2>1, <2>2
  <2>4. QED
    BY <1>6, <2>3, OneMasterIs
<1>10. ASSUME NEW lv \in Ranks \ {GUD_MASTER, GUD_ROOKIE}
       PROVE  Cardinality(Holders(h, lv)) <= RankCap[lv]
  <2>1. Holders(h, lv) = Holders(g, lv)
    BY <1>7, <1>8, RanksAreNumbers DEF Holders
  <2>2. QED
    BY <1>5, <2>1 DEF WithinCaps
<1>11. WellRanked(guilds', exists' \cup online')
  BY <1>1, <1>2, <1>4, <1>5, <1>6, <1>9, <1>10, MemoryRanked
<1>12. QED
  BY <1>1, <1>11, OneIssued

\* A guild with one place set or emptied, neither of them the master's.
LEMMA OtherRanked ==
    ASSUME NEW g \in Guild, OneMaster(g), WithinCaps(g), NEW t \in Players, t # g.master,
           NEW lv \in Ranks \cup {None}, lv # GUD_MASTER,
           lv \in Ranks => Cardinality(Holders(g, lv)) + 1 <= RankCap[lv],
           NEW known, g.master \in Members(g) \/ g.master \notin known
    PROVE  LET h == Reranked(g, t, lv) IN
           /\ h \in Guild /\ OneMaster(h) /\ (h.master \in Members(h) \/ h.master \notin known)
           /\ \A l \in Ranks : Cardinality(Holders(h, l)) <= RankCap[l]
<1> DEFINE h == Reranked(g, t, lv)
<1>1. /\ h \in Guild /\ h.rank = [g.rank EXCEPT ![t] = lv] /\ h.master = g.master
      /\ Members(h) = IF lv = None THEN Members(g) \ {t} ELSE Members(g) \cup {t}
  BY RerankedIs
<1> HIDE DEF h
<1>2. \A q \in Players : h.rank[q] = IF q = t THEN lv ELSE g.rank[q]
  BY <1>1 DEF Guild
<1>3. OneMaster(h)
  <2>1. \A q \in Players : g.rank[q] = GUD_MASTER <=> q = g.master /\ g.rank[q] # None
    BY OneMasterIs
  <2>2. \A q \in Players : h.rank[q] = GUD_MASTER <=> q = h.master /\ h.rank[q] # None
    BY <1>1, <1>2, <2>1
  <2>3. QED
    BY <1>1, <2>2, OneMasterIs
<1>4. ASSUME NEW l \in Ranks PROVE Cardinality(Holders(h, l)) <= RankCap[l]
  <2>1. /\ IsFiniteSet(Holders(g, l)) /\ Cardinality(Holders(g, l)) \in Nat
        /\ Cardinality(Holders(h, l)) \in Nat /\ RankCap[l] \in Nat
        /\ Cardinality(Holders(g, l)) <= RankCap[l]
    BY HoldersFinite, GuildAssumption DEF WithinCaps
  <2>2. CASE l = lv
    <3>1. Holders(h, l) \subseteq Holders(g, l) \cup {t}
      BY <1>2 DEF Holders
    <3>2. /\ IsFiniteSet(Holders(g, l) \cup {t})
          /\ Cardinality(Holders(g, l) \cup {t}) =
                IF t \in Holders(g, l) THEN Cardinality(Holders(g, l)) ELSE Cardinality(Holders(g, l)) + 1
      BY <2>1, FS_AddElement
    <3>3. Cardinality(Holders(h, l)) <= Cardinality(Holders(g, l) \cup {t})
      BY <3>1, <3>2, MoreHolders
    <3>4. Cardinality(Holders(g, l) \cup {t}) \in Nat
      BY <3>2, FS_CardinalityType
    <3>5. Cardinality(Holders(g, l)) + 1 <= RankCap[l]
      BY <2>2
    <3>6. QED
      BY <2>1, <3>2, <3>3, <3>4, <3>5
  <2>3. CASE l # lv
    <3>1. Holders(h, l) \subseteq Holders(g, l)
      BY <1>2, <2>3 DEF Holders
    <3>2. Cardinality(Holders(h, l)) <= Cardinality(Holders(g, l))
      BY <2>1, <3>1, MoreHolders
    <3>3. QED
      BY <2>1, <3>2
  <2>4. QED
    BY <2>2, <2>3
<1>5. h.master \in Members(h) \/ h.master \notin known
  BY <1>1
<1>6. QED
  BY <1>1, <1>3, <1>4, <1>5 DEF h

\* What the ranks of a guild in memory are.
LEMMA RankedGuild ==
    ASSUME IInv, RanksInv, NEW p \in Players, NEW id, MayAct(p, id)
    PROVE  /\ id \in Ids /\ guilds[id] \in Guild /\ guilds[id] # None /\ p \in Members(guilds[id])
           /\ OneMaster(guilds[id]) /\ WithinCaps(guilds[id])
           /\ guilds[id].master \in Members(guilds[id]) \/ guilds[id].master \notin exists \cup online
<1>1. id \in Ids /\ guilds[id] \in Guild /\ p \in Members(guilds[id])
  BY MayActIs
<1>2. guilds[id] # None
  BY <1>1, MembersOf
<1>3. QED
  BY <1>1, <1>2 DEF RanksInv, WellRanked, Capped, Led

LEMMA LeaveOrKickRanked ==
    ASSUME IInv, IInv', RanksInv, NEW p \in Players, NEW t \in Players, NEW id \in Ids,
           LeaveOrKick(p, id, t)
    PROVE  RanksInv'
<1> DEFINE g == guilds[id]
           h == Reranked(g, t, None)
           a == LockedOut(Tables, {t})
<1>1. /\ MayAct(p, id) /\ MayRemove(p, id, t)
      /\ guilds' = [guilds EXCEPT ![id].rank[t] = None]
      /\ disk' = disk \o <<a, MemberRemoved(a, t)>> /\ UNCHANGED session
  BY DEF LeaveOrKick, Issue, RemovedRows
<1>2. /\ g \in Guild /\ g # None /\ OneMaster(g) /\ WithinCaps(g) /\ p \in Members(g)
      /\ g.master \in Members(g) \/ g.master \notin exists \cup online
  BY <1>1, RankedGuild
<1>3. t # g.master
  BY <1>1 DEF MayRemove, IsMaster
<1>4. guilds' = [guilds EXCEPT ![id] = h]
  BY <1>1, <1>2 DEF Reranked
<1>5. a.guilds = Tables.guilds
  BY InvariantIs, LockedOutIs
<1> HIDE DEF g
<1>6. None \notin Ranks /\ None # GUD_MASTER
  BY RanksAreNumbers
<1>7. /\ h \in Guild /\ OneMaster(h) /\ (h.master \in Members(h) \/ h.master \notin exists \cup online)
      /\ \A lv \in Ranks : Cardinality(Holders(h, lv)) <= RankCap[lv]
  BY <1>2, <1>3, <1>6, OtherRanked
<1> HIDE DEF h, a
<1>8. WellRanked(guilds', exists' \cup online')
  BY <1>1, <1>4, <1>7, MemoryRanked
<1>9. QED
  BY <1>1, <1>5, <1>8, TwoIssued

LEMMA SetMemberLevelRanked ==
    ASSUME IInv, IInv', RanksInv, NEW p \in Players, NEW t \in Players, NEW id \in Ids,
           NEW lv \in Ranks, SetMemberLevel(p, id, t, lv)
    PROVE  RanksInv'
<1> DEFINE g == guilds[id]
           h == Reranked(g, t, lv)
<1>1. /\ MayAct(p, id) /\ t \in Members(g)
      /\ g.rank[p] < g.rank[t] /\ g.rank[p] < lv
      /\ Cardinality(Holders(g, lv)) + 1 <= RankCap[lv]
      /\ guilds' = [guilds EXCEPT ![id].rank[t] = lv]
      /\ disk' = disk \o <<MemberPatched(Tables, t, lv)>> /\ UNCHANGED session
  BY DEF SetMemberLevel, Outranks, RankCount, Holders, Issue
<1>2. /\ g \in Guild /\ g # None /\ OneMaster(g) /\ WithinCaps(g) /\ p \in Members(g)
      /\ g.master \in Members(g) \/ g.master \notin exists \cup online
  BY <1>1, RankedGuild
<1>3. guilds' = [guilds EXCEPT ![id] = h]
  BY <1>1, <1>2 DEF Reranked
<1> HIDE DEF g
<1>4. t # g.master /\ lv # GUD_MASTER
  <2>1. g.rank[p] \in Ranks /\ g.rank[t] \in Ranks
    BY <1>1, <1>2, MembersOf DEF Guild
  <2>2. \A l \in Ranks : l \in Int /\ l >= 0
    BY GuildAssumption DEF GUD_MASTER, GUD_ROOKIE
  <2>3. g.rank[t] # GUD_MASTER /\ lv # GUD_MASTER
    BY <1>1, <2>1, <2>2 DEF GUD_MASTER
  <2>4. QED
    BY <1>2, <2>1, <2>3, OneMasterIs, RanksAreNumbers
<1>5. /\ h \in Guild /\ OneMaster(h) /\ (h.master \in Members(h) \/ h.master \notin exists \cup online)
      /\ \A l \in Ranks : Cardinality(Holders(h, l)) <= RankCap[l]
  BY <1>1, <1>2, <1>4, OtherRanked
<1> HIDE DEF h
<1>6. WellRanked(guilds', exists' \cup online')
  BY <1>1, <1>3, <1>5, MemoryRanked
<1>7. QED
  BY <1>1, <1>6, OneIssued

\* The images of a changeMaster: the row has the new master, then the old master
\* is a rookie, then the new one has the rank.
LEMMA RowLesser ==
    ASSUME NEW t \in Image, NEW id \in Ids, NEW g \in Guild
    PROVE  Lesser(RowPatched(t, id, g).guilds, t.guilds)
<1> DEFINE u == RowPatched(t, id, g)
<1>1. /\ \A other \in Ids \ {id} : u.guilds[other] = t.guilds[other]
      /\ IF t.guilds[id] = None THEN u.guilds[id] = None
         ELSE u.guilds[id] = [g EXCEPT !.rank = t.guilds[id].rank]
  BY RowPatchedIs
<1>2. t.guilds[id] # None => u.guilds[id].rank = t.guilds[id].rank
  <2>1. SUFFICES ASSUME t.guilds[id] # None PROVE u.guilds[id].rank = t.guilds[id].rank
    OBVIOUS
  <2>2. t.guilds[id].rank \in [Players -> Ranks \cup {None}]
    BY <2>1 DEF Image, Guild
  <2> DEFINE r == t.guilds[id].rank
  <2> HIDE DEF r
  <2>3. [g EXCEPT !.rank = r].rank = r
    BY <2>2, RanksReplaced DEF r
  <2>4. QED
    BY <1>1, <2>1, <2>3 DEF r
<1> HIDE DEF u
<1>3. \A x \in Ids : u.guilds[x] # None => t.guilds[x] # None /\ u.guilds[x].rank = t.guilds[x].rank
  BY <1>1, <1>2
<1>4. Lesser(u.guilds, t.guilds)
  BY <1>3 DEF Lesser, Holders
<1>5. QED
  BY <1>4 DEF u

LEMMA DemotedLesser ==
    ASSUME NEW t \in Image, NEW p \in Players
    PROVE  Lesser(MemberPatched(t, p, GUD_ROOKIE).guilds, t.guilds)
<1> DEFINE u == MemberPatched(t, p, GUD_ROOKIE)
<1>1. \A id \in Ids : u.guilds[id] = IF p \in Members(t.guilds[id])
                      THEN Reranked(t.guilds[id], p, GUD_ROOKIE) ELSE t.guilds[id]
  BY MemberPatchedIs, RanksAreNumbers
<1> HIDE DEF u
<1>2. ASSUME NEW id \in Ids, u.guilds[id] # None
      PROVE  /\ t.guilds[id] # None
             /\ \A lv \in Ranks \ {GUD_ROOKIE} :
                    Holders(u.guilds[id], lv) \subseteq Holders(t.guilds[id], lv)
  <2>1. CASE p \notin Members(t.guilds[id])
    BY <1>1, <1>2, <2>1
  <2>2. CASE p \in Members(t.guilds[id])
    <3>1. t.guilds[id] \in Guild /\ t.guilds[id] # None
      BY <2>2, NoMembers DEF Image
    <3>2. u.guilds[id].rank = [t.guilds[id].rank EXCEPT ![p] = GUD_ROOKIE]
      BY <1>1, <2>2, <3>1, RerankedIs, RanksAreNumbers
    <3>3. t.guilds[id].rank \in [Players -> Ranks \cup {None}]
      BY <3>1 DEF Guild
    <3>4. QED
      BY <3>1, <3>2, <3>3 DEF Holders
  <2>3. QED
    BY <2>1, <2>2
<1>3. Lesser(u.guilds, t.guilds)
  BY <1>2 DEF Lesser
<1>4. QED
  BY <1>3 DEF u

LEMMA ImageFits ==
    ASSUME IInv, NEW i \in DOMAIN disk
    PROVE  disk[i] \in Image /\ disk[i].guilds \in Collection /\ Fits(disk[i].guilds)
<1>1. disk[i] \in Image
  BY InvariantIs
<1>2. QED
  BY <1>1 DEF IInv, Durable, History, Proper, Sane, Image, Collection

LEMMA ChangeMasterRanked ==
    ASSUME IInv, IInv', RanksInv, NEW p \in Players, NEW t \in Players, NEW id \in Ids,
           ChangeMaster(p, id, t)
    PROVE  RanksInv'
<1> DEFINE g == guilds[id]
           g1 == [g EXCEPT !.master = t]
           r == HandedOver(g.rank, p, t)
           h == [g1 EXCEPT !.rank = r]
           t1 == RowPatched(Tables, id, g1)
           t2 == MemberPatched(t1, p, GUD_ROOKIE)
           t3 == MemberPatched(t2, t, GUD_MASTER)
<1>1. /\ MayAct(p, id) /\ t \in Members(g) /\ p # t /\ g.master = p /\ UNCHANGED session
      /\ disk' = disk \o <<t1, t2, t3>>
  BY DEF ChangeMaster, IsMaster, Issue
<1>2. /\ g \in Guild /\ g # None /\ OneMaster(g) /\ WithinCaps(g) /\ p \in Members(g)
  BY <1>1, RankedGuild
<1> HIDE DEF g
<1>3. g1 \in Guild /\ g1.master = t /\ g1.rank = g.rank
  BY <1>2 DEF Guild
<1>4. guilds' = [guilds EXCEPT ![id] = h]
  BY <1>3 DEF ChangeMaster, g
<1> HIDE DEF g1
<1>5. /\ r \in [Players -> Ranks \cup {None}]
      /\ \A q \in Players : r[q] = IF q = t THEN GUD_MASTER ELSE IF q = p THEN GUD_ROOKIE ELSE g.rank[q]
  <2>1. g.rank \in [Players -> Ranks \cup {None}]
    BY <1>2 DEF Guild
  <2>2. QED
    BY <1>1, <2>1, RanksAreNumbers DEF HandedOver
<1> HIDE DEF r
<1>6. h \in Guild /\ h.rank = r /\ h.master = t
  BY <1>3, <1>5, RanksReplaced
<1> HIDE DEF h
<1>7. OneMaster(h) /\ h.master \in Members(h)
  <2>1. \A q \in Players : g.rank[q] = GUD_MASTER <=> q = g.master /\ g.rank[q] # None
    BY <1>2, OneMasterIs
  <2>2. GUD_ROOKIE # GUD_MASTER /\ GUD_MASTER # None /\ GUD_ROOKIE # None
    BY RanksAreNumbers DEF GUD_ROOKIE, GUD_MASTER
  <2>3. \A q \in Players : h.rank[q] = GUD_MASTER <=> q = h.master /\ h.rank[q] # None
    BY <1>1, <1>5, <1>6, <2>1, <2>2
  <2>4. h.rank[t] # None
    BY <1>5, <1>6, <2>2
  <2>5. QED
    BY <1>6, <2>3, <2>4, OneMasterIs, MembersOf
<1>8. ASSUME NEW lv \in Ranks \ {GUD_MASTER, GUD_ROOKIE}
      PROVE  Cardinality(Holders(h, lv)) <= RankCap[lv]
  <2>1. Holders(h, lv) \subseteq Holders(g, lv)
    BY <1>5, <1>6 DEF Holders
  <2>2. /\ IsFiniteSet(Holders(g, lv)) /\ Cardinality(Holders(g, lv)) \in Nat
        /\ Cardinality(Holders(h, lv)) \in Nat /\ RankCap[lv] \in Nat
        /\ Cardinality(Holders(g, lv)) <= RankCap[lv]
    BY <1>2, HoldersFinite, GuildAssumption DEF WithinCaps
  <2>3. Cardinality(Holders(h, lv)) <= Cardinality(Holders(g, lv))
    BY <2>1, <2>2, MoreHolders
  <2>4. QED
    BY <2>2, <2>3
<1>9. WellRanked(guilds', exists' \cup online')
  BY <1>1, <1>4, <1>6, <1>7, <1>8, MemoryRanked
<1>10. Tables \in Image /\ Tables = disk[Len(disk)] /\ Len(disk) \in DOMAIN disk /\ disk \in Seq(Image)
  BY InvariantIs, LastOf DEF Tables
<1>11. t1 \in Image /\ Lesser(t1.guilds, Tables.guilds)
  BY <1>3, <1>10, RowPatchedIs, RowLesser
<1> HIDE DEF t1
<1>12. t2 \in Image /\ Lesser(t2.guilds, t1.guilds)
  BY <1>11, MemberPatchedIs, DemotedLesser, RanksAreNumbers
<1> HIDE DEF t2, t3
<1>13. /\ Len(disk) \in Nat /\ DOMAIN disk = 1 .. Len(disk) /\ Len(disk') = Len(disk) + 3
       /\ DOMAIN disk' = 1 .. Len(disk') /\ \A i \in 1 .. Len(disk) : disk'[i] = disk[i]
       /\ disk'[Len(disk) + 1] = t1 /\ disk'[Len(disk) + 2] = t2
  BY <1>1, <1>10, Queued
<1>14. Fits(t1.guilds) /\ Fits(t2.guilds)
  <2>1. Len(disk) + 1 \in DOMAIN disk' /\ Len(disk) + 2 \in DOMAIN disk'
    BY <1>13
  <2>2. \A i \in DOMAIN disk' : Fits(disk'[i].guilds)
    BY InvariantNext DEF History, Proper, Sane
  <2>3. QED
    BY <1>13, <2>1, <2>2
<1>15. Capped(t1.guilds) /\ Capped(t2.guilds)
  <2>1. /\ Tables.guilds \in Collection /\ t1.guilds \in Collection /\ t2.guilds \in Collection
        /\ Capped(Tables.guilds)
    BY <1>10, <1>11, <1>12 DEF Image, Collection, RanksInv
  <2>2. Capped(t1.guilds)
    BY <1>11, <1>14, <2>1, LesserCapped
  <2>3. QED
    BY <1>12, <1>14, <2>1, <2>2, LesserCapped
<1>16. \A i \in DOMAIN disk' : i # Len(disk') =>
          \/ i \in DOMAIN disk /\ disk'[i] = disk[i]
          \/ disk'[i] = t1 \/ disk'[i] = t2
  BY <1>13
<1>17. QED
  BY <1>9, <1>15, <1>16, RanksSettled DEF RanksInv

\* A character deleted: its rows go, the memory does not know.
LEMMA DeleteRanked ==
    ASSUME IInv, IInv', RanksInv, NEW p \in Players, DeleteCharacter(p)
    PROVE  RanksInv'
<1>1. /\ exists' = exists \ {p} /\ disk' = [i \in DOMAIN disk |-> Purged(disk[i], p)]
      /\ UNCHANGED <<online, guilds>>
  BY DEF DeleteCharacter, rosters
<1>2. WellRanked(guilds', exists' \cup online')
  BY <1>1 DEF RanksInv, WellRanked, Led
<1>3. ASSUME NEW i \in DOMAIN disk PROVE Capped(Purged(disk[i], p).guilds)
  <2> DEFINE t == disk[i]
             u == Purged(disk[i], p)
  <2>1. t \in Image /\ t.guilds \in Collection /\ Capped(t.guilds)
    BY <1>3, ImageFits DEF RanksInv
  <2>2. /\ u \in Image
        /\ \A id \in Ids : u.guilds[id] = IF t.guilds[id] = None \/ id \in Refused(p) THEN None
                                          ELSE Reranked(t.guilds[id], p, None)
    BY <2>1, PurgedIs
  <2>3. Fits(u.guilds)
    BY <1>1, <1>3, InvariantNext DEF History, Proper, Sane
  <2> HIDE DEF t, u
  <2>4. ASSUME NEW id \in Ids, u.guilds[id] # None
        PROVE  /\ t.guilds[id] # None
               /\ \A lv \in Ranks \ {GUD_ROOKIE} :
                      Holders(u.guilds[id], lv) \subseteq Holders(t.guilds[id], lv)
    <3>1. u.guilds[id] = Reranked(t.guilds[id], p, None) /\ t.guilds[id] # None
      BY <2>2, <2>4
    <3>2. t.guilds[id] \in Guild
      BY <2>1, <3>1 DEF Collection
    <3>3. u.guilds[id].rank = [t.guilds[id].rank EXCEPT ![p] = None]
      BY <3>1, <3>2, RerankedIs
    <3>4. t.guilds[id].rank \in [Players -> Ranks \cup {None}]
      BY <3>2 DEF Guild
    <3>5. \A q \in Players, lv \in Ranks : u.guilds[id].rank[q] = lv => t.guilds[id].rank[q] = lv
      BY <3>3, <3>4, RanksAreNumbers
    <3>6. QED
      BY <3>1, <3>5 DEF Holders
  <2>5. Lesser(u.guilds, t.guilds) /\ u.guilds \in Collection
    BY <2>2, <2>4 DEF Lesser, Image, Collection
  <2>6. Capped(u.guilds)
    BY <2>1, <2>3, <2>5, LesserCapped
  <2>7. QED
    BY <2>6 DEF u
<1>4. \A i \in DOMAIN disk' : Capped(disk'[i].guilds)
  BY <1>1, <1>3
<1>5. QED
  BY <1>2, <1>4 DEF RanksInv

LEMMA HydratedRanks ==
    ASSUME NEW g \in Guild
    PROVE  Hydrated(g) \in Guild /\ Hydrated(g).rank = g.rank /\ Hydrated(g).master = g.master
<1> DEFINE m == Authority(g.power)
<1>1. m \in [Ranks -> SUBSET Powers]
  BY DEF Authority, Guild
<1>2. Hydrated(g) = [g EXCEPT !.power = m]
  BY MembersOf DEF Hydrated
<1> HIDE DEF m
<1>3. QED
  BY <1>1, <1>2 DEF Guild

\* A restart that finds one master in every guild.
LEMMA RestartRanked ==
    ASSUME IInv, IInv', RanksInv, Restart, \A id \in Ids : OneMaster(disk[1].guilds[id])
    PROVE  RanksInv'
<1> DEFINE t == disk[1]
<1>1. /\ guilds' = [id \in Ids |-> Hydrated(t.guilds[id])] /\ disk' = <<t>>
      /\ online' = {} /\ exists' = exists
  BY DEF Restart, Hydrate
<1>2. /\ t \in Image /\ t.guilds \in Collection /\ Capped(t.guilds) /\ Led(t.guilds, exists)
  <2>1. 1 \in DOMAIN disk
    BY InvariantIs, LastOf
  <2>2. QED
    BY <2>1, ImageFits DEF RanksInv, IInv, Durable, History, Proper
<1>3. ASSUME NEW id \in Ids
      PROVE  /\ OneMaster(guilds'[id])
             /\ guilds'[id] # None =>
                   /\ WithinCaps(guilds'[id])
                   /\ guilds'[id].master \in Members(guilds'[id]) \/ guilds'[id].master \notin exists
  <2>1. guilds'[id] = Hydrated(t.guilds[id]) /\ t.guilds[id] \in Guild \cup {None}
    BY <1>1, <1>2 DEF Collection
  <2>2. CASE t.guilds[id] = None
    BY <2>1, <2>2 DEF Hydrated, OneMaster
  <2>3. CASE t.guilds[id] # None
    <3> DEFINE g == t.guilds[id]
               h == Hydrated(g)
    <3>1. g \in Guild /\ h \in Guild /\ h.rank = g.rank /\ h.master = g.master
      BY <2>1, <2>3, HydratedRanks
    <3>2. /\ OneMaster(g) /\ WithinCaps(g)
          /\ g.master \in Members(g) \/ g.master \notin exists
      BY <1>2, <2>3 DEF Capped, Led
    <3> HIDE DEF g, h
    <3>3. OneMaster(h) /\ Members(h) = Members(g)
      <4>1. OneMaster(h)
        BY <3>1, <3>2, OneMasterIs
      <4>2. Members(h) = Members(g)
        BY <3>1, MembersOf
      <4>3. QED
        BY <4>1, <4>2
    <3>4. WithinCaps(h)
      BY <3>1, <3>2 DEF WithinCaps, Holders
    <3>5. guilds'[id] = h
      BY <2>1 DEF g, h
    <3>6. QED
      BY <3>1, <3>2, <3>3, <3>4, <3>5
  <2>4. QED
    BY <2>2, <2>3
<1>4. WellRanked(guilds', exists' \cup online')
  BY <1>1, <1>3 DEF WellRanked, Capped, Led
<1>5. \A i \in DOMAIN disk' : Capped(disk'[i].guilds)
  BY <1>1, <1>2
<1>6. QED
  BY <1>4, <1>5 DEF RanksInv

LEMMA StepRanked ==
    ASSUME IInv, IInv', RanksInv, GuildStep
    PROVE  RanksInv'
<1>1. CASE UNCHANGED <<guilds, disk, exists>> /\ online' \subseteq exists \cup online
  BY <1>1, StillRanked
<1>2. CASE InviteStep
  <2>1. ASSUME NEW p \in Players, NEW t \in Players, NEW id \in Ids, Invite(p, id, t) PROVE RanksInv'
    BY <1>1, <2>1 DEF Invite, session, rosters
  <2>2. ASSUME NEW t \in Players, InviteClosed(t) \/ AcceptRefused(t) PROVE RanksInv'
    BY <1>1, <2>2 DEF InviteClosed, AcceptRefused, session, rosters
  <2>3. QED
    BY <1>2, <2>1, <2>2, AcceptRanked DEF InviteStep, Decline, ExpireInvite
<1>3. CASE RosterStep
  <2>1. ASSUME NEW p \in Players, NotInGuild(p) PROVE RanksInv'
    BY <1>1, <2>1 DEF NotInGuild, session, rosters
  <2>2. QED
    BY <1>3, <2>1, DestroyRanked, LeaveOrKickRanked, ChangeMasterRanked, SetMemberLevelRanked
       DEF RosterStep
<1>4. CASE CreateStep
  BY <1>4, CreateRanked DEF CreateStep
<1>5. CASE PendingStep
  <2>1. ASSUME Flush PROVE RanksInv'
    <3>1. disk' = Tail(disk) /\ Len(disk) > 1 /\ UNCHANGED <<guilds, session>>
      BY <2>1 DEF Flush, rosters
    <3>2. disk \in Seq(Image) /\ disk # << >>
      BY InvariantIs
    <3>3. \A i \in DOMAIN disk' : i + 1 \in DOMAIN disk /\ disk'[i] = disk[i + 1]
      BY <3>1, <3>2
    <3>4. \A i \in DOMAIN disk' : Capped(disk'[i].guilds)
      BY <3>3 DEF RanksInv
    <3>5. QED
      BY <3>1, <3>4 DEF RanksInv, session
  <2>2. ASSUME NEW p \in Players, OnJoin(p) \/ Leave(p) PROVE RanksInv'
    BY <1>1, <2>2 DEF OnJoin, Leave, rosters
  <2>3. QED
    BY <1>5, <2>1, <2>2 DEF PendingStep
<1>6. CASE WorldStep
  <2>1. ASSUME NEW p \in Players, Join(p) \/ SocketClosed(p) PROVE RanksInv'
    BY <1>1, <2>1 DEF Join, SocketClosed, rosters
  <2>2. ASSUME NEW p \in Players, CooldownOver(p) PROVE RanksInv'
    <3>1. /\ disk' = <<[disk[1] EXCEPT !.cooling = @ \ {p}]>>
          /\ UNCHANGED <<guilds, session>>
      BY <2>2 DEF CooldownOver
    <3>2. WellRanked(guilds', exists' \cup online')
      BY <3>1 DEF RanksInv, session
    <3>3. \A i \in DOMAIN disk' : i = Len(disk')
      BY <3>1
    <3>4. QED
      BY <3>2, <3>3, RanksSettled
  <2>3. QED
    BY <1>6, <2>1, <2>2, DeleteRanked DEF WorldStep
<1>7. QED
  BY <1>2, <1>3, <1>4, <1>5, <1>6, SettingRanked DEF GuildStep

------------------------------------------------------------------------------
(* The wars: their inductive invariant.                                       *)

\* The same combatants, with the sizes frozen.
SameSides(a, b) ==
    /\ a.decl.guild = b.decl.guild /\ a.decl.size = b.decl.size
    /\ a.acpt.guild = b.acpt.guild /\ a.acpt.size = b.acpt.size
\* vs has no war that ws lacks.
Fewer(ws, vs) == \A w \in WarIds : vs[w] # None => ws[w] # None /\ SameSides(vs[w], ws[w])

\* Nobody fights twice or against itself; and until a character is deleted, the
\* guilds of a war are there with the members they had when it began.
Apart(ws) == OneWarEach(ws) /\ \A w \in WarIds : ws[w] # None => ws[w].decl.guild # ws[w].acpt.guild
FullStrength(gs, side) == gs[side.guild] # None /\ side.size = Cardinality(Members(gs[side.guild]))
Warlike(t, ex) ==
    /\ Apart(t.wars)
    /\ ex = Players => \A w \in WarIds : t.wars[w] # None =>
          FullStrength(t.guilds, t.wars[w].decl) /\ FullStrength(t.guilds, t.wars[w].acpt)

Linkage(ln, ws) == \A w \in WarIds, id \in Ids : ln[id] = w <=> Fights(id, ws[w])
Fielded(gs, ws) == \A w \in WarIds : ws[w] # None =>
    gs[ws[w].decl.guild] # None /\ gs[ws[w].acpt.guild] # None
\* Whoever is marked is a member of a guild that fights the war.
Marked(on, stamp, gs, ws) == \A p \in on : stamp[p] # 0 =>
    \E x \in Ids : p \in Members(gs[x]) /\ Fights(x, ws[stamp[p]])
WarVariables ==
    /\ idWar \in [Players -> 0 .. MaxWars] /\ proposals \in [Ids -> Ids \cup {None}]
    /\ truces \in [WarIds -> Ids \cup {None}] /\ lastWar \in 0 .. MaxWars
    /\ age \in [WarIds -> 0 .. (Duration + 1)] /\ enabled \in BOOLEAN

WInv ==
    /\ IInv /\ WarVariables
    /\ Linkage(link, wars) /\ Fielded(guilds, wars) /\ Tables.wars = wars
    /\ \A i \in DOMAIN disk : Warlike(disk[i], exists)
    /\ Marked(online, idWar, guilds, wars)

LEMMA WarNumbers == WarIds \subseteq Int /\ 0 \notin WarIds /\ MaxWars \in Nat /\ 0 \in 0 .. MaxWars
    /\ WarIds \subseteq 0 .. MaxWars /\ \A x \in 0 .. MaxWars : x # 0 => x \in WarIds
BY GuildAssumption DEF WarIds

LEMMA SidesOf == ASSUME NEW war \in War
    PROVE  /\ war # None /\ war.decl \in Side /\ war.acpt \in Side
           /\ war.decl.guild \in Ids /\ war.acpt.guild \in Ids
BY GuildAssumption DEF War, Side

LEMMA WInvIs == ASSUME WInv
    PROVE  /\ IInv /\ Apart(wars) /\ Warlike(Tables, exists)
           /\ wars \in [WarIds -> War \cup {None}] /\ link \in [Ids -> 0 .. MaxWars]
<1>1. IInv /\ disk \in Seq(Image) /\ disk # << >> /\ Tables.wars = wars
  BY DEF WInv, IInv, TypeOK
<1>2. Len(disk) \in DOMAIN disk
  BY <1>1, LastOf
<1>3. Warlike(Tables, exists)
  BY <1>2 DEF WInv, Tables
<1>4. QED
  BY <1>1, <1>3, InvariantIs DEF Warlike

\* The registry and the guild's war id lead to each other.
LEMMA FighterIs == ASSUME WInv, NEW w \in WarIds, NEW x \in Ids, Fights(x, wars[w])
    PROVE  link[x] = w /\ AtWar(x) /\ guilds[x] # None
<1>1. link[x] = w /\ wars[w] # None
  BY DEF WInv, Linkage, Fights
<1>2. guilds[x] # None
  BY <1>1 DEF WInv, Fielded, Fights
<1>3. QED
  BY <1>1, <1>2, WarNumbers DEF AtWar

LEMMA AtWarIs == ASSUME WInv, NEW x \in Ids, AtWar(x)
    PROVE  link[x] \in WarIds /\ wars[link[x]] \in War /\ Fights(x, wars[link[x]])
<1>1. link[x] \in WarIds
  BY WInvIs, WarNumbers DEF AtWar
<1>2. wars[link[x]] \in War
  BY <1>1, WInvIs DEF AtWar
<1>3. QED
  BY <1>1, <1>2 DEF WInv, Linkage

LEMMA FewerFights ==
    ASSUME NEW ws, NEW vs, NEW w \in WarIds, NEW x, Fewer(ws, vs), Fights(x, vs[w])
    PROVE  Fights(x, ws[w])
BY DEF Fewer, SameSides, Fights

\* An image whose wars are some of another's, their guilds being left alone.
LEMMA WarlikeKept ==
    ASSUME NEW t, NEW u, NEW ex, NEW S, Warlike(t, ex), u.wars \in [WarIds -> War \cup {None}],
           Fewer(t.wars, u.wars), Stays(t.guilds, u.guilds, S),
           \A w \in WarIds, x \in S : ~ Fights(x, u.wars[w])
    PROVE  Warlike(u, ex)
<1>1. OneWarEach(u.wars)
  BY FewerFights DEF Warlike, Apart, OneWarEach
<1>2. \A w \in WarIds : u.wars[w] # None => u.wars[w].decl.guild # u.wars[w].acpt.guild
  BY DEF Warlike, Apart, Fewer, SameSides
<1>3. ASSUME ex = Players, NEW w \in WarIds, u.wars[w] # None
      PROVE  FullStrength(u.guilds, u.wars[w].decl) /\ FullStrength(u.guilds, u.wars[w].acpt)
  <2>1. t.wars[w] # None /\ SameSides(u.wars[w], t.wars[w])
    BY <1>3 DEF Fewer
  <2>2. FullStrength(t.guilds, t.wars[w].decl) /\ FullStrength(t.guilds, t.wars[w].acpt)
    BY <1>3, <2>1 DEF Warlike
  <2>3. u.wars[w].decl.guild \in Ids \ S /\ u.wars[w].acpt.guild \in Ids \ S
    BY <1>3, SidesOf DEF Fights
  <2>4. QED
    BY <2>1, <2>2, <2>3 DEF FullStrength, SameSides, Stays
<1>4. QED
  BY <1>1, <1>2, <1>3 DEF Warlike, Apart

LEMMA FewerItself == ASSUME NEW ws PROVE Fewer(ws, ws)
BY DEF Fewer, SameSides

------------------------------------------------------------------------------
(* What Guild does to a live world leaves the wars alone.                     *)

LEMMA PeaceKeeps ==
    ASSUME WInv, IInv', Harmless,
           UNCHANGED <<warfare, diplomacy, lastWar, age, enabled, exists>>,
           idWar' \in [Players -> 0 .. MaxWars], Marked(online', idWar', guilds, wars)
    PROVE  WInv'
<1> PICK S \in SUBSET Ids : Steady(S) /\ \A x \in S : guilds[x] = None \/ ~ AtWar(x)
  BY DEF Harmless
<1>1. \A w \in WarIds, x \in S : ~ Fights(x, wars[w])
  BY FighterIs
<1>2. /\ link' = link /\ wars' = wars /\ proposals' = proposals /\ truces' = truces
      /\ lastWar' = lastWar /\ age' = age /\ enabled' = enabled /\ exists' = exists
  BY DEF warfare, diplomacy
<1>3. Stays(guilds, guilds', S) /\ Follows(Tables, Tables', S)
  BY DEF Steady
<1>4. Linkage(link', wars') /\ Tables'.wars = wars'
  BY <1>2, <1>3 DEF WInv, Follows
<1>5. ASSUME NEW w \in WarIds, wars[w] # None
      PROVE  wars[w].decl.guild \in Ids \ S /\ wars[w].acpt.guild \in Ids \ S
  BY <1>1, <1>5, WInvIs, SidesOf DEF Fights
<1>6. Fielded(guilds', wars')
  BY <1>2, <1>3, <1>5 DEF WInv, Fielded, Stays
<1>7. ASSUME NEW i \in DOMAIN disk' PROVE Warlike(disk'[i], exists')
  <2>1. CASE \E j \in DOMAIN disk : disk'[i] = disk[j]
    BY <1>2, <2>1 DEF WInv
  <2>2. CASE Follows(Tables, disk'[i], S)
    <3>1. disk'[i].wars = Tables.wars /\ Stays(Tables.guilds, disk'[i].guilds, S)
      BY <2>2 DEF Follows
    <3>2. Tables.wars = wars /\ Warlike(Tables, exists) /\ wars \in [WarIds -> War \cup {None}]
      BY WInvIs DEF WInv
    <3>3. Warlike(disk'[i], exists)
      BY <1>1, <3>1, <3>2, FewerItself, WarlikeKept
    <3>4. QED
      BY <1>2, <3>3
  <2>3. QED
    BY <2>1, <2>2 DEF Steady
<1>8. Marked(online', idWar', guilds', wars')
  <2>1. ASSUME NEW p \in online', idWar'[p] # 0
        PROVE  \E x \in Ids : p \in Members(guilds'[x]) /\ Fights(x, wars[idWar'[p]])
    <3>1. PICK x \in Ids : p \in Members(guilds[x]) /\ Fights(x, wars[idWar'[p]])
      BY <2>1 DEF Marked
    <3>2. idWar'[p] \in WarIds
      <4>1. p \in Players
        BY <2>1 DEF IInv, TypeOK
      <4>2. QED
        BY <2>1, <4>1, WarNumbers
    <3>3. x \notin S
      BY <1>1, <3>1, <3>2
    <3>4. QED
      BY <1>3, <3>1, <3>3 DEF Stays
  <2>2. QED
    BY <1>2, <2>1 DEF Marked
<1>9. WarVariables'
  BY <1>2 DEF WInv, WarVariables
<1>10. QED
  BY <1>4, <1>6, <1>7, <1>8, <1>9 DEF WInv

LEMMA MarkedStays == ASSUME WInv, NEW on \in SUBSET online PROVE Marked(on, idWar, guilds, wars)
BY DEF WInv, Marked

LEMMA StillHarmless == ASSUME IInv, UNCHANGED <<guilds, disk>> PROVE Harmless
BY SteadyStill, HarmlessIf

LEMMA PeaceStepKeeps == ASSUME WInv, PeaceStep PROVE WInv'
<1>1. /\ UNCHANGED <<idWar, diplomacy, lastWar, age, enabled>>
      /\ \/ InviteStep \/ RosterStep \/ CreateStep \/ SettingStep \/ Flush
         \/ \E p \in Players : Leave(p)
  BY DEF PeaceStep, warVars
<1>2. IInv /\ idWar \in [Players -> 0 .. MaxWars]
  BY DEF WInv, WarVariables
<1>3. IInv'
  <2>1. Next
    BY <1>1 DEF Next, GuildStep, PendingStep
  <2>2. QED
    BY <1>2, <2>1, StepKeeps
<1>4. Harmless
  BY <1>1, <1>2, GuildHarmless
<1>5. UNCHANGED <<warfare, exists>> /\ online' \in SUBSET online
  BY <1>1, GuildLeaves
<1>6. Marked(online', idWar, guilds, wars)
  BY <1>5, MarkedStays
<1>7. QED
  BY <1>1, <1>2, <1>3, <1>4, <1>5, <1>6, PeaceKeeps

LEMMA WarDeleteKeeps == ASSUME WInv, NEW p \in Players, DeleteCharacter(p), UNCHANGED warVars PROVE WInv'
<1>1. /\ exists' = exists \ {p} /\ p \in exists /\ UNCHANGED <<online, guilds, link, wars>>
      /\ disk' = [i \in DOMAIN disk |-> Purged(disk[i], p)]
  BY DEF DeleteCharacter, rosters, warfare
<1>2. IInv /\ IInv' /\ disk \in Seq(Image) /\ disk # << >> /\ exists \subseteq Players
  BY DeleteKeeps, InvariantIs DEF WInv
<1>3. exists' # Players
  BY <1>1, <1>2
<1>4. ASSUME NEW i \in DOMAIN disk'
      PROVE  i \in DOMAIN disk /\ disk'[i].wars = disk[i].wars
  <2>1. i \in DOMAIN disk /\ disk'[i] = Purged(disk[i], p)
    BY <1>1, <1>4
  <2>2. disk[i] \in Image
    BY <1>2, <2>1, ElementOfSeq, LastOf
  <2>3. QED
    BY <2>1, <2>2, PurgedIs
<1>5. \A i \in DOMAIN disk' : Warlike(disk'[i], exists')
  BY <1>3, <1>4 DEF WInv, Warlike
<1>6. Tables'.wars = wars'
  <2>1. Len(disk) \in Nat \ {0} /\ DOMAIN disk = 1 .. Len(disk)
    BY <1>2, LastOf
  <2>2. Len(disk') = Len(disk) /\ Len(disk) \in DOMAIN disk'
    BY <1>1, <2>1
  <2>3. Tables'.wars = Tables.wars
    BY <1>4, <2>2 DEF Tables
  <2>4. QED
    BY <1>1, <2>3 DEF WInv
<1>7. WarVariables' /\ Linkage(link', wars') /\ Fielded(guilds', wars')
  BY <1>1 DEF WInv, WarVariables, warVars, diplomacy
<1>8. Marked(online', idWar', guilds', wars')
  BY <1>1 DEF WInv, warVars
<1>9. QED
  BY <1>2, <1>5, <1>6, <1>7, <1>8 DEF WInv

LEMMA PeaceEventKeeps == ASSUME WInv, PeaceEvent PROVE WInv'
<1>1. PICK p \in Players : SocketClosed(p) \/ DeleteCharacter(p) \/ CooldownOver(p)
  BY DEF PeaceEvent
<1>2. UNCHANGED <<idWar, diplomacy, lastWar, age, enabled>> /\ UNCHANGED warVars
  BY DEF PeaceEvent, warVars
<1>3. IInv /\ idWar \in [Players -> 0 .. MaxWars]
  BY DEF WInv, WarVariables
<1>4. CASE SocketClosed(p) \/ CooldownOver(p)
  <2>1. IInv' /\ Harmless
    BY <1>3, <1>4, SocketClosedKeeps, CooldownOverKeeps, GuildHarmless
  <2>2. UNCHANGED <<warfare, exists>> /\ online' \in SUBSET online
    BY <1>4 DEF SocketClosed, CooldownOver, session
  <2>3. Marked(online', idWar, guilds, wars)
    BY <2>2, MarkedStays
  <2>4. QED
    BY <1>2, <1>3, <2>1, <2>2, <2>3, PeaceKeeps
<1>5. CASE DeleteCharacter(p)
  BY <1>2, <1>5, WarDeleteKeeps
<1>6. QED
  BY <1>1, <1>4, <1>5

LEMMA WarJoinKeeps == ASSUME WInv, NEW p \in Players, WarJoin(p) PROVE WInv'
<1>1. /\ Join(p) /\ UNCHANGED <<diplomacy, lastWar, age, enabled>>
      /\ idWar' = [idWar EXCEPT ![p] = 0]
  BY DEF WarJoin
<1>2. IInv /\ IInv' /\ idWar \in [Players -> 0 .. MaxWars]
  BY <1>1, JoinKeeps DEF WInv, WarVariables
<1>3. UNCHANGED <<warfare, exists, guilds, disk>> /\ online' = online \cup {p}
  BY <1>1 DEF Join, rosters
<1>4. /\ idWar' \in [Players -> 0 .. MaxWars] /\ idWar'[p] = 0
      /\ \A q \in Players : q # p => idWar'[q] = idWar[q]
  BY <1>1, <1>2, WarNumbers
<1>5. Marked(online', idWar', guilds, wars)
  <2>1. online \subseteq Players
    BY <1>2, InvariantIs
  <2>2. QED
    BY <1>3, <1>4, <2>1 DEF WInv, Marked
<1>6. Harmless
  BY <1>2, <1>3, StillHarmless
<1>7. QED
  BY <1>1, <1>2, <1>3, <1>4, <1>5, <1>6, PeaceKeeps

LEMMA WarOnJoinKeeps == ASSUME WInv, NEW p \in Players, WarOnJoin(p) PROVE WInv'
<1> DEFINE mark == IF p \notin online \/ GuildsOf(p) = {} THEN idWar[p]
                   ELSE IF AtWar(GuildOf(p)) THEN link[GuildOf(p)] ELSE 0
<1>1. /\ OnJoin(p) /\ UNCHANGED <<diplomacy, lastWar, age, enabled>>
      /\ idWar' = [idWar EXCEPT ![p] = mark]
  BY DEF WarOnJoin
<1>2. IInv /\ IInv' /\ idWar \in [Players -> 0 .. MaxWars]
  BY <1>1, OnJoinKeeps DEF WInv, WarVariables
<1>3. UNCHANGED <<warfare, exists, guilds, disk, online>>
  BY <1>1 DEF OnJoin, rosters
<1>4. \/ mark = idWar[p] \/ mark = 0
      \/ \E x \in Ids : mark \in WarIds /\ p \in Members(guilds[x]) /\ Fights(x, wars[mark])
  <2>1. CASE p \in online /\ GuildsOf(p) # {} /\ AtWar(GuildOf(p))
    <3>1. GuildOf(p) \in Ids /\ p \in Members(guilds[GuildOf(p)])
      BY <1>2, <2>1, GuildOfIs
    <3>2. mark = link[GuildOf(p)]
      BY <2>1
    <3>3. QED
      BY <2>1, <3>1, <3>2, AtWarIs
  <2>2. CASE ~ (p \in online /\ GuildsOf(p) # {} /\ AtWar(GuildOf(p)))
    BY <2>2
  <2>3. QED
    BY <2>1, <2>2
<1> HIDE DEF mark
<1>5. /\ idWar' \in [Players -> 0 .. MaxWars] /\ idWar'[p] = mark
      /\ \A q \in Players : q # p => idWar'[q] = idWar[q]
  BY <1>1, <1>2, <1>4, WarNumbers
<1>6. Marked(online', idWar', guilds, wars)
  <2>1. online \subseteq Players
    BY <1>2, InvariantIs
  <2>2. ASSUME NEW q \in online, idWar'[q] # 0
        PROVE  \E x \in Ids : q \in Members(guilds[x]) /\ Fights(x, wars[idWar'[q]])
    <3>1. CASE q # p \/ mark = idWar[p]
      <4>1. idWar'[q] = idWar[q]
        BY <1>5, <2>1, <3>1
      <4>2. QED
        BY <2>2, <4>1 DEF WInv, Marked
    <3>2. CASE q = p /\ mark # idWar[p]
      BY <1>4, <1>5, <2>2, <3>2
    <3>3. QED
      BY <3>1, <3>2
  <2>3. QED
    BY <1>3, <2>2 DEF Marked
<1>7. Harmless
  BY <1>2, <1>3, StillHarmless
<1>8. QED
  BY <1>1, <1>2, <1>3, <1>5, <1>6, <1>7, PeaceKeeps

------------------------------------------------------------------------------
(* The statements a war's handler issues.                                     *)

\* The same guilds on foot, with the same members.
Alike(gs, hs) == \A x \in Ids : Members(hs[x]) = Members(gs[x]) /\ (hs[x] = None <=> gs[x] = None)

\* How far a handler has come: its writes are d, its guilds gs, its wars ws.
Course(d, gs, ws) ==
    /\ History(d, exists, nextId) /\ Agrees(Last(d), gs, exists) /\ Good(gs, exists, nextId)
    /\ Alike(guilds, gs) /\ Indexed(byName, gs)
    /\ Last(d).cooling = Tables.cooling /\ Last(d).wars = ws
    /\ \A x \in Ids : Last(d).guilds[x] = None <=> Tables.guilds[x] = None
    /\ \A i \in DOMAIN d : Warlike(d[i], exists)

LEMMA CourseIs == ASSUME NEW d, NEW gs, NEW ws, Course(d, gs, ws)
    PROVE  /\ d \in Seq(Image) /\ d # << >> /\ Last(d) \in Image /\ Len(d) \in DOMAIN d
           /\ Last(d).wars = ws /\ ws \in [WarIds -> War \cup {None}]
           /\ gs \in Collection /\ Warlike(Last(d), exists)
<1>1. d \in Seq(Image) /\ d # << >> /\ Last(d).wars = ws /\ gs \in Collection
      /\ \A i \in DOMAIN d : Warlike(d[i], exists)
  BY DEF Course, History, Good
<1>2. Last(d) \in Image /\ Len(d) \in DOMAIN d
  BY <1>1, LastOf
<1>3. Warlike(Last(d), exists)
  BY <1>1, <1>2 DEF Last
<1>4. ws \in [WarIds -> War \cup {None}]
  BY <1>1, <1>2 DEF Image
<1>5. QED
  BY <1>1, <1>2, <1>3, <1>4

LEMMA CourseStarts == ASSUME WInv PROVE Course(disk, guilds, wars)
<1>1. IInv /\ Tables.wars = wars /\ \A i \in DOMAIN disk : Warlike(disk[i], exists)
  BY DEF WInv
<1>2. Alike(guilds, guilds)
  BY DEF Alike
<1>3. QED
  BY <1>1, <1>2, InvariantIs DEF Course, Good

LEMMA WarlikeAppended ==
    ASSUME NEW d \in Seq(Image), NEW u \in Image, NEW ex, Warlike(u, ex),
           \A i \in DOMAIN d : Warlike(d[i], ex)
    PROVE  \A i \in DOMAIN Append(d, u) : Warlike(Append(d, u)[i], ex)
<1>1. /\ DOMAIN Append(d, u) = 1 .. (Len(d) + 1) /\ DOMAIN d = 1 .. Len(d) /\ Len(d) \in Nat
      /\ Append(d, u)[Len(d) + 1] = u
      /\ \A i \in 1 .. Len(d) : Append(d, u)[i] = d[i]
  OBVIOUS
<1>2. ASSUME NEW i \in 1 .. (Len(d) + 1) PROVE i \in 1 .. Len(d) \/ i = Len(d) + 1
  BY <1>1
<1>3. QED
  BY <1>1, <1>2

\* A statement on the row of a guild that keeps its name, its masks and its people.
LEMMA CourseRow ==
    ASSUME NEW d, NEW gs, NEW ws, Course(d, gs, ws), IInv,
           NEW id \in Ids, NEW g \in Guild, gs[id] # None,
           g.name = gs[id].name, g.power = gs[id].power, g.rank = gs[id].rank, g.master = gs[id].master
    PROVE  /\ RowPatched(Last(d), id, g) \in Image
           /\ Last(Append(d, RowPatched(Last(d), id, g))) = RowPatched(Last(d), id, g)
           /\ Course(Append(d, RowPatched(Last(d), id, g)), [gs EXCEPT ![id] = g], ws)
<1> DEFINE u == RowPatched(Last(d), id, g)
           hs == [gs EXCEPT ![id] = g]
<1>1. /\ d \in Seq(Image) /\ d # << >> /\ Last(d) \in Image /\ Last(d).wars = ws
      /\ ws \in [WarIds -> War \cup {None}] /\ gs \in Collection /\ Warlike(Last(d), exists)
  BY CourseIs
<1>2. /\ History(d, exists, nextId) /\ Agrees(Last(d), gs, exists) /\ exists \in SUBSET Players
      /\ Sane(gs) /\ Below(gs, nextId) /\ Led(gs, exists) /\ Indexed(byName, gs)
  BY InvariantIs DEF Course, Good
<1>3. gs[id] \in Guild /\ Members(g) = Members(gs[id]) /\ g # None
  <2>1. gs[id] \in Guild
    BY <1>1 DEF Collection
  <2>2. QED
    BY <2>1, MembersOf
<1>4. /\ hs \in Collection /\ Sane(hs) /\ Below(hs, nextId) /\ Led(hs, exists) /\ Indexed(byName, hs)
  <2>1. g.power[GUD_MASTER] = Powers
    BY <1>2 DEF Sane, MasterMasks
  <2>2. g.master \in Members(g) \/ g.master \notin exists
    BY <1>2, <1>3 DEF Led
  <2>3. QED
    BY <1>1, <1>2, <1>3, <2>1, <2>2, GuildReplaced
<1>5. RowStep(gs, hs, id, g) /\ Good(hs, exists, nextId)
  BY <1>1, <1>4 DEF RowStep, Good
<1>6. Alike(guilds, hs)
  <2>1. hs[id] = g /\ \A x \in Ids : x # id => hs[x] = gs[x]
    BY <1>1 DEF Collection
  <2>2. QED
    BY <1>3, <2>1 DEF Course, Alike
<1>7. u \in Image /\ Follows(Last(d), u, {})
  BY <1>1, RowFollows
<1> HIDE DEF hs
<1>8. Issued(d, u, hs, exists, nextId)
  BY <1>2, <1>5, RowStatement
<1> HIDE DEF u
<1>9. Warlike(u, exists)
  <2>1. u.wars = ws /\ Fewer(Last(d).wars, u.wars) /\ Stays(Last(d).guilds, u.guilds, {})
    BY <1>1, <1>7, FewerItself DEF Follows
  <2>2. u.wars \in [WarIds -> War \cup {None}] /\ Warlike(Last(d), exists)
    BY <1>1, <2>1
  <2>3. \A w \in WarIds, x \in {} : ~ Fights(x, u.wars[w])
    OBVIOUS
  <2>4. QED
    BY ONLY <2>1, <2>2, <2>3, WarlikeKept
<1>10. \A i \in DOMAIN Append(d, u) : Warlike(Append(d, u)[i], exists)
  BY <1>1, <1>7, <1>9, WarlikeAppended DEF Course
<1>11. /\ History(Append(d, u), exists, nextId) /\ Last(Append(d, u)) = u /\ Agrees(u, hs, exists)
       /\ u.cooling = Tables.cooling /\ u.wars = ws
       /\ \A x \in Ids : u.guilds[x] = None <=> Tables.guilds[x] = None
  BY <1>1, <1>7, <1>8 DEF Issued, Course, Follows
<1>12. Course(Append(d, u), hs, ws)
  BY <1>4, <1>5, <1>6, <1>10, <1>11 DEF Course
<1>13. QED
  BY <1>7, <1>11, <1>12 DEF u, hs

\* A statement on the rows of the wars.
LEMMA CourseWars ==
    ASSUME NEW d, NEW gs, NEW ws, Course(d, gs, ws), IInv,
           NEW vs \in [WarIds -> War \cup {None}], NEW u \in Image,
           u.guilds = Last(d).guilds, u.cooling = Last(d).cooling, u.wars = vs, Warlike(u, exists)
    PROVE  Course(Append(d, u), gs, vs) /\ Last(Append(d, u)) = u
<1>1. d \in Seq(Image) /\ d # << >> /\ gs \in Collection
  BY CourseIs
<1>2. /\ History(d, exists, nextId) /\ Agrees(Last(d), gs, exists) /\ exists \in SUBSET Players
      /\ Sane(gs) /\ Below(gs, nextId) /\ Led(gs, exists)
  BY InvariantIs DEF Course, Good
<1>3. Agrees(u, gs, exists) /\ Locked(Last(d), u, exists)
  BY <1>2 DEF Agrees, Locked
<1>4. History(Append(d, u), exists, nextId) /\ Last(Append(d, u)) = u
  BY <1>1, <1>2, <1>3, StatementKept
<1>5. \A i \in DOMAIN Append(d, u) : Warlike(Append(d, u)[i], exists)
  BY <1>1, WarlikeAppended DEF Course
<1>6. QED
  BY <1>3, <1>4, <1>5 DEF Course

\* One that leaves no war that was not there.
LEMMA CourseFewer ==
    ASSUME NEW d, NEW gs, NEW ws, Course(d, gs, ws), IInv,
           NEW vs \in [WarIds -> War \cup {None}], NEW u \in Image,
           u.guilds = Last(d).guilds, u.cooling = Last(d).cooling, u.wars = vs, Fewer(ws, vs)
    PROVE  Course(Append(d, u), gs, vs) /\ Last(Append(d, u)) = u
<1>1. Warlike(Last(d), exists) /\ Last(d).wars = ws
  BY CourseIs
<1>2. Stays(Last(d).guilds, u.guilds, {})
  BY DEF Stays
<1>3. Warlike(u, exists)
  BY <1>1, <1>2, WarlikeKept
<1>4. QED
  BY <1>3, CourseWars

LEMMA WarReplaced == ASSUME NEW t \in Image, NEW w \in WarIds, NEW v \in War \cup {None}
    PROVE  LET u == [t EXCEPT !.wars[w] = v] IN
           /\ u \in Image /\ u.cooling = t.cooling /\ u.guilds = t.guilds
           /\ u.wars = [t.wars EXCEPT ![w] = v] /\ u.wars \in [WarIds -> War \cup {None}]
<1> DEFINE s == [guilds |-> t.guilds, cooling |-> t.cooling, wars |-> [t.wars EXCEPT ![w] = v]]
<1>1. t = [guilds |-> t.guilds, cooling |-> t.cooling, wars |-> t.wars]
      /\ t.guilds \in [Ids -> Guild \cup {None}] /\ t.cooling \in SUBSET Players
      /\ t.wars \in [WarIds -> War \cup {None}]
  BY DEF Image
<1>2. [t EXCEPT !.wars[w] = v] = s
  BY <1>1
<1>3. [t.wars EXCEPT ![w] = v] \in [WarIds -> War \cup {None}]
  BY <1>1
<1>4. s \in Image
  BY <1>1, <1>3 DEF Image
<1>5. QED
  BY <1>2, <1>3, <1>4

\* What such a handler has to show.
LEMMA WarSettled ==
    ASSUME WInv, UNCHANGED <<session, nextId, cooling, idGuild, byName, pending>>,
           Course(disk', guilds', wars'), link' \in [Ids -> 0 .. MaxWars],
           WarVariables', Linkage(link', wars'), Fielded(guilds', wars'),
           Marked(online, idWar', guilds', wars')
    PROVE  WInv'
<1>1. IInv /\ online' = online /\ exists' = exists /\ nextId' = nextId /\ cooling' = cooling
      /\ byName' = byName /\ idGuild' = idGuild /\ pending' = pending
  BY DEF WInv, session
<1>2. /\ History(disk', exists, nextId) /\ Agrees(Last(disk'), guilds', exists)
      /\ guilds' \in Collection /\ Sane(guilds') /\ Below(guilds', nextId) /\ Led(guilds', exists)
      /\ Indexed(byName, guilds') /\ Alike(guilds, guilds') /\ Last(disk').wars = wars'
      /\ Last(disk').cooling = Tables.cooling
      /\ \A x \in Ids : Last(disk').guilds[x] = None <=> Tables.guilds[x] = None
      /\ \A i \in DOMAIN disk' : Warlike(disk'[i], exists)
  BY DEF Course, Good
<1>3. wars' \in [WarIds -> War \cup {None}]
  BY CourseIs
<1>4. Complete(Last(disk'), guilds', exists, cooling')
  <2>1. Complete(Tables, guilds, exists, cooling)
    BY <1>1, InvariantIs
  <2>2. QED
    BY <1>1, <1>2, <2>1 DEF Complete, Alike
<1>5. Own(online, joining, idGuild', guilds')
  <2>1. Own(online, joining, idGuild, guilds)
    BY <1>1, InvariantIs
  <2>2. QED
    BY <1>1, <1>2, <2>1, OwnKept DEF Alike
<1>6. IInv'
  <2>1. /\ byName' \in [Names -> Ids \cup {None}] /\ cooling' \subseteq Players
        /\ pending' \in [Players -> Invitation \cup {None}] /\ idGuild' \in [Players -> Ids \cup {None}]
    BY <1>1, InvariantIs
  <2>2. Indexed(byName', guilds') /\ UNCHANGED <<session, nextId>>
    BY <1>1, <1>2
  <2>3. QED
    BY <1>1, <1>2, <1>3, <1>4, <1>5, <2>1, <2>2, HandlerSettled
<1>7. Tables'.wars = wars' /\ \A i \in DOMAIN disk' : Warlike(disk'[i], exists')
  BY <1>1, <1>2 DEF Tables, Last
<1>8. QED
  BY <1>1, <1>6, <1>7 DEF WInv

\* A handler that starts no war.
LEMMA WarKept ==
    ASSUME WInv, UNCHANGED <<session, nextId, cooling, idGuild, byName, pending>>,
           Course(disk', guilds', wars'), Fewer(wars, wars'), link' \in [Ids -> 0 .. MaxWars],
           WarVariables', Linkage(link', wars'),
           \A p \in online : idWar'[p] # 0 => idWar'[p] = idWar[p] /\ wars'[idWar[p]] # None
    PROVE  WInv'
<1>1. Alike(guilds, guilds') /\ IInv
  BY DEF Course, WInv
<1>2. Fielded(guilds', wars')
  <2>1. ASSUME NEW w \in WarIds, wars'[w] # None
        PROVE  guilds'[wars'[w].decl.guild] # None /\ guilds'[wars'[w].acpt.guild] # None
    <3>1. /\ wars[w] # None /\ wars[w] \in War
          /\ wars'[w].decl.guild = wars[w].decl.guild /\ wars'[w].acpt.guild = wars[w].acpt.guild
      BY <2>1, WInvIs DEF Fewer, SameSides
    <3>2. guilds[wars[w].decl.guild] # None /\ guilds[wars[w].acpt.guild] # None
      BY <3>1 DEF WInv, Fielded
    <3>3. QED
      BY <1>1, <3>1, <3>2, SidesOf DEF Alike
  <2>2. QED
    BY <2>1 DEF Fielded
<1>3. Marked(online, idWar', guilds', wars')
  <2>1. ASSUME NEW p \in online, idWar'[p] # 0
        PROVE  \E x \in Ids : p \in Members(guilds'[x]) /\ Fights(x, wars'[idWar'[p]])
    <3>1. idWar'[p] = idWar[p] /\ idWar[p] # 0 /\ wars'[idWar[p]] # None
      BY <2>1
    <3>2. idWar[p] \in WarIds
      BY <1>1, <3>1, InvariantIs, WarNumbers DEF WInv, WarVariables
    <3>3. PICK x \in Ids : p \in Members(guilds[x]) /\ Fights(x, wars[idWar[p]])
      BY <3>1 DEF WInv, Marked
    <3>4. Fights(x, wars'[idWar[p]])
      BY <3>1, <3>2, <3>3 DEF Fewer, SameSides, Fights
    <3>5. QED
      BY <1>1, <3>1, <3>3, <3>4 DEF Alike
  <2>2. QED
    BY <2>1 DEF Marked
<1>4. QED
  BY <1>2, <1>3, WarSettled

------------------------------------------------------------------------------
(* The handlers of the wars.                                                  *)

LEMMA DiplomacyKeeps ==
    ASSUME WInv, UNCHANGED <<vars, idWar, lastWar, age, enabled>>,
           proposals' \in [Ids -> Ids \cup {None}], truces' \in [WarIds -> Ids \cup {None}]
    PROVE  WInv'
<1>1. UNCHANGED vars /\ UNCHANGED <<online, exists, guilds, link, wars, disk>>
  BY DEF vars, session, rosters, warfare
<1>2. IInv'
  BY <1>1, StepKeeps DEF WInv
<1>3. WarVariables'
  BY DEF WInv, WarVariables
<1>4. QED
  BY <1>1, <1>2, <1>3 DEF WInv, Tables

LEMMA OtherIs == ASSUME WInv, NEW w \in WarIds, NEW x \in Ids, wars[w] # None
    PROVE  /\ wars[w] \in War /\ OtherGuild(w, x) \in Ids
           /\ wars[w].decl.guild # wars[w].acpt.guild
           /\ Fights(x, wars[w]) => {x, OtherGuild(w, x)} = {wars[w].decl.guild, wars[w].acpt.guild}
<1>1. wars[w] \in War /\ wars[w].decl.guild # wars[w].acpt.guild
  BY WInvIs DEF Apart
<1>2. QED
  BY <1>1, SidesOf DEF OtherGuild, Fights

LEMMA DeclareKeeps ==
    ASSUME WInv, NEW p \in Players, NEW id \in Ids, NEW n \in Names, Declare(p, id, n) PROVE WInv'
<1>1. IInv /\ proposals \in [Ids -> Ids \cup {None}] /\ truces \in [WarIds -> Ids \cup {None}]
  BY DEF WInv, WarVariables
<1>2. /\ UNCHANGED <<vars, idWar, truces, lastWar, age, enabled>>
      /\ proposals' = [proposals EXCEPT ![byName[n]] = id]
  BY DEF Declare
<1>3. proposals' \in [Ids -> Ids \cup {None}]
  BY <1>1, <1>2
<1>4. QED
  BY <1>1, <1>2, <1>3, DiplomacyKeeps

LEMMA ProposalExpiresKeeps == ASSUME WInv, NEW id \in Ids, ProposalExpires(id) PROVE WInv'
<1>1. proposals \in [Ids -> Ids \cup {None}] /\ truces \in [WarIds -> Ids \cup {None}]
  BY DEF WInv, WarVariables
<1>2. /\ UNCHANGED <<vars, idWar, truces, lastWar, age, enabled>>
      /\ proposals' = [proposals EXCEPT ![id] = None]
  BY DEF ProposalExpires
<1>3. QED
  BY <1>1, <1>2, DiplomacyKeeps

LEMMA QueryTruceKeeps ==
    ASSUME WInv, NEW p \in Players, NEW id \in Ids, QueryTruce(p, id) PROVE WInv'
<1>1. proposals \in [Ids -> Ids \cup {None}] /\ truces \in [WarIds -> Ids \cup {None}]
  BY DEF WInv, WarVariables
<1>2. /\ UNCHANGED <<vars, idWar, proposals, lastWar, age, enabled>>
      /\ AtWar(id) /\ truces' = [truces EXCEPT ![link[id]] = OtherGuild(link[id], id)]
  BY DEF QueryTruce
<1>3. OtherGuild(link[id], id) \in Ids
  BY <1>2, AtWarIs, OtherIs, SidesOf
<1>4. truces' \in [WarIds -> Ids \cup {None}]
  BY <1>1, <1>2, <1>3
<1>5. QED
  BY <1>1, <1>2, <1>4, DiplomacyKeeps

\* A war's row with other counts or another flag.
LEMMA WarRowIs ==
    ASSUME WInv, NEW w \in WarIds, wars[w] # None, NEW war \in War, SameSides(war, wars[w])
    PROVE  LET vs == [wars EXCEPT ![w] = war]
               u == WarPatched(Tables, w, war)
           IN  /\ vs \in [WarIds -> War \cup {None}] /\ Fewer(wars, vs) /\ Fewer(vs, wars)
               /\ u \in Image /\ u.guilds = Tables.guilds /\ u.cooling = Tables.cooling /\ u.wars = vs
               /\ Course(Append(disk, u), guilds, vs) /\ Last(Append(disk, u)) = u
<1> DEFINE vs == [wars EXCEPT ![w] = war]
           u == WarPatched(Tables, w, war)
<1>1. IInv /\ Tables \in Image /\ Tables.wars = wars /\ wars \in [WarIds -> War \cup {None}]
      /\ Last(disk) = Tables
  BY WInvIs, InvariantIs DEF WInv
<1>2. vs \in [WarIds -> War \cup {None}] /\ vs[w] = war /\ war # None
      /\ \A v \in WarIds : v # w => vs[v] = wars[v]
  BY <1>1, SidesOf
<1>3. u \in Image /\ u.guilds = Tables.guilds /\ u.cooling = Tables.cooling /\ u.wars = vs
  <2>1. u = [Tables EXCEPT !.wars[w] = war]
    BY <1>1 DEF WarPatched
  <2>2. QED
    BY <1>1, <2>1, WarReplaced
<1> HIDE DEF vs, u
<1>4. Fewer(wars, vs) /\ Fewer(vs, wars)
  BY <1>2 DEF Fewer, SameSides
<1>5. Course(Append(disk, u), guilds, vs) /\ Last(Append(disk, u)) = u
  BY <1>1, <1>2, <1>3, <1>4, CourseStarts, CourseFewer
<1>6. QED
  BY <1>2, <1>3, <1>4, <1>5 DEF vs, u

\* A handler that only counts.
LEMMA CountKeeps ==
    ASSUME WInv, NEW w \in WarIds, wars[w] # None, NEW war \in War, SameSides(war, wars[w]),
           wars' = [wars EXCEPT ![w] = war], Course(disk', guilds, wars'),
           UNCHANGED <<session, idGuild, rosters, pending, link>>, WarVariables',
           \A p \in online : idWar'[p] # 0 => idWar'[p] = idWar[p]
    PROVE  WInv'
<1>1. IInv /\ UNCHANGED <<session, nextId, cooling, idGuild, byName, pending>>
      /\ guilds' = guilds /\ link' = link /\ wars \in [WarIds -> War \cup {None}]
      /\ link \in [Ids -> 0 .. MaxWars] /\ Linkage(link, wars) /\ Marked(online, idWar, guilds, wars)
  BY WInvIs, InvariantIs DEF WInv, rosters
<1>2. Fewer(wars, wars') /\ Fewer(wars', wars)
  BY WarRowIs
<1>3. Course(disk', guilds', wars')
  BY <1>1
<1>4. Linkage(link', wars')
  <2>1. \A v \in WarIds, x \in Ids : Fights(x, wars'[v]) <=> Fights(x, wars[v])
    BY <1>2, FewerFights
  <2>2. QED
    BY <1>1, <2>1 DEF Linkage
<1>5. ASSUME NEW p \in online, idWar'[p] # 0 PROVE idWar'[p] = idWar[p] /\ wars'[idWar[p]] # None
  <2>1. idWar'[p] = idWar[p] /\ idWar[p] # 0
    BY <1>5
  <2>2. wars[idWar[p]] # None
    BY <1>1, <2>1 DEF Marked, Fights
  <2>3. idWar[p] \in WarIds
    BY <1>1, <2>1, InvariantIs, WarNumbers DEF WInv, WarVariables
  <2>4. QED
    BY <1>2, <2>1, <2>2, <2>3 DEF Fewer
<1>6. QED
  BY <1>1, <1>2, <1>3, <1>4, <1>5, WarKept

LEMMA RowKeeps ==
    ASSUME WInv, NEW w \in WarIds, wars[w] # None, NEW war \in War, SameSides(war, wars[w]),
           wars' = [wars EXCEPT ![w] = war], disk' = disk \o <<WarPatched(Tables, w, war)>>,
           UNCHANGED <<session, idGuild, rosters, pending, link>>, WarVariables',
           \A p \in online : idWar'[p] # 0 => idWar'[p] = idWar[p]
    PROVE  WInv'
<1> DEFINE u == WarPatched(Tables, w, war)
<1>1. disk \in Seq(Image)
  BY WInvIs, InvariantIs DEF WInv
<1>2. u \in Image /\ Course(Append(disk, u), guilds, wars')
  BY WarRowIs
<1> HIDE DEF u
<1>3. disk' = Append(disk, u)
  <2>1. disk' = disk \o <<u>>
    BY DEF u
  <2>2. QED
    BY <1>1, <1>2, <2>1, Statements
<1>4. Course(disk', guilds, wars')
  BY <1>2, <1>3
<1>5. QED
  BY <1>4, CountKeeps

LEMMA SideCounted == ASSUME NEW s \in Side
    PROVE  /\ [s EXCEPT !.surrender = IF @ < MaxCount THEN @ + 1 ELSE @] \in Side
           /\ [s EXCEPT !.dead = IF @ < MaxCount THEN @ + 1 ELSE @] \in Side
           /\ s.absent # MaxCount => [s EXCEPT !.absent = @ + 1] \in Side
<1>1. MaxCount \in Nat
  BY GuildAssumption
<1>2. ASSUME NEW x \in 0 .. MaxCount
      PROVE  /\ (IF x < MaxCount THEN x + 1 ELSE x) \in 0 .. MaxCount
             /\ x # MaxCount => x + 1 \in 0 .. MaxCount
  BY <1>1
<1>3. s.surrender \in 0 .. MaxCount /\ s.dead \in 0 .. MaxCount /\ s.absent \in 0 .. MaxCount
  BY DEF Side
<1> DEFINE up(x) == IF x < MaxCount THEN x + 1 ELSE x
<1>4. up(s.surrender) \in 0 .. MaxCount /\ up(s.dead) \in 0 .. MaxCount
      /\ (s.absent # MaxCount => s.absent + 1 \in 0 .. MaxCount)
  BY <1>2, <1>3
<1>5. [s EXCEPT !.surrender = up(s.surrender)] \in Side /\ [s EXCEPT !.dead = up(s.dead)] \in Side
  <2> HIDE DEF up
  <2>1. QED
    BY <1>4 DEF Side
<1>6. s.absent # MaxCount => [s EXCEPT !.absent = s.absent + 1] \in Side
  BY <1>4 DEF Side
<1>7. QED
  BY <1>5, <1>6

LEMMA WarEdited == ASSUME NEW war \in War, NEW d \in Side, NEW a \in Side
    PROVE  [war EXCEPT !.decl = d, !.acpt = a] \in War /\ [war EXCEPT !.decl = d] \in War
           /\ [war EXCEPT !.acpt = a] \in War /\ [war EXCEPT !.flag = "WF_END"] \in War
           /\ SameSides([war EXCEPT !.flag = "WF_END"], war)
BY DEF War, SameSides

LEMMA CountedIs ==
    ASSUME WInv, NEW w \in WarIds, NEW id \in Ids, wars[w] # None, NEW field \in {"surrender", "dead"}
    PROVE  Counted(w, id, field) \in War /\ SameSides(Counted(w, id, field), wars[w])
<1>1. wars[w] \in War
  BY WInvIs
<1>2. wars[w].decl \in Side /\ wars[w].acpt \in Side
  BY <1>1, SidesOf
<1> DEFINE up(s) == [s EXCEPT ![field] = IF @ < MaxCount THEN @ + 1 ELSE @]
<1>3. ASSUME NEW s \in Side PROVE up(s) \in Side /\ up(s).guild = s.guild /\ up(s).size = s.size
  <2>1. CASE field = "surrender"
    <3>1. up(s) = [s EXCEPT !.surrender = IF @ < MaxCount THEN @ + 1 ELSE @]
      BY <2>1
    <3>2. up(s) \in Side
      BY <3>1, SideCounted
    <3>3. QED
      BY <3>1, <3>2 DEF Side
  <2>2. CASE field = "dead"
    <3>1. up(s) = [s EXCEPT !.dead = IF @ < MaxCount THEN @ + 1 ELSE @]
      BY <2>2
    <3>2. up(s) \in Side
      BY <3>1, SideCounted
    <3>3. QED
      BY <3>1, <3>2 DEF Side
  <2>3. QED
    BY <2>1, <2>2
<1>4. CASE SideName(w, id) = "decl"
  <2>1. Counted(w, id, field) = [wars[w] EXCEPT !.decl = up(wars[w].decl)]
    BY <1>1, <1>4 DEF Counted, War
  <2> HIDE DEF up
  <2>2. [wars[w] EXCEPT !.decl = up(wars[w].decl)] \in War
    BY <1>1, <1>2, <1>3, WarEdited
  <2>3. SameSides([wars[w] EXCEPT !.decl = up(wars[w].decl)], wars[w])
    BY <1>1, <1>2, <1>3 DEF War, SameSides
  <2>4. QED
    BY <2>1, <2>2, <2>3
<1>5. CASE SideName(w, id) = "acpt"
  <2>1. Counted(w, id, field) = [wars[w] EXCEPT !.acpt = up(wars[w].acpt)]
    BY <1>1, <1>5 DEF Counted, War
  <2> HIDE DEF up
  <2>2. [wars[w] EXCEPT !.acpt = up(wars[w].acpt)] \in War
    BY <1>1, <1>2, <1>3, WarEdited
  <2>3. SameSides([wars[w] EXCEPT !.acpt = up(wars[w].acpt)], wars[w])
    BY <1>1, <1>2, <1>3 DEF War, SameSides
  <2>4. QED
    BY <2>1, <2>2, <2>3
<1>6. QED
  BY <1>4, <1>5 DEF SideName

LEMMA AwayIs == ASSUME NEW s \in Side
    PROVE  Away(s) \in Side /\ Away(s).guild = s.guild /\ Away(s).size = s.size
<1>1. CASE guilds[s.guild].master \in online \/ s.absent = MaxCount
  BY <1>1 DEF Away
<1>2. CASE ~ (guilds[s.guild].master \in online \/ s.absent = MaxCount)
  <2>1. Away(s) = [s EXCEPT !.absent = s.absent + 1] /\ s.absent # MaxCount
    BY <1>2 DEF Away
  <2>2. Away(s) \in Side
    BY <2>1, SideCounted
  <2>3. QED
    BY <2>1, <2>2 DEF Side
<1>3. QED
  BY <1>1, <1>2

LEMMA AbsencesIs == ASSUME WInv, NEW w \in WarIds, wars[w] # None
    PROVE  /\ DeclAbsent(w) \in War /\ SameSides(DeclAbsent(w), wars[w])
           /\ Absences(w) \in War /\ SameSides(Absences(w), DeclAbsent(w))
           /\ SameSides(Absences(w), wars[w])
<1>1. wars[w] \in War /\ wars[w].decl \in Side /\ wars[w].acpt \in Side
  BY WInvIs, SidesOf
<1> DEFINE war == DeclAbsent(w)
<1>2. war = [wars[w] EXCEPT !.decl = Away(wars[w].decl)]
  BY <1>1 DEF DeclAbsent, War
<1>3. war \in War /\ SameSides(war, wars[w])
  <2>1. PICK s \in Side : /\ s = Away(wars[w].decl) /\ s.guild = wars[w].decl.guild
                          /\ s.size = wars[w].decl.size
    BY <1>1, AwayIs
  <2>2. war = [wars[w] EXCEPT !.decl = s]
    BY <1>2, <2>1
  <2> HIDE DEF war
  <2>3. QED
    BY <1>1, <2>1, <2>2, WarEdited DEF War, SameSides
<1>4. Absences(w) = [war EXCEPT !.acpt = Away(war.acpt)]
  BY DEF Absences
<1> HIDE DEF war
<1>5. war.decl \in Side /\ war.acpt \in Side
  BY <1>3 DEF War
<1>6. Absences(w) \in War /\ SameSides(Absences(w), war)
  <2>1. PICK s \in Side : s = Away(war.acpt) /\ s.guild = war.acpt.guild /\ s.size = war.acpt.size
    BY <1>5, AwayIs
  <2>2. Absences(w) = [war EXCEPT !.acpt = s]
    BY <1>4, <2>1
  <2>3. QED
    BY <1>3, <1>5, <2>1, <2>2, WarEdited DEF War, SameSides
<1>7. SameSides(Absences(w), wars[w])
  BY <1>3, <1>6 DEF SameSides
<1>8. QED
  BY <1>3, <1>6, <1>7 DEF war

\* The row of a war in the course of a handler.
LEMMA CourseCounts ==
    ASSUME NEW d, NEW ws, Course(d, guilds, ws), IInv, NEW w \in WarIds, ws[w] # None,
           NEW war \in War, SameSides(war, ws[w])
    PROVE  LET u == WarPatched(Last(d), w, war)
           IN  /\ u \in Image /\ Last(Append(d, u)) = u /\ d \in Seq(Image)
               /\ Course(Append(d, u), guilds, [ws EXCEPT ![w] = war])
               /\ war = ws[w] => u = Last(d) /\ [ws EXCEPT ![w] = war] = ws
<1> DEFINE vs == [ws EXCEPT ![w] = war]
           u == WarPatched(Last(d), w, war)
<1>1. d \in Seq(Image) /\ Last(d) \in Image /\ Last(d).wars = ws /\ ws \in [WarIds -> War \cup {None}]
  BY CourseIs
<1>2. vs \in [WarIds -> War \cup {None}] /\ vs[w] = war /\ war # None
      /\ \A v \in WarIds : v # w => vs[v] = ws[v]
  BY <1>1, SidesOf
<1>3. u = [Last(d) EXCEPT !.wars[w] = war]
  BY <1>1 DEF WarPatched
<1>4. u \in Image /\ u.guilds = Last(d).guilds /\ u.cooling = Last(d).cooling /\ u.wars = vs
  BY <1>1, <1>3, WarReplaced
<1>5. war = ws[w] => u = Last(d) /\ vs = ws
  BY <1>1, <1>3 DEF Image
<1> HIDE DEF vs, u
<1>6. Fewer(ws, vs)
  BY <1>2 DEF Fewer, SameSides
<1>7. Course(Append(d, u), guilds, vs) /\ Last(Append(d, u)) = u
  BY <1>2, <1>4, <1>6, CourseFewer
<1>8. QED
  BY <1>1, <1>4, <1>5, <1>7 DEF vs, u

LEMMA Regrouped ==
    ASSUME NEW d \in Seq(Image), NEW a \in Seq(Image), NEW b \in Seq(Image)
    PROVE  d \o (a \o b) = (d \o a) \o b
BY ConcatAssociative

\* One statement for each side whose master is away.
LEMMA AbsenceCourse == ASSUME WInv, NEW w \in WarIds, wars[w] # None
    PROVE  Course(disk \o AbsenceRows(w), guilds, [wars EXCEPT ![w] = Absences(w)])
<1> DEFINE a == WarPatched(Tables, w, DeclAbsent(w))
           b == WarPatched(a, w, Absences(w))
           R1 == IF DeclAbsent(w) = wars[w] THEN << >> ELSE <<a>>
           R2 == IF Absences(w) = DeclAbsent(w) THEN << >> ELSE <<b>>
           ws == [wars EXCEPT ![w] = DeclAbsent(w)]
           d == disk \o R1
<1>1. /\ DeclAbsent(w) \in War /\ SameSides(DeclAbsent(w), wars[w])
      /\ Absences(w) \in War /\ SameSides(Absences(w), DeclAbsent(w))
  BY AbsencesIs
<1>2. IInv /\ Course(disk, guilds, wars) /\ Last(disk) = Tables /\ wars \in [WarIds -> War \cup {None}]
  BY CourseStarts, WInvIs, InvariantIs DEF WInv
<1>3. Course(d, guilds, ws) /\ Last(d) = a /\ d \in Seq(Image) /\ R1 \in Seq(Image)
  <2> DEFINE war == DeclAbsent(w)
             u == WarPatched(Last(disk), w, war)
  <2>0. /\ u \in Image /\ Last(Append(disk, u)) = u /\ disk \in Seq(Image)
        /\ Course(Append(disk, u), guilds, [wars EXCEPT ![w] = war])
        /\ war = wars[w] => u = Last(disk) /\ [wars EXCEPT ![w] = war] = wars
    <3> HIDE DEF war
    <3>1. IInv /\ Course(disk, guilds, wars) /\ war \in War /\ SameSides(war, wars[w])
      BY <1>1, <1>2 DEF war
    <3>2. QED
      BY <3>1, CourseCounts
  <2>1. /\ a \in Image /\ Last(Append(disk, a)) = a /\ disk \in Seq(Image)
        /\ Course(Append(disk, a), guilds, ws)
        /\ DeclAbsent(w) = wars[w] => a = Tables /\ ws = wars
    BY <1>2, <2>0
  <2> HIDE DEF a, ws
  <2>2. CASE DeclAbsent(w) = wars[w]
    <3>1. d = disk /\ R1 = << >>
      BY <2>1, <2>2
    <3>2. QED
      BY <1>2, <2>1, <2>2, <3>1
  <2>3. CASE DeclAbsent(w) # wars[w]
    <3>1. R1 = <<a>>
      BY <2>3
    <3>2. disk \o <<a>> = Append(disk, a) /\ <<a>> \in Seq(Image)
      BY <2>1
    <3>3. d = disk \o <<a>>
      BY <3>1
    <3>4. R1 \in Seq(Image)
      BY <3>1, <3>2
    <3> HIDE DEF R1, d
    <3>5. d = Append(disk, a)
      BY <3>2, <3>3
    <3>6. d \in Seq(Image) /\ Last(d) = a /\ Course(d, guilds, ws)
      BY <2>1, <3>5
    <3>7. QED
      BY <3>4, <3>6
  <2>4. QED
    BY <2>2, <2>3
<1>4. ws[w] = DeclAbsent(w) /\ ws[w] # None /\ [ws EXCEPT ![w] = Absences(w)] = [wars EXCEPT ![w] = Absences(w)]
  BY <1>1, <1>2, SidesOf
<1> HIDE DEF a, ws, d, R1
<1>5. Course(d \o R2, guilds, [ws EXCEPT ![w] = Absences(w)]) /\ R2 \in Seq(Image)
  <2> DEFINE war == Absences(w)
             u == WarPatched(Last(d), w, war)
  <2>0. /\ u \in Image /\ Course(Append(d, u), guilds, [ws EXCEPT ![w] = war])
        /\ war = ws[w] => [ws EXCEPT ![w] = war] = ws
    <3> HIDE DEF war
    <3>1. IInv /\ Course(d, guilds, ws) /\ war \in War /\ SameSides(war, ws[w]) /\ ws[w] # None
      BY <1>1, <1>2, <1>3, <1>4 DEF war
    <3>2. QED
      BY <3>1, CourseCounts
  <2>1. /\ b \in Image /\ Course(Append(d, b), guilds, [ws EXCEPT ![w] = Absences(w)])
        /\ Absences(w) = DeclAbsent(w) => [ws EXCEPT ![w] = Absences(w)] = ws
    BY <1>3, <1>4, <2>0
  <2> HIDE DEF b
  <2>2. CASE Absences(w) = DeclAbsent(w)
    <3>1. d \o R2 = d /\ R2 = << >>
      BY <1>3, <2>2
    <3>2. QED
      BY <1>3, <2>1, <2>2, <3>1
  <2>3. CASE Absences(w) # DeclAbsent(w)
    <3>1. R2 = <<b>>
      BY <2>3
    <3>2. d \o R2 = Append(d, b) /\ R2 \in Seq(Image)
      BY <1>3, <2>1, <3>1
    <3>3. QED
      BY <2>1, <3>2
  <2>4. QED
    BY <2>2, <2>3
<1>6. disk \o AbsenceRows(w) = d \o R2
  <2>1. AbsenceRows(w) = R1 \o R2
    BY DEF AbsenceRows, R1, a
  <2>2. disk \in Seq(Image)
    BY <1>2, CourseIs
  <2> HIDE DEF R2
  <2>3. R1 \in Seq(Image) /\ R2 \in Seq(Image)
    BY <1>3, <1>5
  <2>4. disk \o (R1 \o R2) = (disk \o R1) \o R2
    BY <2>2, <2>3, Regrouped
  <2>5. QED
    BY <2>1, <2>4 DEF d
<1>7. QED
  BY <1>4, <1>5, <1>6

------------------------------------------------------------------------------
(* A war's result.                                                            *)

LEMMA ScoredIs == ASSUME NEW g \in Guild
    PROVE  /\ Won(g) \in Guild /\ Won(g).name = g.name /\ Won(g).power = g.power
           /\ Won(g).rank = g.rank /\ Won(g).master = g.master
           /\ Lost(g) \in Guild /\ Lost(g).name = g.name /\ Lost(g).power = g.power
           /\ Lost(g).rank = g.rank /\ Lost(g).master = g.master
<1>1. MaxCount \in Nat
  BY GuildAssumption
<1> DEFINE up(x) == IF x < MaxCount THEN x + 1 ELSE x
<1>2. ASSUME NEW x \in 0 .. MaxCount PROVE up(x) \in 0 .. MaxCount
  BY <1>1
<1>3. g.win \in 0 .. MaxCount /\ g.lose \in 0 .. MaxCount
  BY DEF Guild
<1>4. up(g.win) \in 0 .. MaxCount /\ up(g.lose) \in 0 .. MaxCount
  BY <1>2, <1>3
<1>5. Won(g) = [g EXCEPT !.win = up(g.win)] /\ Lost(g) = [g EXCEPT !.lose = up(g.lose)]
  BY DEF Won, Lost
<1> HIDE DEF up
<1>6. QED
  BY <1>4, <1>5 DEF Guild

\* Both guilds' rows, one after the other.
Scores(d, gs, winner, loser) ==
    LET t1 == RowPatched(Last(d), winner, Won(gs[winner]))
    IN  <<t1, RowPatched(t1, loser, Lost(gs[loser]))>>

LEMMA ScoresKeep ==
    ASSUME NEW d, NEW ws, Course(d, guilds, ws), IInv, NEW winner \in Ids, NEW loser \in Ids,
           winner # loser, guilds[winner] # None, guilds[loser] # None
    PROVE  LET hs == [guilds EXCEPT ![winner] = Won(guilds[winner]), ![loser] = Lost(guilds[loser])]
               rows == Scores(d, guilds, winner, loser)
           IN  /\ rows[1] \in Image /\ rows[2] \in Image /\ rows = <<rows[1], rows[2]>>
               /\ Course(Append(Append(d, rows[1]), rows[2]), hs, ws)
               /\ Last(Append(Append(d, rows[1]), rows[2])) = rows[2]
<1> DEFINE g == Won(guilds[winner])
           h == Lost(guilds[loser])
           gs == [guilds EXCEPT ![winner] = g]
           t1 == RowPatched(Last(d), winner, g)
           t2 == RowPatched(t1, loser, h)
<1>1. guilds \in Collection /\ guilds[winner] \in Guild /\ guilds[loser] \in Guild
  <2>1. guilds \in Collection
    BY InvariantIs
  <2>2. QED
    BY <2>1 DEF Collection
<1>2. /\ g \in Guild /\ g.name = guilds[winner].name /\ g.power = guilds[winner].power
      /\ g.rank = guilds[winner].rank /\ g.master = guilds[winner].master
      /\ h \in Guild /\ h.name = guilds[loser].name /\ h.power = guilds[loser].power
      /\ h.rank = guilds[loser].rank /\ h.master = guilds[loser].master
  BY <1>1, ScoredIs
<1> HIDE DEF g, h
<1>3. t1 \in Image /\ Course(Append(d, t1), gs, ws) /\ Last(Append(d, t1)) = t1
  BY <1>2, CourseRow
<1>4. gs[loser] = guilds[loser]
  BY <1>1 DEF Collection
<1> HIDE DEF t1, gs
<1>5. /\ t2 \in Image /\ Last(Append(Append(d, t1), t2)) = t2
      /\ Course(Append(Append(d, t1), t2), [gs EXCEPT ![loser] = h], ws)
  <2>1. RowPatched(Last(Append(d, t1)), loser, h) = t2
    BY <1>3
  <2> HIDE DEF t2
  <2>2. gs[loser] # None /\ h.name = gs[loser].name /\ h.power = gs[loser].power
        /\ h.rank = gs[loser].rank /\ h.master = gs[loser].master
    BY <1>2, <1>4
  <2>3. QED
    BY <1>2, <1>3, <2>1, <2>2, CourseRow
<1>6. [gs EXCEPT ![loser] = h] = [guilds EXCEPT ![winner] = g, ![loser] = h]
  BY <1>1 DEF gs, Collection
<1>7. Scores(d, guilds, winner, loser) = <<t1, t2>>
  BY DEF Scores, t1, g, h
<1> HIDE DEF t2
<1>8. QED
  BY <1>3, <1>5, <1>6, <1>7 DEF g, h

\* The statements of a result are those of its cause, the scores, and the removal.
Winners(w) == {None, wars[w].decl.guild, wars[w].acpt.guild}

LEMMA ThirdAppended == ASSUME NEW a \in Image, NEW b \in Image, NEW c \in Image
    PROVE  Append(<<a, b>>, c) = <<a, b, c>>
<1>1. <<a, b, c>> \in Seq(Image) /\ Append(<<a, b>>, c) \in Seq(Image)
  OBVIOUS
<1>2. Len(<<a, b, c>>) = 3 /\ Len(Append(<<a, b>>, c)) = 3
  OBVIOUS
<1>3. \A i \in 1 .. 3 : Append(<<a, b>>, c)[i] = <<a, b, c>>[i]
  OBVIOUS
<1>4. QED
  BY <1>1, <1>2, <1>3, SeqEqual

LEMMA ResultRowsIs ==
    ASSUME WInv, NEW w \in WarIds, wars[w] # None, NEW winner \in Winners(w),
           NEW d, NEW ws, Course(d, guilds, ws), Fewer(wars, ws),
           NEW R, R = ResultRows(Last(d), w, winner)
    PROVE  /\ Course(d \o R, Scored(w, winner), [ws EXCEPT ![w] = None]) /\ R \in Seq(Image)
<1> DEFINE vs == [ws EXCEPT ![w] = None]
<1>1. /\ IInv /\ d \in Seq(Image) /\ Last(d) \in Image /\ ws \in [WarIds -> War \cup {None}]
  BY CourseIs DEF WInv
<1>2. vs \in [WarIds -> War \cup {None}] /\ vs[w] = None /\ \A v \in WarIds : v # w => vs[v] = ws[v]
  BY <1>1
<1>3. Fewer(ws, vs)
  BY <1>2 DEF Fewer, SameSides
<1>4. ASSUME NEW e, NEW gs, Course(e, gs, ws)
      PROVE  /\ WarRemoved(Last(e), w) \in Image
             /\ Course(Append(e, WarRemoved(Last(e), w)), gs, vs)
  <2>1. Last(e) \in Image /\ Last(e).wars = ws
    BY <1>4, CourseIs
  <2> DEFINE z == WarRemoved(Last(e), w)
  <2>2. z \in Image /\ z.guilds = Last(e).guilds /\ z.cooling = Last(e).cooling /\ z.wars = vs
    BY <2>1, WarReplaced DEF WarRemoved
  <2> HIDE DEF z
  <2>3. Course(Append(e, z), gs, vs)
    BY <1>1, <1>2, <1>3, <1>4, <2>2, CourseFewer
  <2>4. QED
    BY <2>2, <2>3 DEF z
<1>5. CASE winner = None
  <2> DEFINE z == WarRemoved(Last(d), w)
  <2>1. R = <<z>>
    BY <1>5 DEF ResultRows, ScoreRows
  <2>2. z \in Image /\ Course(Append(d, z), guilds, vs)
    BY <1>4
  <2> HIDE DEF z, vs
  <2>3. d \o R = Append(d, z) /\ R \in Seq(Image)
    BY <1>1, <2>1, <2>2, Statements
  <2>4. Scored(w, winner) = guilds
    BY <1>5 DEF Scored
  <2>5. QED
    BY <2>2, <2>3, <2>4 DEF vs
<1>6. CASE winner # None
  <2> DEFINE loser == OtherGuild(w, winner)
             rows == Scores(d, guilds, winner, loser)
             hs == [guilds EXCEPT ![winner] = Won(guilds[winner]), ![loser] = Lost(guilds[loser])]
             e == Append(Append(d, rows[1]), rows[2])
             z == WarRemoved(rows[2], w)
  <2>1. winner \in Ids /\ loser \in Ids /\ winner # loser
        /\ guilds[winner] # None /\ guilds[loser] # None
    <3>1. wars[w] \in War /\ wars[w].decl.guild # wars[w].acpt.guild
          /\ guilds[wars[w].decl.guild] # None /\ guilds[wars[w].acpt.guild] # None
      BY OtherIs, WarNumbers, SidesOf, WInvIs DEF WInv, Fielded, Apart
    <3>2. QED
      BY <1>6, <3>1, SidesOf DEF OtherGuild, Winners
  <2>2. ScoreRows(Last(d), w, winner) = rows
    BY <1>6 DEF ScoreRows, Scores
  <2> HIDE DEF loser
  <2>3. /\ rows[1] \in Image /\ rows[2] \in Image /\ rows = <<rows[1], rows[2]>>
        /\ Course(e, hs, ws) /\ Last(e) = rows[2]
    BY <1>1, <2>1, ScoresKeep
  <2>4. Scored(w, winner) = hs
    BY <1>6 DEF Scored, loser
  <2> HIDE DEF rows, hs
  <2>5. z \in Image /\ Course(Append(e, z), hs, vs)
    BY <1>4, <2>3
  <2>6. R = <<rows[1], rows[2], z>>
    <3>1. rows # << >> /\ Len(rows) = 2
      <4>1. \A a, b : <<a, b>> # << >> /\ Len(<<a, b>>) = 2
        OBVIOUS
      <4>2. rows = <<rows[1], rows[2]>>
        BY <2>3
      <4>3. QED
        BY <4>1, <4>2
    <3>2. R = Append(rows, z)
      BY <2>2, <3>1 DEF ResultRows
    <3> HIDE DEF z
    <3>3. Append(<<rows[1], rows[2]>>, z) = <<rows[1], rows[2], z>>
      BY <2>3, <2>5, ThirdAppended
    <3>4. QED
      BY <2>3, <3>2, <3>3
  <2> HIDE DEF z, vs
  <2>7. d \o R = Append(e, z) /\ R \in Seq(Image)
    BY <1>1, <2>3, <2>5, <2>6, Statements
  <2>8. QED
    BY <2>4, <2>5, <2>7 DEF vs
<1>7. QED
  BY <1>5, <1>6

\* A cause is nothing, or the war's row once more.
Causes(w) == {<< >>} \cup {<<WarPatched(Tables, w, war)>> : war \in {x \in War : SameSides(x, wars[w])}}

LEMMA ResultCourse ==
    ASSUME WInv, NEW w \in WarIds, wars[w] # None, NEW winner \in Winners(w), NEW cause \in Causes(w),
           NEW t, t = IF cause = << >> THEN Tables ELSE cause[Len(cause)]
    PROVE  Course(disk \o (cause \o ResultRows(t, w, winner)), Scored(w, winner), [wars EXCEPT ![w] = None])
<1> DEFINE R == ResultRows(t, w, winner)
<1>1. IInv /\ disk \in Seq(Image) /\ Last(disk) = Tables /\ wars \in [WarIds -> War \cup {None}]
  BY WInvIs, InvariantIs
<1>2. PICK d, ws : /\ Course(d, guilds, ws) /\ Fewer(wars, ws) /\ Last(d) = t
                   /\ d = disk \o cause /\ cause \in Seq(Image)
                   /\ [ws EXCEPT ![w] = None] = [wars EXCEPT ![w] = None]
  <2>1. CASE cause = << >>
    <3>1. disk \o cause = disk /\ t = Last(disk) /\ cause \in Seq(Image)
      BY <1>1, <2>1
    <3>2. QED
      BY <3>1, CourseStarts, FewerItself
  <2>2. CASE cause # << >>
    <3>1. PICK war \in War : SameSides(war, wars[w]) /\ cause = <<WarPatched(Tables, w, war)>>
      BY <2>2 DEF Causes
    <3> DEFINE u == WarPatched(Tables, w, war)
               vs == [wars EXCEPT ![w] = war]
    <3>2. /\ vs \in [WarIds -> War \cup {None}] /\ Fewer(wars, vs) /\ u \in Image
          /\ Course(Append(disk, u), guilds, vs) /\ Last(Append(disk, u)) = u
      BY <3>1, WarRowIs
    <3>3. [vs EXCEPT ![w] = None] = [wars EXCEPT ![w] = None]
      BY <1>1
    <3> HIDE DEF u, vs
    <3>4. cause = <<u>> /\ t = u /\ cause \in Seq(Image)
      BY <2>2, <3>1, <3>2 DEF u
    <3>5. disk \o cause = Append(disk, u)
      BY <1>1, <3>2, <3>4, Statements
    <3>6. QED
      BY <3>2, <3>3, <3>4, <3>5
  <2>3. QED
    BY <2>1, <2>2
<1>3. R = ResultRows(Last(d), w, winner)
  BY <1>2
<1> HIDE DEF R
<1>4. Course(d \o R, Scored(w, winner), [ws EXCEPT ![w] = None]) /\ R \in Seq(Image)
  BY <1>2, <1>3, ResultRowsIs
<1>5. disk \o (cause \o R) = d \o R
  <2>1. disk \in Seq(Image) /\ cause \in Seq(Image) /\ R \in Seq(Image)
    BY <1>1, <1>2, <1>4
  <2>2. disk \o (cause \o R) = (disk \o cause) \o R
    BY ONLY <2>1, ConcatAssociative
  <2>3. QED
    BY <1>2, <2>2
<1>6. QED
  BY <1>2, <1>4, <1>5 DEF R

LEMMA ResultKeeps ==
    ASSUME WInv, NEW w \in WarIds, wars[w] # None, NEW winner \in Winners(w), NEW cause \in Causes(w),
           Result(w, winner, cause), age' \in [WarIds -> 0 .. (Duration + 1)]
    PROVE  WInv'
<1> DEFINE decl == wars[w].decl.guild
           acpt == wars[w].acpt.guild
           away == OnlineMembers(decl) \cup OnlineMembers(acpt)
<1>1. /\ guilds' = Scored(w, winner) /\ link' = Unlinked(w, decl)
      /\ idWar' = Released(decl, acpt) /\ truces' = [truces EXCEPT ![w] = None]
      /\ wars' = [wars EXCEPT ![w] = None]
      /\ UNCHANGED <<session, idGuild, byName, nextId, cooling, pending, proposals, lastWar, enabled>>
  BY DEF Result
<1>2. Course(disk', guilds', wars')
  <2> DEFINE t == IF cause = << >> THEN Tables ELSE cause[Len(cause)]
  <2>1. disk' = disk \o (cause \o ResultRows(t, w, winner))
    BY DEF Result, Issue
  <2>2. QED
    BY <1>1, <2>1, ResultCourse
<1>3. /\ IInv /\ wars \in [WarIds -> War \cup {None}] /\ link \in [Ids -> 0 .. MaxWars]
      /\ WarVariables /\ Linkage(link, wars) /\ Marked(online, idWar, guilds, wars)
      /\ OneWarEach(wars) /\ online \subseteq Players
  BY WInvIs, InvariantIs DEF WInv, Apart
<1>4. wars[w] \in War /\ decl \in Ids /\ acpt \in Ids /\ decl # acpt /\ OtherGuild(w, decl) = acpt
  BY <1>3, SidesOf, OtherIs DEF OtherGuild
<1>5. wars'[w] = None /\ \A v \in WarIds : v # w => wars'[v] = wars[v]
  BY <1>1, <1>3
<1>6. Fewer(wars, wars')
  BY <1>5 DEF Fewer, SameSides
<1>7. /\ link' \in [Ids -> 0 .. MaxWars] /\ link'[decl] = 0 /\ link'[acpt] = 0
      /\ \A x \in Ids \ {decl, acpt} : link'[x] = link[x]
  BY <1>1, <1>3, <1>4, WarNumbers DEF Unlinked
<1>8. /\ idWar' \in [Players -> 0 .. MaxWars]
      /\ \A p \in Players : idWar'[p] = IF p \in away THEN 0 ELSE idWar[p]
  BY <1>1, <1>3, WarNumbers DEF Released, StampedWith, WarVariables
<1>9. WarVariables'
  <2>1. truces' \in [WarIds -> Ids \cup {None}]
    BY <1>1, <1>3 DEF WarVariables
  <2>2. QED
    BY <1>1, <1>3, <1>8, <2>1 DEF WarVariables
<1>10. Linkage(link', wars')
  <2>1. ASSUME NEW v \in WarIds, NEW x \in Ids PROVE link'[x] = v <=> Fights(x, wars'[v])
    <3>1. Fights(x, wars[w]) <=> x \in {decl, acpt}
      BY <1>4, SidesOf DEF Fights
    <3>2. CASE x \in {decl, acpt}
      <4>1. link'[x] # v
        BY <1>7, <3>2, WarNumbers
      <4>2. ~ Fights(x, wars'[v])
        BY <1>3, <1>5, <3>1, <3>2 DEF OneWarEach, Fights
      <4>3. QED
        BY <4>1, <4>2
    <3>3. CASE x \notin {decl, acpt}
      BY <1>3, <1>5, <1>7, <3>1, <3>3 DEF Linkage, Fights
    <3>4. QED
      BY <3>2, <3>3
  <2>2. QED
    BY <2>1 DEF Linkage
<1>11. ASSUME NEW p \in online, idWar'[p] # 0 PROVE idWar'[p] = idWar[p] /\ wars'[idWar[p]] # None
  <2>1. p \in Players /\ p \notin away /\ idWar'[p] = idWar[p] /\ idWar[p] # 0
    BY <1>3, <1>8, <1>11
  <2>2. PICK x \in Ids : p \in Members(guilds[x]) /\ Fights(x, wars[idWar[p]])
    BY <1>3, <2>1 DEF Marked
  <2>3. idWar[p] # w
    BY <2>1, <2>2 DEF Fights, OnlineMembers
  <2>4. idWar[p] \in WarIds
    BY <1>3, <2>1, WarNumbers DEF WarVariables
  <2>5. QED
    BY <1>5, <2>1, <2>2, <2>3, <2>4 DEF Fights
<1>12. QED
  BY <1>1, <1>2, <1>6, <1>7, <1>9, <1>10, <1>11, WarKept

LEMMA WinnersIs == ASSUME WInv, NEW w \in WarIds, NEW x \in Ids, Fights(x, wars[w])
    PROVE  OtherGuild(w, x) \in Winners(w)
BY DEF OtherGuild, Winners

LEMMA SurrenderKeeps ==
    ASSUME WInv, NEW p \in Players, NEW id \in Ids, Surrender(p, id) PROVE WInv'
<1> DEFINE w == link[id]
           war == Counted(w, id, "surrender")
           row == <<WarPatched(Tables, w, war)>>
<1>1. w \in WarIds /\ wars[w] # None /\ Fights(id, wars[w])
  BY AtWarIs, SidesOf DEF Surrender
<1>2. war \in War /\ SameSides(war, wars[w])
  BY <1>1, CountedIs
<1>3. age' = age /\ WarVariables
  BY DEF Surrender, WInv
<1>4. CASE GivesUp(w, id, p)
  <2>1. Result(w, OtherGuild(w, id), row)
    BY <1>4 DEF Surrender
  <2>2. row \in Causes(w)
    BY <1>2 DEF Causes
  <2>3. age' \in [WarIds -> 0 .. (Duration + 1)]
    BY <1>3 DEF WarVariables
  <2> HIDE DEF w, row
  <2>4. QED
    BY <1>1, <2>1, <2>2, <2>3, WinnersIs, ResultKeeps
<1>5. CASE ~ GivesUp(w, id, p)
  <2>1. /\ wars' = [wars EXCEPT ![w] = war] /\ idWar' = [idWar EXCEPT ![p] = 0] /\ disk' = disk \o row
        /\ UNCHANGED <<session, idGuild, rosters, pending, link, diplomacy, lastWar, enabled>>
    BY <1>5 DEF Surrender, Issue
  <2> HIDE DEF w, war
  <2>2. idWar' \in [Players -> 0 .. MaxWars] /\ \A q \in Players : idWar'[q] # 0 => idWar'[q] = idWar[q]
    BY <1>3, <2>1, WarNumbers DEF WarVariables
  <2>3. WarVariables' /\ online \subseteq Players
    BY <1>3, <2>1, <2>2, InvariantIs DEF WarVariables, diplomacy, WInv
  <2>4. QED
    BY <1>1, <1>2, <2>1, <2>2, <2>3, RowKeeps
<1>6. QED
  BY <1>4, <1>5

LEMMA AcceptTruceKeeps ==
    ASSUME WInv, NEW p \in Players, NEW id \in Ids, AcceptTruce(p, id) PROVE WInv'
<1>1. link[id] \in WarIds /\ wars[link[id]] # None
  BY AtWarIs, SidesOf DEF AcceptTruce
<1>2. Result(link[id], None, << >>) /\ age' = age
  BY DEF AcceptTruce
<1>3. age' \in [WarIds -> 0 .. (Duration + 1)]
  BY <1>2 DEF WInv, WarVariables
<1>4. None \in Winners(link[id]) /\ << >> \in Causes(link[id])
  BY DEF Winners, Causes
<1>5. QED
  BY <1>1, <1>2, <1>3, <1>4, ResultKeeps

LEMMA WarDeathKeeps ==
    ASSUME WInv, NEW killer \in Players, NEW p \in Players, NEW id \in Ids, WarDeath(killer, p, id)
    PROVE  WInv'
<1> DEFINE w == link[id]
           war == Counted(w, id, "dead")
<1>1. w \in WarIds /\ wars[w] # None /\ Fights(id, wars[w])
  BY AtWarIs, SidesOf DEF WarDeath
<1>2. war \in War /\ SameSides(war, wars[w])
  BY <1>1, CountedIs
<1>3. age' = age /\ WarVariables
  BY DEF WarDeath, WInv
<1>4. CASE IsMaster(p, id)
  <2>1. Result(w, OtherGuild(w, id), << >>)
    BY <1>4 DEF WarDeath
  <2>2. << >> \in Causes(w) /\ age' \in [WarIds -> 0 .. (Duration + 1)]
    BY <1>3 DEF Causes, WarVariables
  <2> HIDE DEF w
  <2>3. QED
    BY <1>1, <2>1, <2>2, WinnersIs, ResultKeeps
<1>5. CASE ~ IsMaster(p, id)
  <2>1. /\ wars' = [wars EXCEPT ![w] = war] /\ disk' = disk \o <<WarPatched(Tables, w, war)>>
        /\ UNCHANGED <<session, idGuild, rosters, pending, link, idWar, diplomacy, lastWar, enabled>>
    BY <1>5 DEF WarDeath, Issue
  <2> HIDE DEF w, war
  <2>2. WarVariables'
    BY <1>3, <2>1 DEF WarVariables, diplomacy
  <2>3. QED
    BY <1>1, <1>2, <2>1, <2>2, RowKeeps
<1>6. QED
  BY <1>4, <1>5

LEMMA TickKeeps == ASSUME WInv, NEW w \in WarIds, Tick(w) PROVE WInv'
<1>1. wars[w] # None /\ age' = Older(w) /\ WarVariables /\ wars[w] \in War
  BY WInvIs DEF Tick, WInv
<1>2. age' \in [WarIds -> 0 .. (Duration + 1)]
  <2>1. Duration \in Nat /\ age[w] \in 0 .. (Duration + 1)
    BY <1>1, GuildWarAssumption DEF WarVariables
  <2>2. (IF age[w] <= Duration THEN age[w] + 1 ELSE age[w]) \in 0 .. (Duration + 1)
    BY ONLY <2>1
  <2>3. QED
    BY <1>1, <2>2 DEF Older, WarVariables
<1>3. CASE Expires(w)
  <2> DEFINE war == [wars[w] EXCEPT !.flag = "WF_END"]
  <2>1. war \in War /\ SameSides(war, wars[w])
    BY <1>1, SidesOf, WarEdited
  <2>2. Result(w, TimeoutWinner(w), <<WarPatched(Tables, w, war)>>)
    BY <1>3 DEF Tick
  <2> HIDE DEF war
  <2>3. <<WarPatched(Tables, w, war)>> \in Causes(w)
    BY <2>1 DEF Causes
  <2>4. TimeoutWinner(w) \in Winners(w)
    BY DEF TimeoutWinner, Winners
  <2>5. QED
    BY <1>1, <1>2, <2>2, <2>3, <2>4, ResultKeeps
<1>4. CASE ~ Expires(w)
  <2> DEFINE war == Absences(w)
  <2>1. /\ wars' = [wars EXCEPT ![w] = war]
        /\ IF AbsenceRows(w) = << >> THEN UNCHANGED disk ELSE disk' = disk \o AbsenceRows(w)
        /\ UNCHANGED <<session, idGuild, rosters, pending, link, idWar, diplomacy, lastWar, enabled>>
    BY <1>4 DEF Tick, Issue
  <2>2. war \in War /\ SameSides(war, wars[w])
    BY <1>1, AbsencesIs
  <2>3. Course(disk', guilds, wars')
    <3>1. Course(disk \o AbsenceRows(w), guilds, wars') /\ disk \in Seq(Image)
      BY <1>1, <2>1, AbsenceCourse, WInvIs, InvariantIs DEF WInv
    <3>2. disk' = disk \o AbsenceRows(w)
      BY <2>1, <3>1
    <3>3. QED
      BY <3>1, <3>2
  <2> HIDE DEF war
  <2>4. WarVariables'
    BY <1>1, <1>2, <2>1 DEF WarVariables, diplomacy
  <2>5. QED
    BY <1>1, <2>1, <2>2, <2>3, <2>4, CountKeeps
<1>5. QED
  BY <1>3, <1>4

\* Two guilds that fight nobody begin a war.
LEMMA AcceptWarKeeps ==
    ASSUME WInv, NEW p \in Players, NEW id \in Ids, NEW decl \in Ids, AcceptWar(p, id, decl)
    PROVE  WInv'
<1> DEFINE w == lastWar + 1
           war == [decl |-> NewSide(decl, SizeOf(decl)), acpt |-> NewSide(id, SizeOf(id)),
                   flag |-> "WF_WARTIME"]
           u == [Tables EXCEPT !.wars[w] = war]
           S == OnlineMembers(decl) \cup OnlineMembers(id)
<1>1. /\ MayAct(p, id) /\ ~ AtWar(id) /\ guilds[decl] # None /\ decl # id /\ ~ AtWar(decl)
      /\ w \in WarIds /\ wars[w] = None
      /\ proposals' = [proposals EXCEPT ![id] = None]
      /\ lastWar' = w /\ wars' = [wars EXCEPT ![w] = war] /\ age' = [age EXCEPT ![w] = 0]
      /\ link' = [link EXCEPT ![decl] = w, ![id] = w] /\ idWar' = StampedWith(S, w)
      /\ disk' = disk \o <<u>>
      /\ UNCHANGED <<session, idGuild, rosters, pending, truces, enabled>>
  BY DEF AcceptWar, IsGuild, Issue, Linked
<1>2. /\ IInv /\ WarVariables /\ Linkage(link, wars) /\ Fielded(guilds, wars) /\ Apart(wars)
      /\ Tables.wars = wars /\ Tables \in Image /\ Last(disk) = Tables /\ Warlike(Tables, exists)
      /\ Marked(online, idWar, guilds, wars) /\ wars \in [WarIds -> War \cup {None}]
      /\ link \in [Ids -> 0 .. MaxWars] /\ disk \in Seq(Image) /\ guilds \in Collection
      /\ online \subseteq Players
  BY WInvIs, InvariantIs DEF WInv
<1>3. guilds[id] # None /\ guilds[id] \in Guild /\ guilds[decl] \in Guild
  BY <1>1, <1>2, MayActIs, MembersOf DEF Collection
<1>4. ASSUME NEW x \in Ids, guilds[x] \in Guild PROVE NewSide(x, SizeOf(x)) \in Side
  <2>1. Members(guilds[x]) \subseteq Players /\ IsFiniteSet(Players)
    BY GuildAssumption DEF Members
  <2>2. /\ Cardinality(Members(guilds[x])) <= Cardinality(Players)
        /\ Cardinality(Members(guilds[x])) \in Nat /\ Cardinality(Players) \in Nat
    BY <2>1, FS_Subset, FS_CardinalityType
  <2>3. SizeOf(x) \in 0 .. Cardinality(Players)
    BY <2>2 DEF SizeOf
  <2>4. 0 \in 0 .. MaxCount
    BY GuildAssumption
  <2>5. QED
    BY <2>3, <2>4 DEF NewSide, Side
<1>5. /\ war \in War /\ war # None /\ war.decl.guild = decl /\ war.acpt.guild = id
      /\ war.decl.size = Cardinality(Members(guilds[decl]))
      /\ war.acpt.size = Cardinality(Members(guilds[id]))
  <2>1. NewSide(decl, SizeOf(decl)) \in Side /\ NewSide(id, SizeOf(id)) \in Side
    BY <1>3, <1>4
  <2>2. war \in War
    BY <2>1 DEF War
  <2>3. QED
    BY <2>2, SidesOf DEF NewSide, SizeOf
<1> HIDE DEF w, war
<1>6. /\ u \in Image /\ u.cooling = Tables.cooling /\ u.guilds = Tables.guilds /\ u.wars = wars'
      /\ wars' \in [WarIds -> War \cup {None}]
  <2>1. /\ u \in Image /\ u.cooling = Tables.cooling /\ u.guilds = Tables.guilds
        /\ u.wars = [wars EXCEPT ![w] = war] /\ u.wars \in [WarIds -> War \cup {None}]
    <3>1. w \in WarIds /\ war \in War \cup {None} /\ Tables \in Image /\ Tables.wars = wars
      BY <1>1, <1>2, <1>5
    <3>2. QED
      BY <3>1, WarReplaced
  <2>2. QED
    BY <1>1, <2>1
<1> HIDE DEF u
<1>7. wars'[w] = war /\ \A v \in WarIds : v # w => wars'[v] = wars[v]
  BY <1>1, <1>2
<1>8. \A x \in {decl, id}, v \in WarIds : link[x] # v \/ wars[v] = None
  BY <1>1, WarNumbers DEF AtWar
<1>9. \A x \in {decl, id}, v \in WarIds : ~ Fights(x, wars[v])
  BY <1>2, <1>8 DEF Linkage, Fights
<1>10. \A x \in Ids : Fights(x, wars'[w]) <=> x \in {decl, id}
  BY <1>5, <1>7 DEF Fights
<1>11. Linkage(link', wars')
  <2>1. /\ link'[decl] = w /\ link'[id] = w
        /\ \A x \in Ids \ {decl, id} : link'[x] = link[x]
    BY <1>1, <1>2
  <2>2. ASSUME NEW v \in WarIds, NEW x \in Ids PROVE link'[x] = v <=> Fights(x, wars'[v])
    <3>1. CASE v = w
      <4>1. link[x] # w
        BY <1>1, <1>2 DEF Linkage, Fights
      <4>2. QED
        BY <1>10, <2>1, <3>1, <4>1
    <3>2. CASE v # w
      BY <1>2, <1>7, <1>9, <2>1, <3>2 DEF Linkage
    <3>3. QED
      BY <3>1, <3>2
  <2>3. QED
    BY <2>2 DEF Linkage
<1>12. Fielded(guilds, wars')
  BY <1>1, <1>2, <1>3, <1>5, <1>7 DEF Fielded
<1>13. Apart(wars')
  <2>1. ASSUME NEW v \in WarIds, NEW y \in WarIds, NEW x \in Ids, Fights(x, wars'[v]), Fights(x, wars'[y])
        PROVE  v = y
    <3>1. CASE x \in {decl, id}
      BY <1>7, <1>9, <2>1, <3>1
    <3>2. CASE x \notin {decl, id}
      BY <1>2, <1>7, <1>10, <2>1, <3>2 DEF Apart, OneWarEach
    <3>3. QED
      BY <3>1, <3>2
  <2>2. \A v \in WarIds : wars'[v] # None => wars'[v].decl.guild # wars'[v].acpt.guild
    BY <1>1, <1>2, <1>5, <1>7 DEF Apart
  <2>3. QED
    BY <2>1, <2>2 DEF Apart, OneWarEach
<1>14. Warlike(u, exists)
  <2>1. ASSUME exists = Players, NEW v \in WarIds, u.wars[v] # None
        PROVE  FullStrength(u.guilds, u.wars[v].decl) /\ FullStrength(u.guilds, u.wars[v].acpt)
    <3>1. CASE v = w
      <4>1. u.guilds = guilds
        <5>1. Tables = [guilds |-> guilds, cooling |-> cooling, wars |-> wars]
          BY <1>2, <2>1, StoredAsLiveIs DEF StoredAsLive
        <5>2. QED
          BY <1>6, <5>1
      <4>2. QED
        BY <1>1, <1>3, <1>5, <1>6, <1>7, <3>1, <4>1 DEF FullStrength
    <3>2. CASE v # w
      BY <1>2, <1>6, <1>7, <2>1, <3>2 DEF Warlike
    <3>3. QED
      BY <3>1, <3>2
  <2>2. QED
    BY <1>6, <1>13, <2>1 DEF Warlike
<1>15. Course(disk', guilds', wars')
  <2>1. Course(Append(disk, u), guilds, wars')
    BY <1>2, <1>6, <1>14, CourseStarts, CourseWars
  <2>2. disk' = Append(disk, u) /\ guilds' = guilds
    BY <1>1, <1>2, <1>6, Statements DEF rosters
  <2>3. QED
    BY <2>1, <2>2
<1>16. w \in 0 .. MaxWars
  BY <1>1, WarNumbers
<1>17. /\ idWar' \in [Players -> 0 .. MaxWars]
       /\ \A q \in Players : idWar'[q] = IF q \in S THEN w ELSE idWar[q]
  BY <1>1, <1>2, <1>16 DEF StampedWith, WarVariables
<1>18. WarVariables' /\ link' \in [Ids -> 0 .. MaxWars]
  <2>1. 0 \in 0 .. (Duration + 1)
    BY GuildWarAssumption
  <2>2. age' \in [WarIds -> 0 .. (Duration + 1)] /\ proposals' \in [Ids -> Ids \cup {None}]
    BY <1>1, <1>2, <2>1 DEF WarVariables
  <2>3. QED
    BY <1>1, <1>2, <1>16, <1>17, <2>2 DEF WarVariables
<1>19. Marked(online, idWar', guilds, wars')
  <2>1. ASSUME NEW q \in online, idWar'[q] # 0
        PROVE  \E x \in Ids : q \in Members(guilds[x]) /\ Fights(x, wars'[idWar'[q]])
    <3>1. CASE q \in S
      <4>1. idWar'[q] = w /\ (q \in Members(guilds[decl]) \/ q \in Members(guilds[id]))
        BY <1>2, <1>17, <2>1, <3>1 DEF OnlineMembers
      <4>2. QED
        BY <1>10, <4>1
    <3>2. CASE q \notin S
      <4>1. idWar'[q] = idWar[q] /\ idWar[q] \in WarIds
        BY <1>2, <1>17, <2>1, <3>2, WarNumbers DEF WarVariables
      <4>2. PICK x \in Ids : q \in Members(guilds[x]) /\ Fights(x, wars[idWar[q]])
        BY <1>2, <2>1, <4>1 DEF Marked
      <4>3. idWar[q] # w
        BY <1>1, <4>2 DEF Fights
      <4>4. QED
        BY <1>7, <4>1, <4>2, <4>3
    <3>3. QED
      BY <3>1, <3>2
  <2>2. QED
    BY <2>1 DEF Marked
<1>20. UNCHANGED <<session, nextId, cooling, idGuild, byName, pending>> /\ guilds' = guilds
  BY <1>1 DEF rosters
<1>21. QED
  BY <1>11, <1>12, <1>15, <1>18, <1>19, <1>20, WarSettled

------------------------------------------------------------------------------
(* A restart of a world with wars.                                            *)

LEMMA HighestWarIs == ASSUME NEW t \in Image PROVE HighestWar(t) \in 0 .. MaxWars
<1> DEFINE above == {n \in 0 .. MaxWars : \A v \in WarIds : t.wars[v] # None => v <= n}
<1>1. MaxWars \in above /\ above \in SUBSET Nat
  BY WarNumbers DEF WarIds
<1>2. PICK n \in above : \A k \in above : n <= k
  BY <1>1, LeastExists
<1>3. n = 0 \/ t.wars[n] # None
  <2>1. SUFFICES ASSUME n # 0, t.wars[n] = None PROVE FALSE
    OBVIOUS
  <2>2. n \in 0 .. MaxWars /\ n - 1 \in 0 .. MaxWars /\ n \in Int
    BY <1>2, <2>1, WarNumbers
  <2>3. ASSUME NEW v \in WarIds, t.wars[v] # None PROVE v <= n - 1
    <3>1. v <= n /\ v # n /\ v \in Int
      BY <1>2, <2>1, <2>3, WarNumbers
    <3>2. QED
      BY <2>2, <3>1
  <2>4. n - 1 \in above
    BY <2>2, <2>3
  <2>5. QED
    BY <1>2, <2>2, <2>4
<1>4. \E m \in 0 .. MaxWars :
          (m = 0 \/ t.wars[m] # None) /\ \A v \in WarIds : t.wars[v] # None => v <= m
  BY <1>2, <1>3
<1>5. QED
  BY <1>4 DEF HighestWar

LEMMA WithoutOrphansIs == ASSUME NEW t \in Image
    PROVE  LET u == WithoutOrphans(t) IN
           /\ u \in Image /\ u.guilds = t.guilds /\ u.cooling = t.cooling
           /\ Fewer(t.wars, u.wars) /\ Fielded(u.guilds, u.wars)
<1> DEFINE vs == [w \in WarIds |-> IF HasBothGuilds(t, w) THEN t.wars[w] ELSE None]
           u == [guilds |-> t.guilds, cooling |-> t.cooling, wars |-> vs]
<1>1. t = [guilds |-> t.guilds, cooling |-> t.cooling, wars |-> t.wars]
      /\ t.guilds \in [Ids -> Guild \cup {None}] /\ t.cooling \in SUBSET Players
      /\ t.wars \in [WarIds -> War \cup {None}]
  BY DEF Image
<1>2. WithoutOrphans(t) = u
  BY <1>1 DEF WithoutOrphans
<1>3. vs \in [WarIds -> War \cup {None}]
  BY <1>1
<1>4. u \in Image
  BY <1>1, <1>3 DEF Image
<1>5. Fewer(t.wars, vs) /\ Fielded(t.guilds, vs)
  BY DEF Fewer, SameSides, Fielded, HasBothGuilds
<1> HIDE DEF vs
<1>6. QED
  BY <1>2, <1>4, <1>5

LEMMA RelinkedIs == ASSUME NEW t \in Image, OneWarEach(t.wars)
    PROVE  Relinked(t) \in [Ids -> 0 .. MaxWars] /\ Linkage(Relinked(t), t.wars)
<1>1. ASSUME NEW x \in Ids
      PROVE  /\ Relinked(t)[x] \in 0 .. MaxWars
             /\ \A w \in WarIds : Relinked(t)[x] = w <=> Fights(x, t.wars[w])
  <2>1. CASE \E w \in WarIds : Fights(x, t.wars[w])
    <3>1. Relinked(t)[x] = CHOOSE w \in WarIds : Fights(x, t.wars[w])
      BY <2>1 DEF Relinked
    <3>2. PICK w \in WarIds : Fights(x, t.wars[w]) /\ Relinked(t)[x] = w
      BY <2>1, <3>1
    <3>3. \A v \in WarIds : Fights(x, t.wars[v]) => v = w
      BY <3>2 DEF OneWarEach
    <3>4. QED
      BY <3>2, <3>3, WarNumbers
  <2>2. CASE ~ \E w \in WarIds : Fights(x, t.wars[w])
    <3>1. Relinked(t)[x] = 0
      BY <2>2 DEF Relinked
    <3>2. QED
      BY <2>2, <3>1, WarNumbers
  <2>3. QED
    BY <2>1, <2>2
<1>2. Relinked(t) = [x \in Ids |-> Relinked(t)[x]]
  BY DEF Relinked
<1>3. QED
  BY <1>1, <1>2 DEF Linkage

LEMMA WarRestartKeeps == ASSUME WInv, WarRestart PROVE WInv'
<1> DEFINE t == disk[1]
           u == WithoutOrphans(t)
<1>1. /\ Hydrate /\ disk' = (IF u = t THEN <<t>> ELSE <<t, u>>)
      /\ wars' = u.wars /\ link' = Relinked(u) /\ lastWar' = HighestWar(t)
      /\ idWar' = [p \in Players |-> 0] /\ proposals' = NoGuilds /\ truces' = NoWars
      /\ enabled' \in BOOLEAN /\ age' = age
  BY DEF WarRestart
<1>2. /\ online' = {} /\ exists' = exists /\ guilds' = [id \in Ids |-> Hydrated(t.guilds[id])]
  BY <1>1 DEF Hydrate
<1>3. /\ IInv /\ t \in Image /\ Warlike(t, exists) /\ Proper(t, exists, nextId)
      /\ age \in [WarIds -> 0 .. (Duration + 1)]
  <2>1. IInv /\ disk \in Seq(Image) /\ disk # << >> /\ History(disk, exists, nextId)
    BY InvariantIs DEF WInv
  <2>2. 1 \in DOMAIN disk /\ disk[1] \in Image
    BY <2>1, LastOf
  <2>3. QED
    BY <2>1, <2>2 DEF WInv, WarVariables, History
<1> HIDE DEF t
<1>4. /\ u \in Image /\ u.guilds = t.guilds /\ u.cooling = t.cooling
      /\ Fewer(t.wars, u.wars) /\ Fielded(u.guilds, u.wars)
  BY <1>3, WithoutOrphansIs
<1> HIDE DEF u
<1>5. Warlike(u, exists) /\ u.wars \in [WarIds -> War \cup {None}]
  <2>1. u.wars \in [WarIds -> War \cup {None}]
    BY <1>4 DEF Image
  <2>2. Stays(t.guilds, u.guilds, {}) /\ Fewer(t.wars, u.wars) /\ Warlike(t, exists)
    BY <1>3, <1>4 DEF Stays
  <2>3. \A w \in WarIds, x \in {} : ~ Fights(x, u.wars[w])
    OBVIOUS
  <2>4. Warlike(u, exists)
    BY ONLY <2>1, <2>2, <2>3, WarlikeKept
  <2>5. QED
    BY <2>1, <2>4
<1>6. link' \in [Ids -> 0 .. MaxWars] /\ Linkage(link', wars')
  <2>1. OneWarEach(u.wars)
    BY <1>5 DEF Warlike, Apart
  <2>2. QED
    BY <1>1, <1>4, <2>1, RelinkedIs
<1>7. IInv'
  <2>1. disk' = <<disk[1]>> \/ disk' = <<disk[1], u>>
    BY <1>1 DEF t
  <2>2. u.guilds = disk[1].guilds /\ u.cooling = disk[1].cooling
    BY <1>4 DEF t
  <2>3. QED
    BY <1>1, <1>3, <1>4, <1>5, <1>6, <2>1, <2>2, HydrateKeeps
<1>8. guilds' = t.guilds
  <2>1. t.guilds \in [Ids -> Guild \cup {None}]
    BY <1>3 DEF Image
  <2>2. \A id \in Ids : Hydrated(t.guilds[id]) = t.guilds[id]
    BY <1>3, <2>1, HydratedIs DEF Proper, Sane, MasterMasks
  <2>3. QED
    BY <1>2, <2>1, <2>2
<1>9. Fielded(guilds', wars')
  BY <1>1, <1>4, <1>8
<1>10. Tables'.wars = wars' /\ \A i \in DOMAIN disk' : disk'[i] \in {t, u}
  <2>1. CASE u = t
    BY <1>1, <2>1 DEF Tables
  <2>2. CASE u # t
    BY <1>1, <2>2 DEF Tables
  <2>3. QED
    BY <2>1, <2>2
<1>11. \A i \in DOMAIN disk' : Warlike(disk'[i], exists')
  BY <1>2, <1>3, <1>5, <1>10
<1>12. WarVariables'
  <2>1. NoGuilds \in [Ids -> Ids \cup {None}] /\ NoWars \in [WarIds -> Ids \cup {None}]
    BY DEF NoGuilds, NoWars
  <2>2. idWar' \in [Players -> 0 .. MaxWars] /\ lastWar' \in 0 .. MaxWars
    BY <1>1, <1>3, WarNumbers, HighestWarIs
  <2>3. QED
    BY <1>1, <1>3, <2>1, <2>2 DEF WarVariables
<1>13. Marked(online', idWar', guilds', wars')
  BY <1>2 DEF Marked
<1>14. QED
  BY <1>6, <1>7, <1>9, <1>10, <1>11, <1>12, <1>13 DEF WInv

------------------------------------------------------------------------------
(* The invariant of the wars.                                                 *)

LEMMA InitWInv == WarInit => WInv
<1> SUFFICES ASSUME WarInit PROVE WInv
  OBVIOUS
<1>1. /\ Init /\ idWar = [p \in Players |-> 0] /\ proposals = NoGuilds /\ truces = NoWars
      /\ lastWar = 0 /\ age = [w \in WarIds |-> 0] /\ enabled \in BOOLEAN
  BY DEF WarInit
<1>2. IInv
  BY <1>1, InitIInv
<1>3. /\ online = {} /\ link = [id \in Ids |-> 0] /\ wars = NoWars
      /\ disk = <<[guilds |-> NoGuilds, cooling |-> {}, wars |-> NoWars]>>
  BY <1>1 DEF Init
<1>4. WarVariables
  <2>1. 0 \in 0 .. (Duration + 1) /\ 0 \in 0 .. MaxWars
    BY GuildWarAssumption, WarNumbers
  <2>2. QED
    BY <1>1, <2>1 DEF WarVariables, NoGuilds, NoWars
<1>5. \A w \in WarIds : wars[w] = None
  BY <1>3 DEF NoWars
<1>6. Linkage(link, wars) /\ Fielded(guilds, wars) /\ Marked(online, idWar, guilds, wars)
  BY <1>3, <1>5, WarNumbers DEF Linkage, Fielded, Marked, Fights
<1>7. Tables.wars = wars /\ \A i \in DOMAIN disk : disk[i].wars = wars
  BY <1>3 DEF Tables
<1>8. \A i \in DOMAIN disk : Warlike(disk[i], exists)
  BY <1>5, <1>7 DEF Warlike, Apart, OneWarEach, Fights
<1>9. QED
  BY <1>2, <1>4, <1>6, <1>7, <1>8 DEF WInv

LEMMA WarStepKeeps == WInv /\ [WarNext]_allVars => WInv'
<1> SUFFICES ASSUME WInv, [WarNext]_allVars PROVE WInv'
  OBVIOUS
<1>1. CASE UNCHANGED allVars
  <2>1. UNCHANGED <<vars, idWar, lastWar, age, enabled, proposals, truces>>
    BY <1>1 DEF allVars, warVars, diplomacy
  <2>2. proposals' \in [Ids -> Ids \cup {None}] /\ truces' \in [WarIds -> Ids \cup {None}]
    BY <2>1 DEF WInv, WarVariables
  <2>3. QED
    BY <2>1, <2>2, DiplomacyKeeps
<1>2. CASE PeaceStep
  BY <1>2, PeaceStepKeeps
<1>3. CASE PeaceEvent
  BY <1>3, PeaceEventKeeps
<1>4. CASE WarStep
  BY <1>4, DeclareKeeps, AcceptWarKeeps, SurrenderKeeps, QueryTruceKeeps, AcceptTruceKeeps,
     WarDeathKeeps, ProposalExpiresKeeps, TickKeeps, WarOnJoinKeeps DEF WarStep
<1>5. CASE \E p \in Players : WarJoin(p)
  BY <1>5, WarJoinKeeps
<1>6. CASE WarRestart
  BY <1>6, WarRestartKeeps
<1>7. QED
  BY <1>1, <1>2, <1>3, <1>4, <1>5, <1>6 DEF WarNext

LEMMA WarInvariance == WarSpec => []WInv
BY InitWInv, WarStepKeeps, PTL DEF WarSpec

LEMMA WarInvIs == WInv => WarInv
<1> SUFFICES ASSUME WInv PROVE WarInv
  OBVIOUS
<1>1. IInv /\ WarVariables /\ Linkage(link, wars) /\ Fielded(guilds, wars)
      /\ Marked(online, idWar, guilds, wars) /\ \A i \in DOMAIN disk : Warlike(disk[i], exists)
  BY DEF WInv
<1>2. WarTypeOK
  BY <1>1 DEF WarTypeOK, WarVariables, IInv
<1>3. LinksAgree
  <2>1. ASSUME NEW i \in DOMAIN disk
        PROVE  /\ OneWarEach(disk[i].wars)
               /\ exists = Players => \A w \in WarIds : HasBothGuilds(disk[i], w)
    BY <1>1 DEF Warlike, Apart, FullStrength, HasBothGuilds
  <2>2. QED
    BY <1>1, <2>1 DEF LinksAgree, Linkage
<1>4. StampsAreLive
  <2>1. ASSUME NEW p \in online, idWar[p] # 0
        PROVE  GuildsOf(p) # {} /\ Fights(GuildOf(p), wars[idWar[p]])
    <3>1. PICK x \in Ids : p \in Members(guilds[x]) /\ Fights(x, wars[idWar[p]])
      BY <1>1, <2>1 DEF Marked
    <3>2. p \in Players /\ x \in GuildsOf(p)
      BY <1>1, <3>1, InvariantIs DEF GuildsOf
    <3>3. GuildsOf(p) = {GuildOf(p)}
      BY <1>1, <3>2, GuildOfIs
    <3>4. QED
      BY <3>1, <3>2, <3>3
  <2>2. QED
    BY <2>1 DEF StampsAreLive
<1>5. QED
  BY <1>2, <1>3, <1>4 DEF WarInv

LEMMA SidesFrozenIs == WInv => SidesFrozen
<1> SUFFICES ASSUME WInv, exists = Players, NEW w \in WarIds, wars[w] # None,
                    NEW side \in {wars[w].decl, wars[w].acpt}
             PROVE  side.size = Cardinality(Members(guilds[side.guild]))
  BY DEF SidesFrozen
<1>1. IInv /\ Tables.wars = wars /\ Warlike(Tables, exists)
  BY WInvIs DEF WInv
<1>2. Tables.guilds = guilds
  <2>1. Tables = [guilds |-> guilds, cooling |-> cooling, wars |-> wars]
    BY <1>1, StoredAsLiveIs DEF StoredAsLive
  <2>2. QED
    BY <2>1
<1>3. QED
  BY <1>1, <1>2 DEF Warlike, FullStrength

------------------------------------------------------------------------------
(* Theorems.                                                                 *)

\* Every variable keeps its type.
THEOREM TypeCorrect == Spec => []TypeOK
<1>1. IInv => TypeOK
  BY DEF IInv
<1>2. QED
  BY <1>1, Invariance, PTL

\* Guilds share no member, are no larger than allowed, and are found by their
\* names: for every order of guild handlers, joins, deletions, writes and kills.
THEOREM RegistryIsSane == Spec => []RegistrySane
BY RegistrySaneIs, Invariance, PTL

\* A live player's m_idGuild is the guild that lists it, or is empty.
THEOREM BackReferences == Spec => []IdGuildIsOwn
BY OwnIs, Invariance, PTL

\* No handler, and no kill between two of its statements, leaves a guild without
\* its master.
THEOREM GuildsLed == Spec => []GuildsAreLed
BY GuildsAreLedIs, Invariance, PTL

\* Nobody is off the rosters of an image without the lockout in the same image.
THEOREM LeaversAreLocked == Spec => []LeaversLocked
BY LeaversLockedIs, Invariance, PTL

\* Until a character is deleted, the tables come to what memory holds.
THEOREM TablesFollow == Spec => []StoredAsLive
<1>1. IInv /\ Carried => Tables.wars = wars
  <2> SUFFICES ASSUME IInv, Carried PROVE Tables.wars = wars
    OBVIOUS
  <2>1. Len(disk) \in DOMAIN disk
    BY LastOf, InvariantIs
  <2>2. QED
    BY <2>1 DEF Carried, Tables
<1>2. QED
  BY <1>1, StoredAsLiveIs, Invariance, PTL

\* Exactly one master and no rank over its cap, through promotions, transfers,
\* kicks, late accepts, deletions and restarts, until a restart loads the tables
\* between two of the three writes of a changeMaster.
THEOREM RanksAreSane == RankSpec => []RanksSane
<1> DEFINE Inv == IInv /\ (~ torn => RanksInv)
<1>1. Init /\ torn = FALSE => Inv
  <2> SUFFICES ASSUME Init PROVE RanksInv
    BY InitIInv
  <2>1. /\ guilds = NoGuilds /\ \A id \in Ids : NoGuilds[id] = None
        /\ disk = <<[guilds |-> NoGuilds, cooling |-> {}, wars |-> NoWars]>>
    BY DEF Init, NoGuilds
  <2>2. \A i \in DOMAIN disk : disk[i].guilds = NoGuilds
    BY <2>1
  <2>3. QED
    BY <2>1, <2>2 DEF RanksInv, WellRanked, Led, Capped, OneMaster
<1>2. Inv /\ [RankNext]_rankVars => Inv'
  <2> SUFFICES ASSUME Inv, [RankNext]_rankVars PROVE Inv'
    OBVIOUS
  <2>1. [Next]_vars
    BY DEF RankNext, rankVars, Next
  <2>2. IInv'
    BY <2>1, StepKeeps
  <2>3. CASE UNCHANGED rankVars
    BY <2>2, <2>3, StillRanked DEF rankVars, vars, rosters, session
  <2>4. CASE GuildStep /\ UNCHANGED torn
    BY <2>2, <2>4, StepRanked
  <2>5. CASE Restart /\ Noted /\ ~ torn'
    BY <2>2, <2>5, RestartRanked DEF Noted
  <2>6. QED
    BY <2>2, <2>3, <2>4, <2>5 DEF RankNext
<1>3. Inv => RanksSane
  BY DEF RanksInv, WellRanked, Capped, WithinCaps, Holders, RanksSane, IsGuild, RankCount
<1>4. QED
  BY <1>1, <1>2, <1>3, PTL DEF RankSpec

\* For any number of guilds, wars and kills: the registry and the guilds' war ids
\* lead to each other, no guild is in two wars, in memory or in an image, and
\* whoever is marked for a war belongs to a guild that fights it now.
THEOREM WarsAreSound == WarSpec => []WarInv
BY WarInvIs, WarInvariance, PTL

\* A side is as strong as when its war began, through every path by which a member
\* could come or go and every restart, until a character is deleted.
THEOREM SidesStayFrozen == WarSpec => []SidesFrozen
BY SidesFrozenIs, WarInvariance, PTL

\* With the wars' handlers and restarts among the steps, the guilds keep what they
\* have without them: rosters, back-references, masters, lockouts and tables.
THEOREM GuildsOutlastWars ==
    WarSpec => [](RegistrySane /\ IdGuildIsOwn /\ GuildsAreLed /\ LeaversLocked /\ StoredAsLive)
<1>1. WInv => RegistrySane /\ IdGuildIsOwn /\ GuildsAreLed /\ LeaversLocked /\ StoredAsLive
  BY RegistrySaneIs, OwnIs, GuildsAreLedIs, LeaversLockedIs, StoredAsLiveIs DEF WInv
<1>2. QED
  BY <1>1, WarInvariance, PTL

==============================================================================
