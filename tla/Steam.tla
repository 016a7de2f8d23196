--------------------------------- MODULE Steam ---------------------------------
(***************************************************************************)
(* What the website keeps of the players' Steam accounts.  A refresh, of   *)
(* one player who signs in or of all who were not refreshed for a day,     *)
(* asks Steam, then goes through the players: it reads how many bans are   *)
(* known, writes how many there are, and flags the player when there are   *)
(* more.  The three are statements of their own, and refreshes overlap.    *)
(*                                                                         *)
(* VAC bans and bans from games are counted as one; names and pictures     *)
(* are left out.  What becomes of a flag is Casework's.                    *)
(***************************************************************************)
EXTENDS Naturals, FiniteSets, SequencesExt

CONSTANTS
    Profiles,       \* players, by uid
    Refreshers,     \* refreshes that run at the same time
    Unknown,        \* how many bans, before the first refresh
    maxIDsPerCall,
    MaxBans, MaxRefreshes, MaxMisses

ASSUME SteamAssumption ==
    /\ IsFiniteSet(Profiles)
    /\ maxIDsPerCall \in Nat \ {0} /\ Unknown \notin Nat

VARIABLES
    banned,         \* the bans of each player, as Steam knows them
    known,          \* players.steam_vac_bans and steam_game_bans
    stale,          \* whose steam_refreshed_at is null or a day old
    guids,          \* who has a be_guid
    refresh,        \* what each refresh is doing
    flagged,        \* anti_cheat_flags of type steam_ban: [who, count]
    firsts,         \* the counts that were written where none was known
    missed,         \* flags that were not written
    refreshes

steamVars == <<banned, known, stale, guids, refresh, flagged, firsts, missed, refreshes>>

Done == [at |-> "idle"]

SteamInit ==
    /\ banned = [a \in Profiles |-> 0] /\ known = [a \in Profiles |-> Unknown]
    /\ stale = Profiles /\ guids = {}
    /\ refresh = [r \in Refreshers |-> Done]
    /\ flagged = <<>> /\ firsts = {} /\ missed = {} /\ refreshes = 0

\* Steam bans an account, or takes a ban back; a day passes.
SteamBans(a) ==
    /\ banned[a] < MaxBans /\ banned' = [banned EXCEPT ![a] = @ + 1]
    /\ UNCHANGED <<known, stale, guids, refresh, flagged, firsts, missed, refreshes>>
SteamRelents(a) ==
    /\ banned[a] > 0 /\ banned' = [banned EXCEPT ![a] = @ - 1]
    /\ UNCHANGED <<known, stale, guids, refresh, flagged, firsts, missed, refreshes>>
DayPasses(a) ==
    /\ a \notin stale /\ stale' = stale \cup {a}
    /\ UNCHANGED <<banned, known, guids, refresh, flagged, firsts, missed, refreshes>>

\* Summaries and PlayerBans, for all at once: Steam may leave somebody out.
Fetch(r, ids) ==
    /\ refresh[r] = Done /\ refreshes < MaxRefreshes /\ refreshes' = refreshes + 1
    /\ \E answered \in SUBSET ToSet(ids) :
         refresh' = [refresh EXCEPT ![r] = [at |-> "read", todo |-> ids,
                                            bans |-> [a \in answered |-> banned[a]], before |-> Unknown]]
    /\ UNCHANGED <<banned, known, stale, guids, flagged, firsts, missed>>

\* On signing in, beside the login; and the profile's button.
RefreshOne(r, a) == Fetch(r, <<a>>)

\* Those who are stale, up to a batch.
Sweep(r) ==
    /\ stale # {}
    /\ \E ids \in SetToSeqs(stale) :
         Fetch(r, SubSeq(ids, 1, IF Len(ids) > maxIDsPerCall THEN maxIDsPerCall ELSE Len(ids)))

\* The next player of the refresh.
NextPlayer(r) ==
    refresh' = [refresh EXCEPT ![r] =
        IF Len(refresh[r].todo) = 1 THEN Done
        ELSE [refresh[r] EXCEPT !.at = "read", !.todo = Tail(refresh[r].todo)]]

ReadKnown(r) ==
    /\ refresh[r].at = "read"
    /\ refresh' = [refresh EXCEPT ![r].at = "write", ![r].before = known[Head(refresh[r].todo)]]
    /\ UNCHANGED <<banned, known, stale, guids, flagged, firsts, missed, refreshes>>

\* Mutant: compared with what the update has just written.
IsNewsLate(r, a) ==
    LET now == refresh[r].bans[a] IN known[a] # Unknown /\ now > now

\* Only more than a count that was known is news: the first refresh records what there is.
IsNews(r, a) == refresh[r].before # Unknown /\ refresh[r].bans[a] > refresh[r].before

WriteKnown(r) ==
    /\ refresh[r].at = "write"
    /\ LET a == Head(refresh[r].todo)
           answered == a \in DOMAIN refresh[r].bans
       IN /\ stale' = stale \ {a}
          /\ IF answered
             THEN /\ known' = [known EXCEPT ![a] = refresh[r].bans[a]]
                  /\ firsts' = IF refresh[r].before = Unknown
                               THEN firsts \cup {[who |-> a, count |-> refresh[r].bans[a]]} ELSE firsts
                  /\ IF IsNews(r, a) THEN refresh' = [refresh EXCEPT ![r].at = "flag"] ELSE NextPlayer(r)
             ELSE UNCHANGED <<known, firsts>> /\ NextPlayer(r)
    /\ UNCHANGED <<banned, guids, flagged, missed, refreshes>>

\* The update fails: the next player.
WriteFails(r) ==
    /\ refresh[r].at = "write" /\ NextPlayer(r)
    /\ UNCHANGED <<banned, known, stale, guids, flagged, firsts, missed, refreshes>>

Flag(r) == [who |-> Head(refresh[r].todo), count |-> refresh[r].bans[Head(refresh[r].todo)]]

InsertFlag(r) ==
    /\ refresh[r].at = "flag"
    /\ flagged' = Append(flagged, Flag(r))
    /\ NextPlayer(r)
    /\ UNCHANGED <<banned, known, stale, guids, firsts, missed, refreshes>>

\* The count is written and the flag is not: nothing ever writes it.
FlagFails(r) ==
    /\ refresh[r].at = "flag" /\ Cardinality(missed) < MaxMisses
    /\ missed' = missed \cup {Flag(r)}
    /\ NextPlayer(r)
    /\ UNCHANGED <<banned, known, stale, guids, flagged, firsts, refreshes>>

About == {Flag(r) : r \in {x \in Refreshers : refresh[x].at = "flag"}}

\* The website stops, in the middle of whatever it refreshes.
WebsiteStops ==
    /\ \E r \in Refreshers : refresh[r] # Done
    /\ Cardinality(missed \cup About) <= MaxMisses
    /\ missed' = missed \cup About
    /\ refresh' = [r \in Refreshers |-> Done]
    /\ UNCHANGED <<banned, known, stale, guids, flagged, firsts, refreshes>>

\* Before each sweep, BattlEye GUIDs of who has none; a uid that is no number has none.
BackfillGUIDs ==
    /\ \E a \in Profiles \ guids : guids' = guids \cup {a}
    /\ UNCHANGED <<banned, known, stale, refresh, flagged, firsts, missed, refreshes>>

SteamNext ==
    \/ \E a \in Profiles : SteamBans(a) \/ SteamRelents(a) \/ DayPasses(a)
    \/ \E r \in Refreshers :
          \/ \E a \in Profiles : RefreshOne(r, a)
          \/ Sweep(r) \/ ReadKnown(r) \/ WriteKnown(r) \/ WriteFails(r) \/ InsertFlag(r) \/ FlagFails(r)
    \/ WebsiteStops \/ BackfillGUIDs

-------------------------------------------------------------------------------
\* A note of this many bans of the player, or more.
Tells(f, a) == f.who = a /\ f.count >= known[a]

\* However refreshes overlap, repeat and write counts of before, the count that is kept of
\* a player is not above what was there at their first refresh, unless a flag told as many
\* or more, or is about to ("so a new VAC/game ban lands in the existing review queue",
\* refresh), or the flag that was to tell it was lost: its insert failed or the website
\* stopped before it, after the count was written.  A rise that stays below what was told
\* before may go untold (EveryIncreaseFlagged below).
UntoldOnlyIfLost ==
    \A a \in Profiles :
        known[a] # Unknown /\ ~(\E f \in missed : Tells(f, a))
            => \E f \in ToSet(flagged) \cup firsts \cup About : Tells(f, a)

\* A ban is news once: not so when two refreshes overlap.
FlaggedOnce == \A i, j \in DOMAIN flagged : i # j => flagged[i] # flagged[j]

\* "A player whose Steam ban counts went UP since the last refresh gets an
\* anti_cheat_flags row" (refresh): not so when it goes up while another refresh is between
\* reading and writing it; nor when the insert fails, which is only logged.
EveryIncreaseFlagged ==
    [][\A a \in Profiles :
         (known[a] # Unknown /\ known'[a] # known[a] /\ known'[a] > known[a])
            => \E r \in Refreshers : refresh'[r].at = "flag"]_steamVars

===============================================================================
