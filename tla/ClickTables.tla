----------------------------- MODULE ClickTables -----------------------------
(***************************************************************************)
(* The click tables of purels: raw visits (click_events) and the totals    *)
(* per link and day (link_click_daily), both removed with their link by    *)
(* ON DELETE CASCADE.  Shared by ClickLedger (what is promised) and        *)
(* ClickRollup (how the API and the workers do it).                        *)
(***************************************************************************)
EXTENDS Integers, FiniteSets

CONSTANTS
    Links,    \* link ids
    Days,     \* calendar days
    Events,   \* visits, numbered in the order of occurred_at
    LinkOf,   \* the link of each visit (click_events.link_id)
    DayOf,    \* its day (occurred_at::date)
    Bots      \* the visits whose user agent IsBotUA recognises

ASSUME ClickAssumption ==
    /\ Events \subseteq Nat /\ IsFiniteSet(Events)
    /\ LinkOf \in [Events -> Links] /\ DayOf \in [Events -> Days]
    /\ Bots \subseteq Events

Keys == Links \X Days

VARIABLES
    exists,   \* the rows of links
    state,    \* is there a row, and is its processed_at set
    clicks,   \* link_click_daily.clicks, 0 where there is no row
    bots      \* link_click_daily.bot_clicks

tables == <<exists, state, clicks, bots>>

InitTables ==
    /\ exists = Links
    /\ state = [e \in Events |-> "unborn"]
    /\ clicks = [k \in Keys |-> 0]
    /\ bots = [k \in Keys |-> 0]

\* The key of the daily row that counts visit e.
KeyOf(e) == <<LinkOf[e], DayOf[e]>>

Pending == {e \in Events : state[e] = "pending"}

\* INSERT INTO click_events: a visit of a link is the latest one so far.  The
\* link must exist, by the foreign key.
Insert(e) ==
    /\ state[e] = "unborn" /\ LinkOf[e] \in exists
    /\ \A f \in Events : f > e => state[f] = "unborn"
    /\ state' = [state EXCEPT ![e] = "pending"]
    /\ UNCHANGED <<exists, clicks, bots>>

\* scanClickAggregates: the visits of S that daily row k counts.
Of(S, k) == {e \in S : KeyOf(e) = k}

\* The tables once the visits of S are rolled up: added to the daily rows and
\* marked processed.
RollUp(S) ==
    /\ clicks' = [k \in Keys |-> clicks[k] + Cardinality(Of(S, k))]
    /\ bots'   = [k \in Keys |-> bots[k] + Cardinality(Of(S \cap Bots, k))]
    /\ state'  = [e \in Events |-> IF e \in S THEN "done" ELSE state[e]]
    /\ UNCHANGED exists

\* DELETE FROM links with its cascades.
Remove(D) ==
    /\ exists' = exists \ D
    /\ state'  = [e \in Events |->
                     IF LinkOf[e] \in D /\ state[e] # "unborn" THEN "gone" ELSE state[e]]
    /\ clicks' = [k \in Keys |-> IF k[1] \in D THEN 0 ELSE clicks[k]]
    /\ bots'   = [k \in Keys |-> IF k[1] \in D THEN 0 ELSE bots[k]]

\* The total of a daily row is the number of its processed visits, and the bot
\* total is the number of those made by bots: no visit is counted twice, none
\* is processed without being counted.
Tally == \A k \in Keys :
    LET counted == {e \in Events : state[e] = "done" /\ KeyOf(e) = k}
    IN  /\ clicks[k] = Cardinality(counted)
        /\ bots[k] = Cardinality(counted \cap Bots)
=============================================================================
