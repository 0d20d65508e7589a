------------------------------ MODULE MCAdmin ------------------------------
(***************************************************************************)
(* The administration of boards, the tree of locations, tickets from Slack, *)
(* the notices of changes and the chain of login attempts.  They share no   *)
(* state: a behaviour follows the one, and the instance of it, that `part`  *)
(* names, the others stay as they begin.                                    *)
(***************************************************************************)
EXTENDS Boards

CONSTANTS
    ann, bob, admin, crew, temp, g,     \* people, roles and the group of Boards
    n1, n2, n3, n4, a, b, c1,           \* Locations
    m1, m2, m3, s1, s2,                 \* SlackIntake
    sys, token, b1, b2,                 \* Notifications
    a1, a2, a3, ada,                    \* LoginThrottle
    Parts

VARIABLES
    part,
    row, used, loc, tx, calls,
    deliveries, recency, dedup, modal, tries, step, tickets, replies, hits, granted,
    now, failures, crashes,
    home, watchers, sees, active, events, issued, hints, notices, owed,
    attempt, prior, tail, entries, outcomes

siteVars   == <<row, used, loc, tx, calls>>
slackVars  == <<deliveries, recency, dedup, modal, tries, step, tickets, replies, hits,
                granted, failures, crashes>>
noticeVars == <<home, watchers, sees, active, events, issued, hints, notices, owed>>
loginVars  == <<attempt, prior, tail, entries, outcomes>>
partVars   == <<part, now, vars, siteVars, slackVars, noticeVars, loginVars>>

-----------------------------------------------------------------------------
(* Boards.                                                                  *)

MCRoleOf == [u \in Users |-> IF u = ann THEN admin ELSE crew]

Policy(ofAdmin, ofCrew, ofTemp) ==
    [kind |-> "roles", role |-> [k \in Roles |-> CASE k = admin -> ofAdmin
                                                   [] k = crew -> ofCrew
                                                   [] OTHER -> ofTemp]]
Full == {"managePolicy", "manageRoles"}

Board(kind, id, subjects, defaults) ==
    [kind |-> kind, board |-> id, access |-> subjects, defaults |-> defaults]

\* Board 2 is created for a group or the role temp; 1 and 2 are closed to
\* all but managers, opened and archived; temp comes and goes; crew loses
\* its permissions.
MCOps ==
    {Board("create", 2, {s}, {s}) : s \in {GroupSubject(g), RoleSubject(temp)}}
    \cup {Board("update", id, {UserSubject(bob)}, {Everybody}) : id \in {1, 2}}
    \cup {[kind |-> "remove", board |-> id] : id \in {1, 2}}
    \cup {[kind |-> "save group", group |-> g, users |-> {bob}],
          [kind |-> "remove group", group |-> g]}
    \cup {Policy(Full, {}, t) : t \in {None, {}}}
    \cup {[kind |-> "prefer", user |-> bob, board |-> 2]}

\* Enough for a request to be refused, checked and committed.
MCFewOps ==
    {Policy(Full, {}, None), Policy({"manageRoles"}, {}, None),
     [kind |-> "prefer", user |-> bob, board |-> 2]}

-----------------------------------------------------------------------------
(* The others.                                                              *)

SmallSite(nodes) == [n \in nodes |->
    CASE n = n1 -> [kind |-> "building", parent |-> None, name |-> a]
      [] n = n2 -> [kind |-> "floor", parent |-> n1, name |-> a]
      [] OTHER  -> None]
FourNodes == {n1, n2, n3, n4}
ThreeNodes == {n1, n2, n3}

Site == INSTANCE Locations WITH
    Nodes <- FourNodes, Names <- {a, b}, Cards <- {c1}, Seed <- SmallSite(FourNodes),
    Postgres <- FALSE, MaxCalls <- 4
\* With a room under the floor.
SiteOnPostgres == INSTANCE Locations WITH
    Nodes <- FourNodes, Names <- {a, b}, Cards <- {c1},
    Seed <- [SmallSite(FourNodes) EXCEPT ![n3] = [kind |-> "room", parent |-> n2, name |-> a]],
    Postgres <- TRUE, MaxCalls <- 3
SiteOfTwoCalls == INSTANCE Locations WITH
    Nodes <- ThreeNodes, Names <- {a}, Cards <- {c1}, Seed <- SmallSite(ThreeNodes),
    Postgres <- TRUE, MaxCalls <- 2

\* Deliveries beyond the capacity of the guard; requests at the limits; and one
\* failure of Slack or of the database.
SenderOf(r) == IF r \in {m2, s2} THEN bob ELSE ann
Slots(n) == [l \in {"card", "summary", "global"} |-> n]
Redelivered == INSTANCE SlackIntake WITH
    Mentions <- {m1, m2, m3}, Shortcuts <- {}, Commands <- {m1, m2, m3}, Linked <- Users,
    UserOf <- [r \in {m1, m2, m3} |-> SenderOf(r)], Capacity <- 2,
    Limit <- Slots(2), Window <- Slots(2),
    MaxDeliveries <- 3, MaxTries <- 3, MaxTime <- 0, MaxFailures <- 0, MaxCrashes <- 0
AtTheLimit == INSTANCE SlackIntake WITH
    Mentions <- {m1}, Shortcuts <- {s1, s2}, Commands <- {m1}, Linked <- Users,
    UserOf <- [r \in {m1, s1, s2} |-> SenderOf(r)], Capacity <- 5,
    Limit <- Slots(1), Window <- Slots(2),
    MaxDeliveries <- 1, MaxTries <- 2, MaxTime <- 3, MaxFailures <- 0, MaxCrashes <- 0
OneFails == INSTANCE SlackIntake WITH
    Mentions <- {m1, m2}, Shortcuts <- {s1}, Commands <- {m1, m2}, Linked <- {ann},
    UserOf <- [r \in {m1, m2, s1} |-> SenderOf(r)], Capacity <- 4,
    Limit <- Slots(2), Window <- Slots(2),
    MaxDeliveries <- 2, MaxTries <- 1, MaxTime <- 0, MaxFailures <- 1, MaxCrashes <- 0

\* Numbers that are given out again and fan-outs that are lost; boards that are
\* closed and opened again, with a second card; nothing lost.
Lossily == INSTANCE Notifications WITH
    Users <- {ann, sys}, System <- sys, Token <- token, Boards <- {b1},
    MaxCard <- 1, MaxEvents <- 3, Lossy <- TRUE, Fickle <- FALSE, Discards <- TRUE
Fickly == INSTANCE Notifications WITH
    Users <- {ann, sys}, System <- sys, Token <- token, Boards <- {b1, b2},
    MaxCard <- 2, MaxEvents <- 2, Lossy <- FALSE, Fickle <- TRUE, Discards <- FALSE
Calmly == INSTANCE Notifications WITH
    Users <- {ann, sys}, System <- sys, Token <- token, Boards <- {b1},
    MaxCard <- 1, MaxEvents <- 2, Lossy <- FALSE, Fickle <- TRUE, Discards <- TRUE

Attempts == {a1, a2, a3}
Logins == INSTANCE LoginThrottle WITH
    Accounts <- {ada}, MaxEntries <- 1, CapDelay <- 2, MaxTime <- 2

-----------------------------------------------------------------------------

SlackInit ==
    CASE part = "redelivered"  -> Redelivered!Init
      [] part = "at the limit" -> AtTheLimit!Init
      [] OTHER                 -> OneFails!Init
SiteInit ==
    CASE part = "site on postgres"  -> SiteOnPostgres!Init
      [] part = "site of two calls" -> SiteOfTwoCalls!Init
      [] part = "site"              -> Site!Init
      [] OTHER                      -> Site!Init /\ \A c \in DOMAIN loc : loc[c] = None
NoticesInit ==
    CASE part = "fickly" -> Fickly!Init
      [] part = "calmly" -> Calmly!Init
      [] OTHER           -> Lossily!Init

PartsInit ==
    part \in Parts /\ Init /\ SiteInit /\ SlackInit /\ NoticesInit /\ Logins!Init

BoardsStep ==
    part = "boards" /\ Next
    /\ UNCHANGED <<part, now, siteVars, slackVars, noticeVars, loginVars>>
SiteStep ==
    /\ \/ part = "site" /\ Site!Next
       \/ part = "site on postgres" /\ SiteOnPostgres!Next
       \/ part = "site of two calls" /\ SiteOfTwoCalls!Next
    /\ UNCHANGED <<part, now, vars, slackVars, noticeVars, loginVars>>
SlackStep ==
    /\ \/ part = "redelivered" /\ Redelivered!Next
       \/ part = "at the limit" /\ AtTheLimit!Next
       \/ part = "one fails" /\ OneFails!Next
    /\ UNCHANGED <<part, vars, siteVars, noticeVars, loginVars>>
NoticesStep ==
    /\ \/ part = "lossily" /\ Lossily!Next
       \/ part = "fickly" /\ Fickly!Next
       \/ part = "calmly" /\ Calmly!Next
    /\ UNCHANGED <<part, now, vars, siteVars, slackVars, loginVars>>
LoginsStep ==
    part = "logins" /\ Logins!Next
    /\ UNCHANGED <<part, vars, siteVars, slackVars, noticeVars>>

PartsNext == BoardsStep \/ SiteStep \/ SlackStep \/ NoticesStep \/ LoginsStep

PartsSafety == PartsInit /\ [][PartsNext]_partVars
PartsSpec ==
    PartsSafety /\ Fairness /\ SiteOfTwoCalls!Fairness /\ OneFails!Fairness
    /\ Calmly!Fairness /\ Logins!Fairness

-----------------------------------------------------------------------------

\* The tree stays whole and its siblings keep apart, on Postgres the tree stays
\* whole; a card loses its location only by an edit or together with the row
\* (Locations).
SiteIsSound ==
    /\ [](/\ part = "site" => Site!TreeIsSound /\ Site!SiblingNamesDiffer
                              /\ Site!MissingIsTheOnlyFailure
          /\ part = "site on postgres" => SiteOnPostgres!TreeIsSound)
    /\ [][part = "site on postgres" => SiteOnPostgres!ClearsWithTheNode]_partVars

\* A request makes one ticket and a change one notice, however often they are
\* delivered or however late: within the limits, about the card it is about,
\* and never lost by clearing what is not shown (SlackIntake, Notifications).
NothingTwice ==
    /\ [](/\ part = "redelivered" => Redelivered!OnceEach
          /\ part = "at the limit" => AtTheLimit!WithinLimits
          /\ part = "lossily" => Lossily!NotificationsTypeOK /\ Lossily!ToldOnce
                                 /\ Lossily!NoStrayNotice)
    /\ [][part = "fickly" => Fickly!KeepsTheHidden]_partVars

\* Whoever asks is answered, and who is owed a notice gets it: administrators
\* in line for the lock, writers of the tree that wait for each other, mentions
\* and submissions, watchers, login attempts.
EverybodyIsAnswered ==
    /\ EveryoneIsAnswered
    /\ SiteOfTwoCalls!EveryCallAnswered
    /\ OneFails!MentionAnswered /\ OneFails!SubmissionAnswered
    /\ Calmly!WatchersAreTold
    /\ Logins!EveryAttemptAnswered
=============================================================================
