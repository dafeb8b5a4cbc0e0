---------------------------- MODULE DemoAccount -----------------------------
(***************************************************************************)
(* POST /auth/demo: DemoSeedService makes a user and then, service by      *)
(* service and without a transaction, what the visitor will see; the token *)
(* that ends it lives for a day.  DemoUsersCleanupJob deletes the users of *)
(* more than a day, and JwtStrategy asks for the user at every request.    *)
(***************************************************************************)
EXTENDS Naturals, FiniteSets

CONSTANTS
    Demos,        \* calls of POST /auth/demo, each with the user it makes
    DemoTrades, DemoTickers, DemoAlerts, DemoNotices, \* what is seeded
    Portfolio,    \* the portfolio that is seeded first
    Day,          \* ticks of 24 hours
    MaxDemoTime   \* bound: the clock

Seeds == {Portfolio} \cup DemoTrades \cup DemoTickers \cup DemoAlerts \cup DemoNotices

ASSUME DemoAssumption ==
    /\ IsFiniteSet(Seeds)
    /\ Cardinality(Seeds) = 1 + Cardinality(DemoTrades) + Cardinality(DemoTickers)
                              + Cardinality(DemoAlerts) + Cardinality(DemoNotices)
    /\ Day \in Nat \ {0} /\ MaxDemoTime \in Nat /\ Day <= MaxDemoTime

VARIABLES
    clock,
    demo,   \* call -> its handler: where it is, what is left of the loop, when the token ends
    users,  \* the rows of users that the calls made, each with its createdAt
    seeded, \* call -> the rows it made in the other tables
    skipped,\* history: call -> what a caught error left out
    slow    \* history: calls that took a tick or more

demoVars == <<clock, demo, users, seeded, skipped, slow>>

Fresh == [pc |-> "new", left |-> {}, expires |-> 0]

DemoInit ==
    /\ clock \in 0..(Day - 1)
    /\ demo = [d \in Demos |-> Fresh]
    /\ users = [d \in {} |-> 0]
    /\ seeded = [d \in Demos |-> {}]
    /\ skipped = [d \in Demos |-> {}]
    /\ slow = {}

\* The handler enters the loop over items.
Enter(d, pc, items) == demo' = [demo EXCEPT ![d].pc = pc, ![d].left = items]

Make(d, item) == seeded' = [seeded EXCEPT ![d] = @ \cup {item}]

\* Mutant of TryItem: what failed is tried again.
TryItem_Again(d, item) ==
    \/ Make(d, item) /\ demo' = [demo EXCEPT ![d].left = @ \ {item}] /\ UNCHANGED skipped
    \/ skipped' = [skipped EXCEPT ![d] = @ \cup {item}] /\ UNCHANGED <<demo, seeded>>

\* One turn of a loop that catches what the service throws and goes on.
TryItem(d, item) ==
    /\ demo' = [demo EXCEPT ![d].left = @ \ {item}]
    /\ \/ Make(d, item) /\ UNCHANGED skipped
       \/ skipped' = [skipped EXCEPT ![d] = @ \cup {item}] /\ UNCHANGED seeded
-----------------------------------------------------------------------------
CreateDemoUser(d) ==
    /\ demo[d].pc = "new"
    /\ users' = [k \in DOMAIN users \cup {d} |-> IF k = d THEN clock ELSE users[k]]
    /\ Enter(d, "portfolio", {})
    /\ UNCHANGED <<clock, seeded, skipped, slow>>

\* seedPortfolio, before its loop: a failure is not caught.
SeedPortfolio(d) ==
    /\ demo[d].pc = "portfolio"
    /\ Make(d, Portfolio)
    /\ Enter(d, "trades", DemoTrades)
    /\ UNCHANGED <<clock, users, skipped, slow>>

SeedTrade(d) ==
    /\ demo[d].pc = "trades"
    /\ \/ \E t \in demo[d].left : TryItem(d, t)
       \/ demo[d].left = {} /\ Enter(d, "watchlist", DemoTickers) /\ UNCHANGED <<seeded, skipped>>
    /\ UNCHANGED <<clock, users, slow>>

SeedTicker(d) ==
    /\ demo[d].pc = "watchlist"
    /\ \/ \E t \in demo[d].left : TryItem(d, t)
       \/ demo[d].left = {} /\ Enter(d, "alerts", DemoAlerts) /\ UNCHANGED <<seeded, skipped>>
    /\ UNCHANGED <<clock, users, slow>>

SeedAlert(d) ==
    /\ demo[d].pc = "alerts"
    /\ \/ \E a \in demo[d].left : TryItem(d, a)
       \/ demo[d].left = {} /\ Enter(d, "notifications", DemoNotices) /\ UNCHANGED <<seeded, skipped>>
    /\ UNCHANGED <<clock, users, slow>>

\* A failure of this loop is not caught.
SeedNotification(d) ==
    /\ demo[d].pc = "notifications"
    /\ \E n \in demo[d].left : Make(d, n) /\ Enter(d, "notifications", demo[d].left \ {n})
    /\ UNCHANGED <<clock, users, skipped, slow>>

\* generateDemoTokens: an access token of a day, and none to refresh it.
IssueToken(d) ==
    /\ demo[d].pc = "notifications"
    /\ demo[d].left = {}
    /\ demo' = [demo EXCEPT ![d].pc = "session", ![d].expires = clock + Day]
    /\ UNCHANGED <<clock, users, seeded, skipped, slow>>

\* Mutant of Uncaught: the error is logged and the session given out all the same.
Uncaught_Logged(d) == IF demo[d].pc = "notifications" THEN "session" ELSE "failed"

\* Where the handler goes when a call throws that no loop catches.
Uncaught(d) == "failed"

\* Such a call throws, or the process goes down: what was made stays.
DemoStops(d) ==
    /\ demo[d].pc \in {"new", "portfolio", "notifications"}
    /\ demo' = [demo EXCEPT ![d].pc = Uncaught(d)]
    /\ UNCHANGED <<clock, users, seeded, skipped, slow>>

\* Mutant of Expired: a day too early.
Expired_Early(d) == users[d] < clock

\* createdAt < expirationDate.
Expired(d) == users[d] + Day < clock

\* The job of 4 o'clock deletes the rows of users and nothing that belongs to them.
CleanupExpiredDemoUsers ==
    /\ clock % Day = 0
    /\ users' = [d \in {k \in DOMAIN users : ~Expired(k)} |-> users[d]]
    /\ UNCHANGED <<clock, demo, seeded, skipped, slow>>

TokenValid(d) == demo[d].pc = "session" /\ clock < demo[d].expires

\* validateUser finds no user: 401.
Unauthorized(d) ==
    /\ demo[d].pc = "session"
    /\ ~TokenValid(d) \/ d \notin DOMAIN users
    /\ demo' = [demo EXCEPT ![d].pc = "ended"]
    /\ UNCHANGED <<clock, users, seeded, skipped, slow>>

DemoTick ==
    /\ clock < MaxDemoTime
    /\ clock' = clock + 1
    /\ slow' = slow \cup {d \in DOMAIN users : demo[d].pc \notin {"session", "failed", "ended"}}
    /\ UNCHANGED <<demo, users, seeded, skipped>>

DemoNext ==
    \/ \E d \in Demos :
          \/ CreateDemoUser(d) \/ SeedPortfolio(d) \/ SeedTrade(d) \/ SeedTicker(d)
          \/ SeedAlert(d) \/ SeedNotification(d) \/ IssueToken(d) \/ DemoStops(d) \/ Unauthorized(d)
    \/ CleanupExpiredDemoUsers
    \/ DemoTick

DemoSpec == DemoInit /\ [][DemoNext]_demoVars
-----------------------------------------------------------------------------
(* Types: the rows that a call makes, and what is left of its loop. *)
DemoTypeOK ==
    /\ clock \in 0..MaxDemoTime
    /\ \A d \in Demos :
          /\ demo[d].pc \in {"new", "portfolio", "trades", "watchlist", "alerts", "notifications",
                            "session", "failed", "ended"}
          /\ demo[d].left \subseteq Seeds /\ demo[d].expires \in 0..(MaxDemoTime + Day)
          /\ seeded[d] \subseteq Seeds /\ skipped[d] \subseteq Seeds \ seeded[d]
    /\ DOMAIN users \subseteq Demos /\ slow \subseteq Demos

\* createDemoUserWithSeedData: whoever is given a session finds everything that is seeded,
\* but what a loop that catches errors had to skip; never half of the rest.
SessionsSeeded == \A d \in Demos : demo[d].pc = "session" => Seeds \subseteq seeded[d] \cup skipped[d]

\* deleteExpiredDemoUsers, generateDemoTokens: a token that has not expired has its user,
\* for the day of the user and that of the token begin together; only when seeding took
\* longer can the job be ahead of the token.
TokensHaveUser == \A d \in Demos : TokenValid(d) => d \in DOMAIN users \/ d \in slow
=============================================================================
