---------------------------- MODULE CaptionPermits ----------------------------
(* What the paid-caption budget promises, without its file, its lock or its    *)
(* pruning: a history of charges in which no rolling hour holds more than      *)
(* LIMIT and no job is charged twice within the replay window.                 *)
EXTENDS Integers, FiniteSets

CONSTANTS
    Jobs,       \* SHA-256 job identities
    Cameras,    \* camera identifiers
    Times,      \* values the wall clock may show
    HOUR,       \* length of the rolling window (HOUR_NS)
    RETENTION,  \* length of the replay window (RETENTION_NS)
    LIMIT       \* charges allowed in a rolling window

VARIABLE charged    \* every charge ever made durable

Charges == [job : Jobs, cam : Cameras, at : Times]

\* The charges that fall in the half-open window of length `len` ending at t.
Window(S, t, len) == {r \in S : t - len < r.at /\ r.at <= t}

Init == charged = {}

\* One more charge, never dated before an earlier one.
Charge(j, c, t) ==
    /\ \A r \in charged : r.at <= t
    /\ Cardinality(Window(charged, t, HOUR)) < LIMIT
    /\ \A r \in Window(charged, t, RETENTION) : r.job # j
    /\ charged' = charged \cup {[job |-> j, cam |-> c, at |-> t]}

Next == \E j \in Jobs, c \in Cameras, t \in Times : Charge(j, c, t)

Spec == Init /\ [][Next]_charged

-------------------------------------------------------------------------------
\* caption_budget.py "Reserve at most twelve new captions in any rolling hour":
\* wherever the window is placed, at most LIMIT charges fall into it, counting
\* those the journal has long since pruned.
RollingLimit == \A t \in Times : Cardinality(Window(charged, t, HOUR)) <= LIMIT

\* "The 24-hour replay window": two charges of one job are at least RETENTION
\* apart, so a replayed request within the window is never paid twice.
ReplayWindow ==
    \A r, s \in charged :
        r.job = s.job /\ r # s => \/ r.at - s.at >= RETENTION
                                  \/ s.at - r.at >= RETENTION
===============================================================================
