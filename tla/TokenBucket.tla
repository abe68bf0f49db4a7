---------------------------- MODULE TokenBucket -----------------------------
(***************************************************************************)
(* What the rate limiter promises: every key has a bucket of its own that  *)
(* starts full and refills steadily, a request passes when the bucket      *)
(* holds a token, and only a key whose bucket is full may be turned away   *)
(* with tokens left, for want of room to track it.                         *)
(*                                                                         *)
(* A request may come late, by Slack ticks at most, and then meets the     *)
(* bucket as it was: what a bucket held when it was full and has gained    *)
(* since is only lost to a request of a later time.  So a level counts up  *)
(* to Full + Slack, and a key left alone until it is full again may be     *)
(* forgotten, which gives it the whole slack.  Slack 0 is the textbook     *)
(* bucket, in which forgetting changes nothing.                            *)
(*                                                                         *)
(* One unit refills per tick; a token costs Cost units.  used counts what  *)
(* passed since mark, a moment an observer picks freely.                   *)
(***************************************************************************)
EXTENDS Integers

CONSTANTS
    Keys,           \* client keys
    Cost,           \* units of one token
    Full,           \* units of a full bucket, the burst
    Slack,          \* how late a request may be
    MaxClock        \* bound: the clock stops here

VARIABLES clock, level, answer, mark, used

vars == <<clock, level, answer, mark, used>>

Decision == [key : Keys, ok : BOOLEAN]

Init ==
    /\ clock = 0
    /\ level = [k \in Keys |-> Full + Slack]
    /\ answer \in Decision
    /\ mark = 0
    /\ used = [k \in Keys |-> 0]

Tick ==
    /\ clock < MaxClock
    /\ clock' = clock + 1
    /\ level' = [k \in Keys |-> IF level[k] < Full + Slack THEN level[k] + 1 ELSE Full + Slack]
    /\ UNCHANGED <<answer, mark, used>>

\* What a request that is d late leaves of the level, if it takes nothing.
Kept(k, d) == IF level[k] > Full + d THEN Full + d ELSE level[k]

Grant(k, d) ==
    /\ Kept(k, d) - d >= Cost
    /\ level' = [level EXCEPT ![k] = Kept(k, d) - Cost]
    /\ used' = [used EXCEPT ![k] = @ + 1]
    /\ answer' = [key |-> k, ok |-> TRUE]
    /\ UNCHANGED <<clock, mark>>

Deny(k, d) ==
    /\ Kept(k, d) - d < Cost \/ level[k] = Full + Slack
    /\ answer' = [key |-> k, ok |-> FALSE]
    /\ UNCHANGED <<clock, level, mark, used>>

Forget(ks) ==
    /\ \A k \in ks : level[k] >= Full
    /\ level' = [k \in Keys |-> IF k \in ks THEN Full + Slack ELSE level[k]]
    /\ UNCHANGED <<clock, answer, mark, used>>

\* An observer starts counting afresh.
Watch ==
    /\ mark' = clock
    /\ used' = [k \in Keys |-> 0]
    /\ UNCHANGED <<clock, level, answer>>

Next ==
    \/ Tick
    \/ Watch
    \/ \E ks \in SUBSET Keys : Forget(ks)
    \/ \E k \in Keys, d \in 0 .. Slack : Grant(k, d) \/ Deny(k, d)

Spec == Init /\ [][Next]_vars
=============================================================================
