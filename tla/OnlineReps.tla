----------------------------- MODULE OnlineReps -----------------------------
(***************************************************************************)
(* online_reps (rai/node/node.cpp): the representatives heard of lately    *)
(* and the running total of their weights, from which node::delta, the     *)
(* election thresholds and the bootstrap threshold are computed.  Weights  *)
(* change in the ledger at any time; the total follows only when a         *)
(* representative joins or expires and when it is recalculated.            *)
(***************************************************************************)
EXTENDS Integers, FiniteSetsExt, Functions

CONSTANTS
    Rep,          \* representatives
    Supply,       \* all weight there is, and the largest uint128_t, as in the ledger
    Cutoff,       \* node::cutoff
    MaxChanges    \* bound on changes of weight in the ledger

VARIABLES
    weight,       \* ledger::weight
    reps,         \* representative -> time since last_heard, up to Cutoff + 1, for those in the container
    total,        \* online_stake_total
    moved,        \* weight changed since the last recalculation
    changes       \* changes so far

vars == <<weight, reps, total, moved, changes>>

Amount == 0..Supply
Age == 0..(Cutoff + 1)
Sum(w, s) == SumFunctionOnSet(w, s)
Weights == {w \in [Rep -> Amount] : Sum(w, Rep) <= Supply}
wrap(n) == n % (Supply + 1)

\* The code notices that an amount wrapped by comparing with the old one.
plus(a, b) == IF wrap(a + b) < a THEN Supply ELSE wrap(a + b)
minus(a, b) == IF wrap(a - b) > a THEN 0 ELSE wrap(a - b)

expired == {r \in DOMAIN reps : reps[r] > Cutoff}

\* mutant
joined_again(r) == TRUE
joined(r) == r \notin DOMAIN reps \ expired

\* Those not heard of for too long leave with the weight they have now; a
\* representative that is new, or has just left, joins with its weight.
vote(r) ==
    LET left == minus(total, Sum(weight, expired))
    IN  /\ total' = IF joined(r) THEN plus(left, weight[r]) ELSE left
        /\ reps' = [q \in (DOMAIN reps \ expired) \cup {r} |-> IF q = r THEN 0 ELSE reps[q]]
        /\ UNCHANGED <<weight, moved, changes>>

recalculated == wrap(Sum(weight, DOMAIN reps))

\* The alarm calls it every five minutes.
recalculate_stake ==
    /\ total' = recalculated
    /\ moved' = FALSE
    /\ UNCHANGED <<weight, reps, changes>>

\* Blocks are processed or rolled back.
weights_change ==
    /\ changes < MaxChanges
    /\ changes' = changes + 1
    /\ weight' \in Weights \ {weight}
    /\ moved' = TRUE
    /\ UNCHANGED <<reps, total>>

tick ==
    /\ reps' = [r \in DOMAIN reps |-> IF reps[r] > Cutoff THEN reps[r] ELSE reps[r] + 1]
    /\ UNCHANGED <<weight, total, moved, changes>>

Init ==
    /\ weight \in Weights
    /\ reps = [r \in {} |-> 0]
    /\ total = 0
    /\ moved = FALSE
    /\ changes = 0

Next ==
    \/ \E r \in Rep : vote(r)
    \/ recalculate_stake
    \/ weights_change
    \/ tick

Spec == Init /\ [][Next]_vars

-----------------------------------------------------------------------------
\* The container holds ages of representatives, the total is an amount.
TypeOK ==
    /\ weight \in Weights
    /\ DOMAIN reps \subseteq Rep /\ \A r \in DOMAIN reps : reps[r] \in Age
    /\ total \in Amount
    /\ moved \in BOOLEAN
    /\ changes \in 0..MaxChanges

\* While no weight changes, the running total is the sum of the weights of the
\* representatives in the container, however they join, expire and return.
StakeIsSum == ~moved => total = Sum(weight, DOMAIN reps)

\* A total that drifted because a representative left with another weight than
\* it joined with comes right again, although votes and expiries go on: from some
\* time after the last change of weight the total is the sum.
Settled == total = Sum(weight, DOMAIN reps)

\* A vote never wraps the total: with what it had left before, joining does not
\* lower it and leaving does not raise it, however far it has drifted.
NeverWraps ==
    \A r \in Rep : vote(r) =>
        /\ DOMAIN reps \subseteq DOMAIN reps' => total' >= total
        /\ DOMAIN reps' \subseteq DOMAIN reps /\ ~joined(r) => total' <= total
=============================================================================
