--------------------------- MODULE PriorityOrder ---------------------------
(***************************************************************************)
(* The priority mode of a KEM DEMO run (worker kem.rs, priority and        *)
(* evaluate_order): recover the order in which a server prefers key        *)
(* exchange groups by offering it, round after round, what it has not      *)
(* picked yet; then name the groups that come behind a weaker one.         *)
(*                                                                         *)
(* A group is offered under one name and may be reported under another     *)
(* (OpenSSL calls secp256r1 prime256v1); names that differ only in case    *)
(* are one name here, as eq_ignore_ascii_case has it. The level of a name  *)
(* is what pq_level makes of it, 0 standing for None (classical).          *)
(***************************************************************************)
EXTENDS Integers, Sequences, FiniteSets

CONSTANTS
    Group,     \* the names groups are offered under: caps.kem_groups
    Name,      \* names that adapters report
    Reported,  \* the name each group is reported under
    pq_level,  \* the level of each name
    Unstable,  \* may a handshake fail for other reasons than the offer?
    Rogue      \* may a server pick a group it was not offered?

ASSUME PriorityAssumption ==
    /\ IsFiniteSet(Group)
    /\ Group \subseteq Name
    /\ Reported \in [Group -> Name]
    /\ pq_level \in [Name -> Nat]
    /\ Unstable \in BOOLEAN
    /\ Rogue \in BOOLEAN

VARIABLES
    pref,            \* external: the groups the server accepts, best first
    kem_groups,      \* the groups the run was created with
    remaining,       \* what is still offered
    order,           \* the names reported so far
    plain,           \* history: the server picked what it likes best, always
    phase,           \* "probe", then "judge", then "done"
    pos,             \* the loop of evaluate_order is at order[pos]
    seen_classical,
    best_pq_so_far,  \* the lowest level of the PQ groups seen, or Unseen
    findings         \* the positions of the groups that are misplaced

probing == <<remaining, order, plain>>
judging == <<pos, seen_classical, best_pq_so_far, findings>>
given == <<pref, kem_groups>>
vars == <<given, probing, phase, judging>>

Unseen == -1
Level(i) == pq_level[order[i]]

\* Orders of preference: any groups, each at most once.
Preferences ==
    UNION {{s \in [1 .. n -> Group] : \A i, k \in 1 .. n : s[i] = s[k] => i = k} :
           n \in 0 .. Cardinality(Group)}

\* A run created without a selection offers all the adapter advertises.
Offer(selection) == IF selection = {} THEN Group ELSE selection

Init ==
    /\ pref \in Preferences
    /\ kem_groups \in SUBSET Group
    /\ remaining = Offer(kem_groups)
    /\ order = << >>
    /\ plain = TRUE
    /\ phase = "probe"
    /\ pos = 1
    /\ seen_classical = FALSE
    /\ best_pq_so_far = Unseen
    /\ findings = {}

-----------------------------------------------------------------------------

\* external: the group on offer that the server likes best, if any.
Favourite ==
    {g \in remaining : \E i \in DOMAIN pref : /\ pref[i] = g
                                            /\ \A k \in 1 .. i - 1 : pref[k] \notin remaining}

\* external: the groups a server can answer the offer with.
Picks == Favourite \cup (IF Rogue THEN Group \ remaining ELSE {})

\* One round: the server picks g, its reported name is recorded and withdrawn
\* from the offer; the loop breaks if that name was not on offer.
probe_round(g) ==
    /\ phase = "probe"
    /\ remaining # {}
    /\ g \in Picks
    /\ order' = Append(order, Reported[g])
    /\ plain' = (plain /\ g \in Favourite)
    /\ remaining' = {h \in remaining : h # Reported[g]}
    /\ phase' = IF remaining' = remaining THEN "judge" ELSE "probe"
    /\ UNCHANGED <<given, judging>>

\* Defect: the loop does not end when the offer is used up.
probing_ends_on_failure ==
    /\ phase = "probe"
    /\ remaining # {}
    /\ Favourite = {} \/ Unstable
    /\ phase' = "judge"
    /\ plain' = (plain /\ (remaining = {} \/ Favourite = {}))
    /\ UNCHANGED <<given, remaining, order, judging>>

\* Defect: a last group on offer is not asked for.
probing_ends_one_left ==
    /\ phase = "probe"
    /\ Cardinality(remaining) <= 1 \/ Favourite = {} \/ Unstable
    /\ phase' = "judge"
    /\ plain' = (plain /\ (Cardinality(remaining) <= 1 \/ Favourite = {}))
    /\ UNCHANGED <<given, remaining, order, judging>>

\* The offer is used up, or the handshake fails or names no group: break.
probing_ends ==
    /\ phase = "probe"
    /\ remaining = {} \/ Favourite = {} \/ Unstable
    /\ phase' = "judge"
    /\ plain' = (plain /\ (remaining = {} \/ Favourite = {}))
    /\ UNCHANGED <<given, remaining, order, judging>>

\* Defect: only the previous post-quantum group is remembered.
LowerLast(m, n) == n

Lower(m, n) == IF m = Unseen \/ n < m THEN n ELSE m

\* One round of evaluate_order.
evaluate_group ==
    /\ phase = "judge"
    /\ pos <= Len(order)
    /\ pos' = pos + 1
    /\ \/ /\ Level(pos) = 0
          /\ seen_classical' = TRUE
          /\ UNCHANGED <<best_pq_so_far, findings>>
       \/ /\ Level(pos) > 0
          /\ findings' =
                IF seen_classical \/ (best_pq_so_far # Unseen /\ Level(pos) > best_pq_so_far)
                THEN findings \cup {pos} ELSE findings
          /\ best_pq_so_far' = Lower(best_pq_so_far, Level(pos))
          /\ UNCHANGED seen_classical
    /\ UNCHANGED <<given, probing, phase>>

judging_ends ==
    /\ phase = "judge"
    /\ pos > Len(order)
    /\ phase' = "done"
    /\ UNCHANGED <<given, probing, judging>>

Next ==
    \/ \E g \in Group : probe_round(g)
    \/ probing_ends
    \/ evaluate_group
    \/ judging_ends

Spec == Init /\ [][Next]_vars

\* Every adapter call returns within its timeout, and the loops go on.
FairSpec == Spec /\ WF_vars(Next)

-----------------------------------------------------------------------------
(***************************************************************************)
(* Properties                                                              *)
(***************************************************************************)

TypeOK ==
    /\ kem_groups \subseteq Group
    /\ remaining \subseteq Group
    /\ order \in Seq(Name)
    /\ plain \in BOOLEAN
    /\ phase \in {"probe", "judge", "done"}
    /\ pos \in Nat \ {0}
    /\ seen_classical \in BOOLEAN
    /\ best_pq_so_far \in Nat \cup {Unseen}
    /\ findings \subseteq Nat

\* "The loop is bounded by the offer list even if a server answers with
\* something it was not offered" (priority): it never makes more rounds than
\* there are groups on offer.
RoundsBounded == Len(order) <= Cardinality(Offer(kem_groups))

\* What RoundsBounded rests on: every round but the last shrinks the offer.
OfferShrinks ==
    phase = "probe" => Len(order) + Cardinality(remaining) <= Cardinality(Offer(kem_groups))

\* The part of the server's preference that the rounds can reach: the groups
\* on offer, up to and including the first that is reported by another name.
\* That name cannot be withdrawn, and the loop breaks behind it (priority).
Told ==
    {i \in DOMAIN pref :
        /\ pref[i] \in Offer(kem_groups)
        /\ \A k \in 1 .. i - 1 : pref[k] \in Offer(kem_groups) => Reported[pref[k]] = pref[k]}

\* No group on offer is reported by the name of another one on offer.
NamesApart ==
    \A g \in Offer(kem_groups) : Reported[g] = g \/ Reported[g] \notin Offer(kem_groups)

\* When the server has answered every offer with the group it likes best, the
\* rounds recover what it prefers among the groups on offer, best first, each
\* once and none left out before the first alias: all of it if there is none.
\* With the offer of a run without a selection the alias is secp256r1, and what
\* the server likes less than secp256r1 is not in the order.
RecoversPreference ==
    (phase # "probe" /\ plain /\ NamesApart) =>
        /\ {order[k] : k \in DOMAIN order} = {Reported[pref[i]] : i \in Told}
        /\ \A k, l \in DOMAIN order, i, j \in Told :
              (k < l /\ order[k] = Reported[pref[i]] /\ order[l] = Reported[pref[j]]) => i < j

\* evaluate_order names exactly the groups that "sit behind something weaker
\* than themselves": a post-quantum group after a classical one or after one
\* of a lower level, at any distance.
Misplaced(i) == Level(i) > 0 /\ \E k \in 1 .. i - 1 : Level(k) < Level(i)

FindingsRight ==
    phase = "done" => findings = {i \in 1 .. Len(order) : Misplaced(i)}

\* What FindingsRight rests on: the two variables of the loop sum up the part
\* of the order it has seen.
LoopInvariant ==
    /\ phase = "probe" => pos = 1
    /\ pos <= Len(order) + 1
    /\ phase = "done" => pos = Len(order) + 1
    /\ seen_classical <=> \E k \in 1 .. pos - 1 : Level(k) = 0
    /\ best_pq_so_far = Unseen => \A k \in 1 .. pos - 1 : Level(k) = 0
    /\ best_pq_so_far # Unseen =>
          /\ best_pq_so_far > 0
          /\ \E k \in 1 .. pos - 1 : Level(k) = best_pq_so_far
          /\ \A k \in 1 .. pos - 1 : Level(k) = 0 \/ Level(k) >= best_pq_so_far
    /\ findings = {i \in 1 .. pos - 1 : Misplaced(i)}

\* A priority run comes to an end, whatever the server answers.
Terminates == <>(phase = "done")

=============================================================================
