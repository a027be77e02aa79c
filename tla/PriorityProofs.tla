--------------------------- MODULE PriorityProofs ---------------------------
(***************************************************************************)
(* Proofs about PriorityOrder, for every set of groups, every naming, every *)
(* assignment of levels and every server.                                   *)
(***************************************************************************)
EXTENDS PriorityOrder, FiniteSetTheorems, WellFoundedInduction, TLAPS

\* The loops of a priority run keep their variables well typed.
THEOREM TypeCorrect == Spec => []TypeOK
<1> USE PriorityAssumption DEF TypeOK
<1>1. Init => TypeOK
  <2>1. ASSUME Init PROVE /\ remaining \subseteq Group
                          /\ order \in Seq(Name)
                          /\ pos \in Nat \ {0}
    BY <2>1 DEF Init, Offer
  <2>2. QED BY <2>1 DEF Init
<1>2. TypeOK /\ [Next]_vars => TypeOK'
  <2> SUFFICES ASSUME TypeOK, [Next]_vars PROVE TypeOK'
    OBVIOUS
  <2>1. ASSUME NEW g \in Group, probe_round(g) PROVE TypeOK'
    BY <2>1 DEF probe_round, given, judging
  <2>2. CASE probing_ends
    BY <2>2 DEF probing_ends, given, judging
  <2>3. CASE evaluate_group
    <3>1. Level(pos) \in Nat
      BY <2>3 DEF evaluate_group, Level
    <3>2. Lower(best_pq_so_far, Level(pos)) \in Nat \cup {Unseen}
      BY <3>1 DEF Lower
    <3>3. findings' \subseteq Nat /\ pos' \in Nat \ {0}
      <4>1. findings' = findings \/ findings' = findings \cup {pos}
        BY <2>3 DEF evaluate_group
      <4>2. pos' = pos + 1
        BY <2>3 DEF evaluate_group
      <4>3. pos \in Nat /\ pos + 1 \in Nat \ {0} /\ findings \subseteq Nat
        OBVIOUS
      <4>4. findings \cup {pos} \subseteq Nat
        BY <4>3 DEF TypeOK
      <4>5. findings' \subseteq Nat
        BY <4>1, <4>3, <4>4, Zenon
      <4>6. QED BY <4>2, <4>3, <4>5
    <3>4. seen_classical' \in BOOLEAN /\ best_pq_so_far' \in Nat \cup {Unseen}
      BY <2>3, <3>2 DEF evaluate_group
    <3>5. QED
      BY <2>3, <3>3, <3>4 DEF evaluate_group, given, probing
  <2>4. CASE judging_ends
    BY <2>4 DEF judging_ends, given, probing, judging
  <2>5. CASE UNCHANGED vars
    BY <2>5 DEF vars, given, probing, judging
  <2>6. QED BY <2>1, <2>2, <2>3, <2>4, <2>5 DEF Next
<1>3. QED BY <1>1, <1>2, PTL DEF Spec

-----------------------------------------------------------------------------
(***************************************************************************)
(* The number of rounds                                                    *)
(***************************************************************************)

Bounded == RoundsBounded /\ OfferShrinks

\* An offer is a finite set of groups.
LEMMA OfferFinite ==
    ASSUME TypeOK
    PROVE  /\ IsFiniteSet(remaining)
           /\ Cardinality(remaining) \in Nat
           /\ Cardinality(Offer(kem_groups)) \in Nat
           /\ remaining # {} => Cardinality(remaining) > 0
<1>1. IsFiniteSet(remaining) /\ IsFiniteSet(Offer(kem_groups))
  BY PriorityAssumption, FS_Subset DEF TypeOK, Offer
<1>2. Cardinality(remaining) \in Nat /\ Cardinality(Offer(kem_groups)) \in Nat
  BY <1>1, FS_CardinalityType
<1>3. Cardinality(remaining) = 0 => remaining = {}
  BY <1>1, FS_EmptySet
<1>4. QED BY <1>1, <1>2, <1>3

\* One round: either the offer loses a name or the rounds are over.
LEMMA RoundStep ==
    ASSUME TypeOK, Bounded, NEW g \in Group, probe_round(g)
    PROVE  Bounded'
<1>1. /\ phase = "probe"
      /\ remaining # {}
      /\ remaining' = remaining \ {Reported[g]}
      /\ Len(order') = Len(order) + 1
      /\ Len(order) \in Nat
      /\ phase' = "probe" => remaining' # remaining
      /\ kem_groups' = kem_groups
  BY PriorityAssumption DEF probe_round, given, TypeOK
<1>2. Len(order) + Cardinality(remaining) <= Cardinality(Offer(kem_groups))
  BY <1>1 DEF Bounded, OfferShrinks
<1>3. RoundsBounded'
  BY <1>1, <1>2, OfferFinite DEF RoundsBounded, Offer
<1>4. ASSUME phase' = "probe" PROVE Cardinality(remaining') = Cardinality(remaining) - 1
  <2>1. Reported[g] \in remaining
    BY <1>1, <1>4
  <2>2. QED BY <1>1, <2>1, OfferFinite, FS_RemoveElement
<1>5. OfferShrinks'
  BY <1>1, <1>2, <1>4, OfferFinite DEF OfferShrinks, Offer
<1>6. QED BY <1>3, <1>5 DEF Bounded

\* The rounds of a priority run never outnumber the groups on offer, whatever
\* names the answers carry and whether or not they were offered.
THEOREM RoundsBoundedCorrect == Spec => []RoundsBounded
<1>1. Init => Bounded
  <2> SUFFICES ASSUME Init PROVE Bounded
    OBVIOUS
  <2>1. IsFiniteSet(Offer(kem_groups))
    BY PriorityAssumption, FS_Subset DEF Init, Offer
  <2>2. Cardinality(Offer(kem_groups)) \in Nat /\ Len(order) = 0
    BY <2>1, FS_CardinalityType DEF Init
  <2>3. QED BY <2>2 DEF Init, Bounded, RoundsBounded, OfferShrinks
<1>2. TypeOK /\ Bounded /\ [Next]_vars => Bounded'
  <2> SUFFICES ASSUME TypeOK, Bounded, [Next]_vars PROVE Bounded'
    OBVIOUS
  <2>1. ASSUME UNCHANGED <<kem_groups, remaining, order>>, phase' = "probe" => phase = "probe"
        PROVE  Bounded'
    BY <2>1 DEF Bounded, RoundsBounded, OfferShrinks, Offer
  <2>2. CASE probing_ends
    BY <2>1, <2>2 DEF probing_ends, given
  <2>3. CASE evaluate_group
    BY <2>1, <2>3 DEF evaluate_group, given, probing
  <2>4. CASE judging_ends
    BY <2>1, <2>4 DEF judging_ends, given, probing
  <2>5. CASE UNCHANGED vars
    BY <2>1, <2>5 DEF vars, given, probing
  <2>6. QED BY <2>2, <2>3, <2>4, <2>5, RoundStep DEF Next
<1>3. Bounded => RoundsBounded
  BY DEF Bounded
<1>4. QED BY <1>1, <1>2, <1>3, TypeCorrect, PTL DEF Spec

-----------------------------------------------------------------------------
(***************************************************************************)
(* The judgement                                                           *)
(***************************************************************************)

\* The part of the order the loop has seen has a lower level than n exactly
\* when one of the two tests of evaluate_order says so.
LEMMA TestsAreRight ==
    ASSUME TypeOK, LoopInvariant, phase = "judge", pos <= Len(order), Level(pos) > 0
    PROVE  Misplaced(pos) <=>
             seen_classical \/ (best_pq_so_far # Unseen /\ Level(pos) > best_pq_so_far)
<1>1. /\ Level(pos) \in Nat
      /\ \A k \in 1 .. pos - 1 : Level(k) \in Nat
  BY PriorityAssumption DEF TypeOK, Level
<1>2. ASSUME NEW k \in 1 .. pos - 1, Level(k) < Level(pos)
      PROVE  seen_classical \/ (best_pq_so_far # Unseen /\ Level(pos) > best_pq_so_far)
  BY <1>1, <1>2 DEF LoopInvariant, TypeOK, Unseen
<1>3. ASSUME seen_classical PROVE Misplaced(pos)
  BY <1>1, <1>3 DEF LoopInvariant, Misplaced
<1>4. ASSUME best_pq_so_far # Unseen, Level(pos) > best_pq_so_far PROVE Misplaced(pos)
  BY <1>1, <1>4 DEF LoopInvariant, Misplaced, TypeOK, Unseen
<1>5. QED BY <1>2, <1>3, <1>4 DEF Misplaced

\* One round of evaluate_order.
LEMMA JudgeStep ==
    ASSUME TypeOK, LoopInvariant, evaluate_group
    PROVE  LoopInvariant'
<1>1. /\ phase = "judge" /\ phase' = "judge"
      /\ pos <= Len(order) /\ pos' = pos + 1 /\ pos \in Nat \ {0}
      /\ order' = order /\ Len(order) \in Nat
  BY DEF evaluate_group, probing, TypeOK
<1>2. /\ \A k \in 1 .. pos : Level(k) \in Nat
      /\ \A k : Level(k)' = Level(k)
  BY <1>1, PriorityAssumption DEF TypeOK, Level
<1>3. \A i : Misplaced(i)' <=> Misplaced(i)
  BY <1>2 DEF Misplaced
<1>4. 1 .. pos' - 1 = (1 .. pos - 1) \cup {pos}
  BY <1>1
<1>5. CASE Level(pos) = 0
  <2>1. seen_classical' /\ best_pq_so_far' = best_pq_so_far /\ findings' = findings
    BY <1>5 DEF evaluate_group
  <2>2. ~Misplaced(pos)
    BY <1>5 DEF Misplaced
  <2>3. findings' = {i \in 1 .. pos' - 1 : Misplaced(i)'}
    BY <1>3, <1>4, <2>1, <2>2 DEF LoopInvariant
  <2>4. seen_classical' <=> \E k \in 1 .. pos' - 1 : Level(k)' = 0
    BY <1>2, <1>4, <1>5, <2>1
  <2>5. /\ best_pq_so_far' = Unseen => \A k \in 1 .. pos' - 1 : Level(k)' = 0
        /\ best_pq_so_far' # Unseen =>
              /\ best_pq_so_far' > 0
              /\ \E k \in 1 .. pos' - 1 : Level(k)' = best_pq_so_far'
              /\ \A k \in 1 .. pos' - 1 : Level(k)' = 0 \/ Level(k)' >= best_pq_so_far'
    BY <1>2, <1>4, <1>5, <2>1 DEF LoopInvariant
  <2>6. QED BY <1>1, <2>3, <2>4, <2>5 DEF LoopInvariant
<1>6. CASE Level(pos) > 0
  <2>1. /\ seen_classical' = seen_classical
        /\ best_pq_so_far' = Lower(best_pq_so_far, Level(pos))
        /\ findings' = IF Misplaced(pos) THEN findings \cup {pos} ELSE findings
    BY <1>1, <1>2, <1>6, TestsAreRight DEF evaluate_group
  <2>2. findings' = {i \in 1 .. pos' - 1 : Misplaced(i)'}
    BY <1>3, <1>4, <2>1 DEF LoopInvariant
  <2>3. seen_classical' <=> \E k \in 1 .. pos' - 1 : Level(k)' = 0
    BY <1>2, <1>4, <1>6, <2>1 DEF LoopInvariant
  <2>4. CASE best_pq_so_far = Unseen
    BY <1>1, <1>2, <1>4, <1>6, <2>1, <2>2, <2>3, <2>4 DEF LoopInvariant, Lower, Unseen
  <2>5. CASE best_pq_so_far # Unseen
    <3>1. /\ best_pq_so_far \in Nat
          /\ best_pq_so_far' # Unseen
          /\ best_pq_so_far' = IF Level(pos) < best_pq_so_far THEN Level(pos)
                               ELSE best_pq_so_far
      BY <1>1, <1>2, <2>1, <2>5 DEF Lower, TypeOK, Unseen
    <3>2. /\ best_pq_so_far' > 0
          /\ \E k \in 1 .. pos' - 1 : Level(k)' = best_pq_so_far'
          /\ \A k \in 1 .. pos' - 1 : Level(k)' = 0 \/ Level(k)' >= best_pq_so_far'
      BY <1>1, <1>2, <1>4, <1>6, <2>5, <3>1 DEF LoopInvariant
    <3>3. QED BY <1>1, <2>2, <2>3, <3>1, <3>2 DEF LoopInvariant
  <2>6. QED BY <2>4, <2>5
<1>7. QED BY <1>1, <1>2, <1>5, <1>6

\* While the order is still being recovered nothing has been judged.
LEMMA ProbeKeepsLoop ==
    ASSUME TypeOK, LoopInvariant, NEW g \in Group, probe_round(g)
    PROVE  LoopInvariant'
<1>1. /\ pos = 1 /\ pos' = 1 /\ phase' # "done"
      /\ 1 .. pos - 1 = {} /\ 1 .. pos' - 1 = {}
      /\ seen_classical' = seen_classical
      /\ best_pq_so_far' = best_pq_so_far
      /\ findings' = findings
      /\ Len(order') \in Nat
  BY PriorityAssumption DEF probe_round, judging, LoopInvariant, TypeOK
<1>2. QED BY <1>1 DEF LoopInvariant

\* evaluate_order names exactly the groups that sit behind a weaker one, for
\* every order and every assignment of levels.
THEOREM FindingsRightCorrect == Spec => []FindingsRight
<1>1. Init => LoopInvariant
  BY DEF Init, LoopInvariant, Unseen
<1>2. TypeOK /\ LoopInvariant /\ [Next]_vars => LoopInvariant'
  <2> SUFFICES ASSUME TypeOK, LoopInvariant, [Next]_vars PROVE LoopInvariant'
    OBVIOUS
  <2>1. ASSUME UNCHANGED <<order, judging>>,
               phase' = "probe" => phase = "probe",
               phase' = "done" => pos = Len(order) + 1
        PROVE  LoopInvariant'
    BY <2>1 DEF LoopInvariant, judging, Misplaced, Level
  <2>2. CASE probing_ends
    BY <2>1, <2>2 DEF probing_ends
  <2>3. CASE judging_ends
    <3>1. pos = Len(order) + 1
      BY <2>3 DEF judging_ends, LoopInvariant, TypeOK
    <3>2. QED BY <2>1, <2>3, <3>1 DEF judging_ends, probing
  <2>4. CASE UNCHANGED vars
    BY <2>1, <2>4 DEF vars, probing, LoopInvariant
  <2>5. QED BY <2>2, <2>3, <2>4, JudgeStep, ProbeKeepsLoop DEF Next
<1>3. TypeOK /\ LoopInvariant => FindingsRight
  BY DEF LoopInvariant, FindingsRight, TypeOK
<1>4. QED BY <1>1, <1>2, <1>3, TypeCorrect, PTL DEF Spec

-----------------------------------------------------------------------------
(***************************************************************************)
(* The order that is recovered                                             *)
(***************************************************************************)

\* The server answers with its favourites and no two names clash.
Plain == plain /\ NamesApart

\* The preference is a sequence of groups, each at most once.
PrefOK ==
    /\ pref \in Seq(Group)
    /\ \A i, k \in DOMAIN pref : pref[i] = pref[k] => i = k

\* What RecoversPreference rests on: while there are rounds to come, those so
\* far have withdrawn exactly what they have recorded, under its own name and
\* preferred to whatever is still on offer.
Recovered ==
    /\ {order[k] : k \in DOMAIN order} =
         {pref[i] : i \in DOMAIN pref} \cap (Offer(kem_groups) \ remaining)
    /\ \A i \in DOMAIN pref :
          pref[i] \in Offer(kem_groups) \ remaining => Reported[pref[i]] = pref[i]
    /\ \A k, l \in DOMAIN order, i, j \in DOMAIN pref :
          (k < l /\ order[k] = pref[i] /\ order[l] = pref[j]) => i < j
    /\ \A i, j \in DOMAIN pref :
          (pref[i] \in Offer(kem_groups) \ remaining /\ pref[j] \in remaining) => i < j

RecoveryInv ==
    /\ PrefOK
    /\ remaining \subseteq Offer(kem_groups)
    /\ (Plain /\ phase = "probe") => Recovered
    /\ RecoversPreference

Less == {p \in Nat \X Nat : p[1] < p[2]}

\* A set of numbers that is not empty has a least member.
LEMMA LeastMember ==
    ASSUME NEW S, S \subseteq Nat, S # {}
    PROVE  \E n \in S : \A m \in S : n <= m
<1>1. OpToRel(<, Nat) = Less
  BY Zenon DEF OpToRel, Less
<1>2. IsWellFoundedOn(Less, Nat)
  BY <1>1, NatLessThanWellFounded, Zenon
<1>3. PICK n \in S : \A m \in S : <<m, n>> \notin Less
  BY <1>2, WFMin
<1>4. ASSUME NEW m \in S PROVE n <= m
  <2>1. m \in Nat /\ n \in Nat
    OBVIOUS
  <2>2. m < n => <<m, n>> \in Less
    BY <2>1 DEF Less
  <2>3. QED BY <1>3, <2>1, <2>2
<1>5. QED BY <1>4

\* A server that accepts something on offer has a favourite among it.
LEMMA HasFavourite ==
    ASSUME PrefOK, Favourite = {}
    PROVE  \A i \in DOMAIN pref : pref[i] \notin remaining
<1> DEFINE On == {i \in DOMAIN pref : pref[i] \in remaining}
<1>1. SUFFICES ASSUME On # {} PROVE FALSE
  OBVIOUS
<1>2. DOMAIN pref \subseteq Nat /\ DOMAIN pref = 1 .. Len(pref) /\ Len(pref) \in Nat
  BY DEF PrefOK
<1>3. On \subseteq Nat
  BY <1>2
<1>4. PICK i \in On : \A m \in On : i <= m
  BY <1>1, <1>3, LeastMember
<1>5. \A k \in 1 .. i - 1 : pref[k] \notin remaining
  BY <1>2, <1>4
<1>6. pref[i] \in Favourite
  BY <1>4, <1>5 DEF Favourite
<1>7. QED BY <1>6

\* The rounds end because nothing on offer is accepted: what has been recorded
\* is all of the preference.
LEMMA AllTold ==
    ASSUME TypeOK, PrefOK, Plain, Recovered, \A i \in DOMAIN pref : pref[i] \notin remaining
    PROVE  /\ {order[k] : k \in DOMAIN order} = {Reported[pref[i]] : i \in Told}
           /\ \A k, l \in DOMAIN order, i, j \in Told :
                 (k < l /\ order[k] = Reported[pref[i]] /\ order[l] = Reported[pref[j]]) => i < j
<1>1. DOMAIN pref = 1 .. Len(pref) /\ Len(pref) \in Nat
  BY DEF PrefOK
<1>2. /\ \A i \in Told : i \in DOMAIN pref /\ Reported[pref[i]] = pref[i]
      /\ Told = {i \in DOMAIN pref : pref[i] \in Offer(kem_groups)}
  BY <1>1 DEF Told, Recovered
<1>3. {order[k] : k \in DOMAIN order} = {pref[i] : i \in Told}
  BY <1>2 DEF Recovered
<1>4. {Reported[pref[i]] : i \in Told} = {pref[i] : i \in Told}
  BY <1>2
<1>5. QED BY <1>2, <1>3, <1>4 DEF Recovered

\* One round answered by the favourite under its own name: it is withdrawn,
\* recorded, and preferred to all that stays on offer.
LEMMA RecoverStep ==
    ASSUME TypeOK, PrefOK, remaining \subseteq Offer(kem_groups), Recovered,
           NEW g \in Group, probe_round(g), g \in Favourite, Reported[g] = g
    PROVE  Recovered' /\ phase' = "probe"
<1> DEFINE Out == Offer(kem_groups) \ remaining
           Out1 == Out \cup {g}
<1>1. /\ \A k \in DOMAIN order : order[k] \in Out
      /\ \A k \in DOMAIN order : \E i \in DOMAIN pref : order[k] = pref[i]
      /\ \A i \in DOMAIN pref : pref[i] \in Out => \E k \in DOMAIN order : order[k] = pref[i]
      /\ \A i \in DOMAIN pref : pref[i] \in Out => Reported[pref[i]] = pref[i]
  BY DEF Recovered
<1>2. PICK p \in DOMAIN pref : pref[p] = g /\ \A k \in 1 .. p - 1 : pref[k] \notin remaining
  BY DEF Favourite
<1>3. g \in remaining
  BY DEF Favourite
<1>4. /\ remaining' = remaining \ {g}
      /\ order' = Append(order, g)
      /\ phase' = "probe"
      /\ UNCHANGED <<pref, kem_groups>>
      /\ Offer(kem_groups)' = Offer(kem_groups)
  BY <1>3 DEF probe_round, given, Offer
<1>5. /\ Len(order) \in Nat
      /\ DOMAIN order = 1 .. Len(order)
      /\ DOMAIN order' = 1 .. Len(order) + 1
      /\ order'[Len(order) + 1] = g
      /\ \A k \in DOMAIN order : order'[k] = order[k]
  BY <1>4, PriorityAssumption DEF TypeOK
<1>6. DOMAIN pref = 1 .. Len(pref) /\ Len(pref) \in Nat
  BY DEF PrefOK
<1>7. Out1 = (Offer(kem_groups) \ remaining)'
  BY <1>3, <1>4
<1>8. {order'[k] : k \in DOMAIN order'} = {pref[i] : i \in DOMAIN pref} \cap Out1
  <2>1. ASSUME NEW k \in DOMAIN order'
        PROVE  order'[k] \in Out1 /\ \E i \in DOMAIN pref : order'[k] = pref[i]
    <3>1. CASE k = Len(order) + 1
      BY <3>1, <1>2, <1>5
    <3>2. CASE k \in DOMAIN order
      BY <3>2, <1>1, <1>5
    <3>3. QED BY <2>1, <3>1, <3>2, <1>5
  <2>2. ASSUME NEW i \in DOMAIN pref, pref[i] \in Out1
        PROVE  \E k \in DOMAIN order' : order'[k] = pref[i]
    <3>1. CASE pref[i] = g
      BY <3>1, <1>5
    <3>2. CASE pref[i] \in Out
      BY <3>2, <1>1, <1>5
    <3>3. QED BY <2>2, <3>1, <3>2
  <2>3. QED BY <2>1, <2>2
<1>9. ASSUME NEW k \in DOMAIN order', NEW l \in DOMAIN order',
             NEW i \in DOMAIN pref, NEW j \in DOMAIN pref,
             k < l, order'[k] = pref[i], order'[l] = pref[j]
      PROVE  i < j
  <2>1. k \in DOMAIN order /\ order[k] = pref[i]
    BY <1>5, <1>9
  <2>2. CASE l \in DOMAIN order
    BY <1>5, <1>9, <2>1, <2>2 DEF Recovered
  <2>3. CASE l = Len(order) + 1
    <3>1. pref[i] \in Out /\ pref[j] \in remaining
      BY <1>1, <1>3, <1>5, <1>9, <2>1, <2>3
    <3>2. QED BY <3>1 DEF Recovered
  <2>4. QED BY <1>5, <2>2, <2>3
<1>10. ASSUME NEW i \in DOMAIN pref, NEW j \in DOMAIN pref,
              pref[i] \in Out1, pref[j] \in remaining \ {g}
       PROVE  i < j
  <2>1. CASE pref[i] \in Out
    BY <1>10, <2>1 DEF Recovered
  <2>2. CASE pref[i] = g
    <3>1. i = p
      BY <2>2, <1>2 DEF PrefOK
    <3>2. j \notin 1 .. p - 1 /\ j # p
      BY <1>2, <1>10
    <3>3. QED BY <3>1, <3>2, <1>6
  <2>3. QED BY <1>10, <2>1, <2>2
<1>11. \A i \in DOMAIN pref : pref[i] \in Out1 => Reported[pref[i]] = pref[i]
  BY <1>1
<1> HIDE DEF Out, Out1
<1>12. QED BY <1>4, <1>7, <1>8, <1>9, <1>10, <1>11 DEF Recovered

\* One round answered by the favourite under another name: it is recorded as
\* the last, cannot be withdrawn, and the rounds end.
LEMMA AliasStep ==
    ASSUME TypeOK, PrefOK, remaining \subseteq Offer(kem_groups), Plain, Recovered,
           NEW g \in Group, probe_round(g), g \in Favourite, Reported[g] # g
    PROVE  RecoversPreference'
<1> DEFINE Out == Offer(kem_groups) \ remaining
<1>1. PICK p \in DOMAIN pref : pref[p] = g /\ \A k \in 1 .. p - 1 : pref[k] \notin remaining
  BY DEF Favourite
<1>2. g \in remaining /\ g \in Offer(kem_groups) /\ Reported[g] \notin Offer(kem_groups)
  BY DEF Favourite, Plain, NamesApart
<1>3. /\ order' = Append(order, Reported[g])
      /\ UNCHANGED <<pref, kem_groups>>
      /\ Told' = Told
  BY DEF probe_round, given, Offer, Told
<1>4. /\ Len(order) \in Nat
      /\ DOMAIN order = 1 .. Len(order)
      /\ DOMAIN order' = 1 .. Len(order) + 1
      /\ order'[Len(order) + 1] = Reported[g]
      /\ \A k \in DOMAIN order : order'[k] = order[k]
  BY <1>3, PriorityAssumption DEF TypeOK
<1>5. DOMAIN pref = 1 .. Len(pref) /\ Len(pref) \in Nat
  BY DEF PrefOK
<1>6. Told = {i \in DOMAIN pref : pref[i] \in Out} \cup {p}
  <2>1. ASSUME NEW i \in Told, pref[i] \in remaining PROVE i = p
    <3>1. i \in DOMAIN pref /\ ~(p \in 1 .. i - 1)
      BY <1>1, <1>2 DEF Told
    <3>2. ~(i \in 1 .. p - 1)
      BY <1>1, <2>1
    <3>3. QED BY <3>1, <3>2, <1>1, <1>5
  <2>2. ASSUME NEW i \in DOMAIN pref, pref[i] \in Out PROVE i \in Told
    <3>1. ASSUME NEW k \in 1 .. i - 1, pref[k] \in Offer(kem_groups)
          PROVE  Reported[pref[k]] = pref[k]
      <4>1. k \in DOMAIN pref /\ k < i
        BY <1>5
      <4>2. pref[k] \notin remaining
        BY <2>2, <4>1, <1>5 DEF Recovered
      <4>3. QED BY <3>1, <4>1, <4>2 DEF Recovered
    <3>2. QED BY <2>2, <3>1 DEF Told
  <2>3. p \in Told
    BY <1>1, <1>2, <1>5 DEF Told, Recovered
  <2>4. ASSUME NEW i \in Told PROVE i \in DOMAIN pref /\ pref[i] \in Offer(kem_groups)
    BY DEF Told
  <2>5. QED BY <2>1, <2>2, <2>3, <2>4
<1>7. \A i \in Told : \/ i = p /\ Reported[pref[i]] = Reported[g]
                      \/ /\ i \in DOMAIN pref
                         /\ pref[i] \in Out
                         /\ Reported[pref[i]] = pref[i]
  BY <1>1, <1>6 DEF Recovered
<1>8. \A k \in DOMAIN order : /\ order[k] \in Out
                              /\ \E i \in DOMAIN pref : order[k] = pref[i]
  BY DEF Recovered
<1>9. {order'[k] : k \in DOMAIN order'} = {Reported[pref[i]] : i \in Told}
  <2>1. ASSUME NEW k \in DOMAIN order' PROVE \E i \in Told : order'[k] = Reported[pref[i]]
    <3>1. CASE k = Len(order) + 1
      BY <3>1, <1>1, <1>4, <1>6
    <3>2. CASE k \in DOMAIN order
      <4>1. PICK i \in DOMAIN pref : order[k] = pref[i] /\ pref[i] \in Out
        BY <3>2, <1>8
      <4>2. Reported[pref[i]] = pref[i]
        BY <4>1 DEF Recovered
      <4>3. QED BY <3>2, <4>1, <4>2, <1>4, <1>6
    <3>3. QED BY <2>1, <3>1, <3>2, <1>4
  <2>2. ASSUME NEW i \in Told PROVE \E k \in DOMAIN order' : order'[k] = Reported[pref[i]]
    <3>1. CASE i = p
      BY <3>1, <1>1, <1>4
    <3>2. CASE i \in DOMAIN pref /\ pref[i] \in Out /\ Reported[pref[i]] = pref[i]
      <4>1. \E k \in DOMAIN order : order[k] = pref[i]
        BY <3>2 DEF Recovered
      <4>2. QED BY <3>2, <4>1, <1>4
    <3>3. QED BY <1>7, <3>1, <3>2
  <2>3. QED BY <2>1, <2>2
<1>10. ASSUME NEW k \in DOMAIN order', NEW l \in DOMAIN order', NEW i \in Told, NEW j \in Told,
              k < l, order'[k] = Reported[pref[i]], order'[l] = Reported[pref[j]]
       PROVE  i < j
  <2>1. k \in DOMAIN order /\ order[k] = Reported[pref[i]] /\ order[k] \in Offer(kem_groups)
    BY <1>4, <1>8, <1>10
  <2>2. i \in DOMAIN pref /\ pref[i] \in Out /\ Reported[pref[i]] = pref[i]
    BY <2>1, <1>2, <1>7
  <2>3. CASE j = p
    BY <2>2, <2>3, <1>1, <1>2 DEF Recovered
  <2>4. CASE j # p
    <3>1. j \in DOMAIN pref /\ pref[j] \in Out /\ Reported[pref[j]] = pref[j]
      BY <2>4, <1>7
    <3>2. l \in DOMAIN order /\ order[l] = pref[j]
      BY <3>1, <1>2, <1>4, <1>10
    <3>3. QED BY <2>1, <2>2, <3>1, <3>2, <1>10 DEF Recovered
  <2>5. QED BY <2>3, <2>4
<1>11. QED BY <1>3, <1>9, <1>10 DEF RecoversPreference

\* A server that answers every offer with its favourite has its preference
\* recovered, best first and without a gap, up to the first group that the
\* adapter reports by another name, for every preference, offer and naming.
THEOREM RecoversPreferenceCorrect == Spec => []RecoversPreference
<1>1. Init => RecoveryInv
  <2> SUFFICES ASSUME Init PROVE RecoveryInv
    OBVIOUS
  <2>1. PICK n \in 0 .. Cardinality(Group) : /\ pref \in [1 .. n -> Group]
                                             /\ \A i, k \in 1 .. n : pref[i] = pref[k] => i = k
    BY DEF Init, Preferences
  <2>2. n \in Nat
    BY <2>1, PriorityAssumption, FS_CardinalityType
  <2>3. PrefOK
    BY <2>1, <2>2 DEF PrefOK
  <2>4. remaining = Offer(kem_groups) /\ DOMAIN order = {} /\ phase = "probe"
    BY DEF Init
  <2>5. QED BY <2>3, <2>4 DEF RecoveryInv, Recovered, RecoversPreference
<1>2. TypeOK /\ RecoveryInv /\ [Next]_vars => RecoveryInv'
  <2> SUFFICES ASSUME TypeOK, RecoveryInv, [Next]_vars PROVE RecoveryInv'
    OBVIOUS
  <2>1. ASSUME UNCHANGED <<given, remaining, order, plain>>, phase # "probe", phase' # "probe"
        PROVE  RecoveryInv'
    <3>1. /\ UNCHANGED <<pref, kem_groups, remaining, order, plain>>
          /\ Told' = Told /\ (NamesApart' <=> NamesApart)
      BY <2>1 DEF given, Told, NamesApart, Offer
    <3>2. PrefOK' /\ (remaining \subseteq Offer(kem_groups))'
      BY <3>1 DEF RecoveryInv, PrefOK, Offer
    <3>3. RecoversPreference'
      BY <2>1, <3>1 DEF RecoveryInv, RecoversPreference
    <3>4. QED BY <2>1, <3>2, <3>3 DEF RecoveryInv
  <2>2. CASE probing_ends
    <3>1. /\ UNCHANGED <<pref, kem_groups, remaining, order>>
          /\ phase = "probe" /\ phase' = "judge"
          /\ plain' => plain /\ (remaining = {} \/ Favourite = {})
      BY <2>2 DEF probing_ends, given
    <3>2. PrefOK' /\ (remaining \subseteq Offer(kem_groups))'
      BY <3>1 DEF RecoveryInv, PrefOK, Offer
    <3>3. ASSUME plain', NamesApart' PROVE RecoversPreference'
      <4>1. Plain /\ Told' = Told
        BY <3>1, <3>3 DEF Plain, NamesApart, Offer, Told
      <4>2. \A i \in DOMAIN pref : pref[i] \notin remaining
        BY <3>1, <3>3, HasFavourite DEF RecoveryInv
      <4>3. QED BY <3>1, <4>1, <4>2, AllTold DEF RecoveryInv, RecoversPreference
    <3>4. RecoversPreference'
      BY <3>3 DEF RecoversPreference
    <3>5. QED BY <3>1, <3>2, <3>4 DEF RecoveryInv
  <2>3. ASSUME NEW g \in Group, probe_round(g) PROVE RecoveryInv'
    <3>1. /\ phase = "probe" /\ UNCHANGED <<pref, kem_groups>>
          /\ remaining' \subseteq remaining
          /\ plain' => plain /\ g \in Favourite
      BY <2>3 DEF probe_round, given
    <3>2. PrefOK' /\ (remaining \subseteq Offer(kem_groups))'
      BY <3>1 DEF RecoveryInv, PrefOK, Offer
    <3>3. CASE ~plain'
      BY <3>2, <3>3 DEF RecoveryInv, Plain, RecoversPreference
    <3>4. CASE ~NamesApart'
      BY <3>2, <3>4 DEF RecoveryInv, Plain, RecoversPreference
    <3>5. CASE plain' /\ NamesApart'
      <4>1. Plain /\ g \in Favourite
        BY <3>1, <3>5 DEF Plain, NamesApart, Offer
      <4>2. CASE Reported[g] = g
        BY <3>1, <3>2, <4>1, <4>2, <2>3, RecoverStep DEF RecoveryInv, RecoversPreference
      <4>3. CASE Reported[g] # g
        <5>1. RecoversPreference'
          BY <3>1, <4>1, <4>3, <2>3, AliasStep DEF RecoveryInv
        <5>2. phase' # "probe"
          <6>1. Reported[g] \notin remaining
            BY <4>1, <4>3 DEF Plain, NamesApart, RecoveryInv, Favourite
          <6>2. QED BY <6>1, <2>3 DEF probe_round
        <5>3. QED BY <3>2, <5>1, <5>2 DEF RecoveryInv
      <4>4. QED BY <4>2, <4>3
    <3>6. QED BY <3>3, <3>4, <3>5
  <2>4. CASE evaluate_group \/ judging_ends
    BY <2>1, <2>4 DEF evaluate_group, judging_ends, probing
  <2>5. CASE UNCHANGED vars
    <3>1. UNCHANGED <<pref, kem_groups, remaining, order, plain, phase>>
      BY <2>5 DEF vars, probing, given
    <3>2. CASE phase # "probe"
      BY <2>1, <2>5, <3>1, <3>2 DEF vars
    <3>3. CASE phase = "probe"
      <4>1. Offer(kem_groups)' = Offer(kem_groups)
        BY <3>1 DEF Offer
      <4>2. /\ PrefOK' /\ (remaining \subseteq Offer(kem_groups))'
            /\ NamesApart' => NamesApart
            /\ Recovered => Recovered'
        BY <3>1, <4>1 DEF RecoveryInv, PrefOK, NamesApart, Recovered
      <4>3. QED BY <3>1, <3>3, <4>2 DEF RecoveryInv, Plain, RecoversPreference
    <3>4. QED BY <3>2, <3>3
  <2>6. QED BY <2>2, <2>3, <2>4, <2>5 DEF Next
<1>3. RecoveryInv => RecoversPreference
  BY DEF RecoveryInv
<1>4. QED BY <1>1, <1>2, <1>3, TypeCorrect, PTL DEF Spec

=============================================================================
