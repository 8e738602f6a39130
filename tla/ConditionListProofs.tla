------------------------- MODULE ConditionListProofs -------------------------
(***************************************************************************)
(* What holds of the list of conditions after any number of calls, with    *)
(* any reasons.  The lemmas say what one setCondition does, sort included, *)
(* to a list that is in order: it stays in order, and what GetCondition    *)
(* finds in it changes for the one type at most.  So the list does what    *)
(* the function of module Conditions does.                                 *)
(***************************************************************************)
EXTENDS ConditionList, ListProofs

Item ==
  [type    : C!ConditionTypes,
   status  : C!Statuses,
   reason  : Causes \cup {"ConditionFailed", "ConditionUnknown", "OK"},
   message : {"", "Conditions failed", "Conditions unknown"},
   at      : Nat]

\* No two entries have one type.
Distinct(list) == \A i, j \in DOMAIN list : list[i].type = list[j].type => i = j

Increasing(list) == \A i, j \in DOMAIN list : i < j => Rank[list[i].type] < Rank[list[j].type]

InOrder(list) == list \in Seq(Item) /\ Increasing(list)

\* Different types have different places in the order of the names.
LEMMA RankOrders ==
  /\ \A t \in C!ConditionTypes : Rank[t] \in Int
  /\ \A t, u \in C!ConditionTypes : Rank[t] = Rank[u] => t = u
<1>1. DOMAIN ByName = 1 .. 6
  BY DEF ByName
<1>2. ASSUME NEW t \in C!ConditionTypes
      PROVE  Rank[t] \in 1 .. 6 /\ ByName[Rank[t]] = t
  <2>1. \E i \in DOMAIN ByName : ByName[i] = t
    <3>1. /\ ByName[1] = "ConfigReady" /\ ByName[2] = "DeploymentRunning" /\ ByName[3] = "Ready"
          /\ ByName[4] = "SecretReady" /\ ByName[5] = "ServiceReady" /\ ByName[6] = "VolumeBound"
      BY DEF ByName
    <3>2. t \in {"ConfigReady", "DeploymentRunning", "Ready", "SecretReady", "ServiceReady", "VolumeBound"}
      BY DEF C!ConditionTypes, C!Main, C!Deps
    <3> QED BY <1>1, <3>1, <3>2
  <2>2. Rank[t] = CHOOSE i \in DOMAIN ByName : ByName[i] = t
    BY DEF Rank
  <2> QED BY <1>1, <2>1, <2>2
<1> QED BY <1>2

\* What the lists are made of.
LEMMA ItemFields ==
  \A x \in Item : x.type \in C!ConditionTypes /\ x.status \in C!Statuses /\ x.at \in Nat
BY DEF Item

\* A list in order has no type twice.
LEMMA InOrderDistinct ==
  ASSUME NEW list, InOrder(list)
  PROVE  list \in Seq(Item) /\ Distinct(list)
<1>1. list \in Seq(Item) /\ \A i \in DOMAIN list : i \in Nat /\ list[i].type \in C!ConditionTypes
  <2>1. list \in Seq(Item)
    BY DEF InOrder
  <2>2. \A i \in DOMAIN list : i \in Nat /\ list[i] \in Item
    BY <2>1
  <2> QED BY <2>1, <2>2, ItemFields
<1>2. ASSUME NEW i \in DOMAIN list, NEW j \in DOMAIN list, list[i].type = list[j].type
      PROVE  i = j
  <2>1. ~(i < j) /\ ~(j < i)
    BY <1>1, <1>2, RankOrders DEF InOrder, Increasing
  <2> QED BY <1>1, <2>1
<1> QED BY <1>1, <1>2 DEF Distinct

\* Sorting puts the same entries in order.
LEMMA SortPutsInOrder ==
  ASSUME NEW list \in Seq(Item), Distinct(list)
  PROVE  InOrder(SortByType(list)) /\ Range(SortByType(list)) = Range(list)
<1> DEFINE keys == [i \in DOMAIN list |-> Rank[list[i].type]]
           order == StableOrder(keys)
           new == [k \in DOMAIN list |-> list[order[k]]]
<1>1. \A i \in DOMAIN list : list[i] \in Item /\ list[i].type \in C!ConditionTypes
  <2>1. \A i \in DOMAIN list : list[i] \in Item
    OBVIOUS
  <2> QED BY <2>1, ItemFields
<1>2. keys \in Seq(Int) /\ DOMAIN keys = DOMAIN list
  BY <1>1, RankOrders
<1>3. /\ order \in [DOMAIN list -> DOMAIN list]
      /\ \A i \in DOMAIN list : \E k \in DOMAIN list : order[k] = i
      /\ \A k, l \in DOMAIN list : k < l => Precedes(keys, order[k], order[l])
  <2> HIDE DEF keys
  <2> QED BY <1>2, StableOrderSorts
<1>4. \A i \in DOMAIN list : keys[i] = Rank[list[i].type]
  OBVIOUS
<1>5. \A i \in DOMAIN list : i \in Nat
  OBVIOUS
<1> HIDE DEF keys, order
<1>6. new \in Seq(Item)
  <2>1. DOMAIN list = 1 .. Len(list) /\ Len(list) \in Nat
    OBVIOUS
  <2>2. new \in [DOMAIN list -> Item]
    BY <1>1, <1>3
  <2> HIDE DEF new
  <2> QED BY <2>1, <2>2
<1>7. ASSUME NEW k \in DOMAIN list, NEW l \in DOMAIN list, k < l
      PROVE  Rank[list[order[k]].type] < Rank[list[order[l]].type]
  <2>1. order[k] \in DOMAIN list /\ order[l] \in DOMAIN list
    BY <1>3
  <2>2. Precedes(keys, order[k], order[l])
    BY <1>3, <1>7
  <2>3. CASE keys[order[k]] < keys[order[l]]
    BY <1>4, <2>1, <2>3
  <2>4. CASE keys[order[k]] = keys[order[l]] /\ order[k] < order[l]
    <3>1. list[order[k]].type = list[order[l]].type
      BY <1>1, <1>4, <2>1, <2>4, RankOrders
    <3>2. order[k] = order[l]
      BY <2>1, <3>1 DEF Distinct
    <3> QED BY <1>5, <2>1, <2>4, <3>2
  <2> QED BY <2>2, <2>3, <2>4 DEF Precedes
<1>8. Increasing(new)
  BY <1>7 DEF Increasing
<1>9. Range(new) = Range(list)
  BY <1>3 DEF Range
<1>10. SortByType(list) = new
  BY DEF SortByType, order, keys
<1> HIDE DEF new
<1> QED BY <1>6, <1>8, <1>9, <1>10 DEF InOrder

\* Of a list without a type twice, GetCondition finds the entry of a type if there is
\* one.
LEMMA GetConditionFinds ==
  ASSUME NEW list \in Seq(Item), Distinct(list), NEW t
  PROVE  /\ \A i \in DOMAIN list : list[i].type = t => GetCondition(list, t) = list[i]
         /\ (\A i \in DOMAIN list : list[i].type # t) => GetCondition(list, t) = C!NoCondition
<1>1. ASSUME NEW i \in DOMAIN list, list[i].type = t
      PROVE  GetCondition(list, t) = list[i]
  <2> DEFINE First(k) == list[k].type = t /\ \A j \in 1 .. k - 1 : list[j].type # t
  <2>1. First(i)
    <3>1. ASSUME NEW j \in 1 .. i - 1 PROVE list[j].type # t
      <4>1. j \in DOMAIN list /\ j # i
        BY <3>1
      <4> QED BY <1>1, <4>1 DEF Distinct
    <3> QED BY <1>1, <3>1
  <2>2. \A k \in DOMAIN list : First(k) => k = i
    BY <1>1 DEF Distinct
  <2>3. GetCondition(list, t) = list[CHOOSE k \in DOMAIN list : First(k)]
    BY <1>1 DEF GetCondition
  <2> HIDE DEF First
  <2>4. (CHOOSE k \in DOMAIN list : First(k)) = i
    BY <1>1, <2>1, <2>2
  <2> QED BY <2>3, <2>4
<1>2. (\A i \in DOMAIN list : list[i].type # t) => GetCondition(list, t) = C!NoCondition
  BY DEF GetCondition
<1> QED BY <1>1, <1>2

\* It finds the same in two such lists of the same entries.
LEMMA GetConditionSame ==
  ASSUME NEW a \in Seq(Item), Distinct(a), NEW b \in Seq(Item), Distinct(b), Range(a) = Range(b), NEW t
  PROVE  GetCondition(a, t) = GetCondition(b, t)
<1>1. CASE \E i \in DOMAIN a : a[i].type = t
  <2>1. PICK i \in DOMAIN a : a[i].type = t
    BY <1>1
  <2>2. PICK j \in DOMAIN b : b[j] = a[i]
    BY DEF Range
  <2> QED BY <2>1, <2>2, GetConditionFinds
<1>2. CASE \A i \in DOMAIN a : a[i].type # t
  <2>1. \A j \in DOMAIN b : \E i \in DOMAIN a : b[j] = a[i]
    BY DEF Range
  <2> QED BY <1>2, <2>1, GetConditionFinds
<1> QED BY <1>1, <1>2

\* One setCondition, with its sort: the list stays in order, and GetCondition finds the
\* new condition if the one before said something else, and all others as they were.
LEMMA SetConditionOnList ==
  ASSUME NEW list, InOrder(list), NEW ct, NEW status \in C!Statuses, NEW reason, NEW message, NEW at,
         NewCondition(ct, status, reason, message, at) \in Item
  PROVE  /\ InOrder(setCondition(list, ct, status, reason, message, at))
         /\ \A t : GetCondition(setCondition(list, ct, status, reason, message, at), t) =
                     IF t = ct /\ ~C!condEquals(GetCondition(list, t), status, reason, message)
                       THEN NewCondition(ct, status, reason, message, at)
                       ELSE GetCondition(list, t)
<1> DEFINE updated == NewCondition(ct, status, reason, message, at)
           Same(cond) == C!condEquals(cond, status, reason, message)
           replaced == [i \in DOMAIN list |->
                          IF list[i].type = ct /\ ~Same(list[i]) THEN updated ELSE list[i]]
           newConds == IF \E i \in DOMAIN list : list[i].type = ct THEN replaced ELSE Append(list, updated)
           new == setCondition(list, ct, status, reason, message, at)
<1>1. new = SortByType(newConds)
  BY DEF setCondition
<1>2. list \in Seq(Item) /\ Distinct(list)
  BY InOrderDistinct
<1>3. updated.type = ct /\ updated \in Item
  BY DEF NewCondition
<1>4. ~Same(C!NoCondition)
  BY DEF C!condEquals, C!NoCondition, C!Statuses
<1> HIDE DEF updated, Same, new
<1>5. /\ newConds \in Seq(Item) /\ Distinct(newConds)
      /\ \A t : GetCondition(newConds, t) =
                  IF t = ct /\ ~Same(GetCondition(list, t)) THEN updated ELSE GetCondition(list, t)
  <2>1. CASE \E i \in DOMAIN list : list[i].type = ct
    <3>1. replaced \in Seq(Item)
      <4>1. DOMAIN list = 1 .. Len(list) /\ Len(list) \in Nat
        BY <1>2
      <4>2. replaced \in [DOMAIN list -> Item]
        BY <1>2, <1>3
      <4> HIDE DEF replaced
      <4> QED BY <4>1, <4>2
    <3>2. \A i \in DOMAIN list : replaced[i].type = list[i].type
      BY <1>3
    <3>3. Distinct(replaced)
      BY <1>2, <3>2 DEF Distinct
    <3>4. ASSUME NEW t
          PROVE  GetCondition(replaced, t) =
                   IF t = ct /\ ~Same(GetCondition(list, t)) THEN updated ELSE GetCondition(list, t)
      <4>1. ASSUME NEW i \in DOMAIN list, list[i].type = t
            PROVE  /\ GetCondition(list, t) = list[i]
                   /\ GetCondition(replaced, t) = replaced[i]
        <5>1. i \in DOMAIN replaced /\ replaced[i].type = t
          BY <3>2, <4>1
        <5> HIDE DEF replaced
        <5> QED BY <1>2, <3>1, <3>3, <4>1, <5>1, GetConditionFinds
      <4>2. CASE \E i \in DOMAIN list : list[i].type = t
        BY <4>1, <4>2
      <4>3. CASE \A i \in DOMAIN list : list[i].type # t
        <5>1. t # ct
          BY <2>1, <4>3
        <5>2. GetCondition(list, t) = C!NoCondition
          BY <1>2, <4>3, GetConditionFinds
        <5>3. \A i \in DOMAIN replaced : replaced[i].type # t
          BY <3>2, <4>3
        <5> HIDE DEF replaced
        <5>4. GetCondition(replaced, t) = C!NoCondition
          BY <3>1, <3>3, <5>3, GetConditionFinds
        <5> QED BY <5>1, <5>2, <5>4
      <4> QED BY <4>2, <4>3
    <3> QED BY <2>1, <3>1, <3>3, <3>4
  <2>2. CASE \A i \in DOMAIN list : list[i].type # ct
    <3> DEFINE longer == Append(list, updated)
    <3>0. newConds = longer
      BY <2>2
    <3>1. /\ longer \in Seq(Item) /\ DOMAIN longer = 1 .. Len(list) + 1 /\ Len(list) \in Nat
          /\ DOMAIN list = 1 .. Len(list)
          /\ \A i \in DOMAIN list : longer[i] = list[i]
          /\ longer[Len(list) + 1] = updated
      BY <1>2, <1>3
    <3> HIDE DEF longer
    <3>2. \A i \in DOMAIN longer : i = Len(list) + 1 \/ i \in DOMAIN list
      BY <3>1
    <3>3. Distinct(longer)
      <4> SUFFICES ASSUME NEW i \in DOMAIN longer, NEW j \in DOMAIN longer, longer[i].type = longer[j].type
                   PROVE  i = j
        BY DEF Distinct
      <4>1. CASE i \in DOMAIN list /\ j \in DOMAIN list
        BY <1>2, <3>1, <4>1 DEF Distinct
      <4>2. CASE ~(i \in DOMAIN list /\ j \in DOMAIN list)
        BY <1>3, <2>2, <3>1, <3>2, <4>2
      <4> QED BY <4>1, <4>2
    <3>4. ASSUME NEW t
          PROVE  GetCondition(longer, t) =
                   IF t = ct /\ ~Same(GetCondition(list, t)) THEN updated ELSE GetCondition(list, t)
      <4>1. CASE t = ct
        <5>1. GetCondition(list, t) = C!NoCondition
          BY <1>2, <2>2, <4>1, GetConditionFinds
        <5>2. Len(list) + 1 \in DOMAIN longer
          BY <3>1
        <5>3. GetCondition(longer, t) = updated
          BY <1>3, <3>1, <3>3, <4>1, <5>2, GetConditionFinds
        <5> QED BY <1>4, <4>1, <5>1, <5>3
      <4>2. CASE t # ct /\ \E i \in DOMAIN list : list[i].type = t
        <5>1. PICK i \in DOMAIN list : list[i].type = t
          BY <4>2
        <5>2. i \in DOMAIN longer /\ longer[i] = list[i]
          BY <3>1
        <5> QED BY <1>2, <3>1, <3>3, <4>2, <5>1, <5>2, GetConditionFinds
      <4>3. CASE t # ct /\ \A i \in DOMAIN list : list[i].type # t
        <5>1. \A i \in DOMAIN longer : longer[i].type # t
          BY <1>3, <3>1, <3>2, <4>3
        <5> QED BY <1>2, <3>1, <3>3, <4>3, <5>1, GetConditionFinds
      <4> QED BY <4>1, <4>2, <4>3
    <3> QED BY <3>0, <3>1, <3>3, <3>4
  <2> QED BY <2>1, <2>2
<1> HIDE DEF newConds
<1>6. InOrder(new) /\ Range(new) = Range(newConds)
  BY <1>1, <1>5, SortPutsInOrder
<1>7. new \in Seq(Item) /\ Distinct(new)
  BY <1>6, InOrderDistinct
<1>8. \A t : GetCondition(new, t) = GetCondition(newConds, t)
  BY <1>5, <1>6, <1>7, GetConditionSame
<1> QED BY <1>5, <1>6, <1>8 DEF new, updated, Same

-----------------------------------------------------------------------------
\* The list as a function of the type

Bare(cond) == [status |-> cond.status, reason |-> cond.reason, message |-> cond.message, at |-> cond.at]

Seen(list) == [t \in C!ConditionTypes |-> Bare(GetCondition(list, t))]

\* One setCondition does to the list what it does to the function.
LEMMA SetConditionSeen ==
  ASSUME NEW list, InOrder(list), NEW ct \in C!ConditionTypes, NEW status \in C!Statuses,
         NEW reason, NEW message, NEW at, NewCondition(ct, status, reason, message, at) \in Item
  PROVE  Seen(setCondition(list, ct, status, reason, message, at))
           = C!setCondition(Seen(list), ct, status, reason, message, at)
<1> DEFINE new == setCondition(list, ct, status, reason, message, at)
           set == C!setCondition(Seen(list), ct, status, reason, message, at)
           updated == NewCondition(ct, status, reason, message, at)
<1>1. \A t : GetCondition(new, t) =
               IF t = ct /\ ~C!condEquals(GetCondition(list, t), status, reason, message)
                 THEN updated ELSE GetCondition(list, t)
  BY SetConditionOnList
<1>2. Bare(updated) = [status |-> status, reason |-> reason, message |-> message, at |-> at]
  BY DEF Bare, NewCondition
<1> HIDE DEF new, updated
<1>3. \A cond : C!condEquals(Bare(cond), status, reason, message)
                  <=> C!condEquals(cond, status, reason, message)
  BY DEF C!condEquals, Bare
<1>4. Seen(list)[ct] = Bare(GetCondition(list, ct))
  BY DEF Seen
<1>5. CASE C!condEquals(GetCondition(list, ct), status, reason, message)
  <2>1. \A t : GetCondition(new, t) = GetCondition(list, t)
    BY <1>1, <1>5
  <2>2. Seen(new) = Seen(list)
    BY <2>1, Zenon DEF Seen
  <2>3. set = Seen(list)
    BY <1>3, <1>4, <1>5 DEF C!setCondition
  <2> QED BY <2>2, <2>3 DEF new
<1>6. CASE ~C!condEquals(GetCondition(list, ct), status, reason, message)
  <2>1. set = [Seen(list) EXCEPT ![ct] = Bare(updated)]
    BY <1>2, <1>3, <1>4, <1>6 DEF C!setCondition
  <2>2. \A t \in C!ConditionTypes : GetCondition(new, t) = IF t = ct THEN updated ELSE GetCondition(list, t)
    BY <1>1, <1>6
  <2>3. \A t \in C!ConditionTypes : Seen(new)[t] = [Seen(list) EXCEPT ![ct] = Bare(updated)][t]
    BY <2>2 DEF Seen
  <2>4. Seen(new) = [Seen(list) EXCEPT ![ct] = Bare(updated)]
    BY <2>3 DEF Seen
  <2> QED BY <2>1, <2>4 DEF new
<1> QED BY <1>5, <1>6

\* What the loop over the dependent types finds in the list is what the status of the
\* main condition is made of.
LEMMA SummarySeen ==
  ASSUME NEW list, InOrder(list)
  PROVE  C!MainStatus(Seen(list)) =
           IF HasFailed(list) THEN "False" ELSE IF HasUnknown(list) THEN "Unknown" ELSE "True"
<1>1. list \in Seq(Item) /\ Distinct(list)
  BY InOrderDistinct
<1>2. ASSUME NEW dep \in C!Deps
      PROVE  /\ C!IsFalse(Seen(list)[dep]) <=> C!IsFalse(GetCondition(list, dep))
             /\ C!IsUnknown(Seen(list)[dep]) <=> C!IsUnknown(GetCondition(list, dep))
  BY DEF Seen, Bare, C!IsFalse, C!IsUnknown, C!ConditionTypes
<1>3. ~C!IsFalse(C!NoCondition) /\ C!IsUnknown(C!NoCondition)
  BY DEF C!IsFalse, C!IsUnknown, C!NoCondition
<1>4. ASSUME NEW dep \in C!Deps
      PROVE  /\ (\E i \in DOMAIN list : list[i].type = dep /\ C!IsFalse(list[i]))
                  <=> C!IsFalse(GetCondition(list, dep))
             /\ (\/ \E i \in DOMAIN list :
                      list[i].type = dep /\ ~C!IsFalse(list[i]) /\ C!IsUnknown(list[i])
                 \/ \A i \in DOMAIN list : list[i].type # dep)
                  <=> ~C!IsFalse(GetCondition(list, dep)) /\ C!IsUnknown(GetCondition(list, dep))
  <2>1. CASE \A i \in DOMAIN list : list[i].type # dep
    <3>1. GetCondition(list, dep) = C!NoCondition
      BY <1>1, <2>1, GetConditionFinds
    <3> QED BY <1>3, <2>1, <3>1
  <2>2. CASE \E i \in DOMAIN list : list[i].type = dep
    <3>1. \A i \in DOMAIN list : list[i].type = dep => list[i] = GetCondition(list, dep)
      BY <1>1, GetConditionFinds
    <3> QED BY <2>2, <3>1
  <2> QED BY <2>1, <2>2
<1>5. HasFailed(list) <=> \E dep \in C!Deps : C!IsFalse(Seen(list)[dep])
  BY <1>2, <1>4 DEF HasFailed
<1>6. HasUnknown(list) <=> \E dep \in C!Deps : ~C!IsFalse(Seen(list)[dep]) /\ C!IsUnknown(Seen(list)[dep])
  BY <1>2, <1>4 DEF HasUnknown
<1>7. HasFailed(list) <=> C!hasFailedCond(Seen(list))
  BY <1>5 DEF C!hasFailedCond
<1>8. ~HasFailed(list) => (HasUnknown(list) <=> C!hasUnknownCond(Seen(list)))
  BY <1>5, <1>6 DEF C!hasUnknownCond
<1> QED BY <1>7, <1>8 DEF C!MainStatus

\* A SetCondition does to the list what it does to the function, and what GetCondition
\* finds afterwards is as before, or says something else and has the time of the call.
LEMMA SetConditionWhole ==
  ASSUME NEW list, InOrder(list), NEW ct \in C!Deps, NEW status \in C!Statuses, NEW reason,
         NEW message, NEW at, NewCondition(ct, status, reason, message, at) \in Item
  PROVE  LET new == SetCondition(list, ct, status, reason, message, at)
         IN  /\ InOrder(new)
             /\ Seen(new) = C!SetCondition(Seen(list), ct, status, reason, message, at)
             /\ \A t : \/ GetCondition(new, t) = GetCondition(list, t)
                       \/ /\ GetCondition(new, t).at = at
                          /\ ~C!condEquals(GetCondition(list, t), GetCondition(new, t).status,
                                           GetCondition(new, t).reason, GetCondition(new, t).message)
<1> DEFINE newConds == setCondition(list, ct, status, reason, message, at)
           ready == C!MainStatus(Seen(newConds))
           new == setCondition(newConds, C!Main, ready, C!MainReason(ready), C!MainMessage(ready), at)
<1>1. ct \in C!ConditionTypes /\ C!Main \in C!ConditionTypes /\ ct # C!Main
  BY DEF C!ConditionTypes, C!Deps, C!Main
<1>2. NewCondition(ct, status, reason, message, at) \in Item
  OBVIOUS
<1>3. /\ InOrder(newConds)
      /\ Seen(newConds) = C!setCondition(Seen(list), ct, status, reason, message, at)
      /\ \A t : GetCondition(newConds, t) =
                  IF t = ct /\ ~C!condEquals(GetCondition(list, t), status, reason, message)
                    THEN NewCondition(ct, status, reason, message, at) ELSE GetCondition(list, t)
  <2>1. Seen(newConds) = C!setCondition(Seen(list), ct, status, reason, message, at)
    BY <1>1, <1>2, SetConditionSeen
  <2> QED BY <1>1, <1>2, <2>1, SetConditionOnList
<1> HIDE DEF newConds
<1>4. /\ ready \in C!Statuses
      /\ ready = IF HasFailed(newConds) THEN "False" ELSE IF HasUnknown(newConds) THEN "Unknown" ELSE "True"
  BY <1>3, SummarySeen DEF C!Statuses
<1>5. SetCondition(list, ct, status, reason, message, at) = new
  <2>1. /\ C!MainReason("False") = "ConditionFailed" /\ C!MainMessage("False") = "Conditions failed"
        /\ C!MainReason("Unknown") = "ConditionUnknown" /\ C!MainMessage("Unknown") = "Conditions unknown"
        /\ C!MainReason("True") = "OK" /\ C!MainMessage("True") = ""
    BY DEF C!MainReason, C!MainMessage
  <2> HIDE DEF ready
  <2>2. CASE HasFailed(newConds)
    BY <1>4, <2>1, <2>2 DEF SetCondition, newConds
  <2>3. CASE ~HasFailed(newConds) /\ HasUnknown(newConds)
    BY <1>4, <2>1, <2>3 DEF SetCondition, newConds
  <2>4. CASE ~HasFailed(newConds) /\ ~HasUnknown(newConds)
    BY <1>4, <2>1, <2>4 DEF SetCondition, newConds
  <2> QED BY <2>2, <2>3, <2>4
<1>6. NewCondition(C!Main, ready, C!MainReason(ready), C!MainMessage(ready), at) \in Item
  <2> HIDE DEF ready
  <2>1. /\ C!MainReason(ready) \in {"ConditionFailed", "ConditionUnknown", "OK"}
        /\ C!MainMessage(ready) \in {"", "Conditions failed", "Conditions unknown"}
    BY <1>4 DEF C!MainReason, C!MainMessage
  <2>2. at \in Nat
    BY <1>2 DEF NewCondition, Item
  <2> QED BY <1>1, <1>4, <2>1, <2>2 DEF NewCondition, Item
<1>7. C!SetCondition(Seen(list), ct, status, reason, message, at)
        = C!setCondition(Seen(newConds), C!Main, ready, C!MainReason(ready), C!MainMessage(ready), at)
  <2> DEFINE seen == Seen(newConds)
  <2>1. seen = C!setCondition(Seen(list), ct, status, reason, message, at)
    BY <1>3
  <2> HIDE DEF seen
  <2>2. CASE C!hasFailedCond(seen)
    BY <2>1, <2>2 DEF C!SetCondition, C!MainStatus, C!MainReason, C!MainMessage, seen
  <2>3. CASE ~C!hasFailedCond(seen) /\ C!hasUnknownCond(seen)
    BY <2>1, <2>3 DEF C!SetCondition, C!MainStatus, C!MainReason, C!MainMessage, seen
  <2>4. CASE ~C!hasFailedCond(seen) /\ ~C!hasUnknownCond(seen)
    BY <2>1, <2>4 DEF C!SetCondition, C!MainStatus, C!MainReason, C!MainMessage, seen
  <2> QED BY <2>2, <2>3, <2>4
<1> HIDE DEF ready
<1>8. /\ InOrder(new)
      /\ Seen(new) = C!setCondition(Seen(newConds), C!Main, ready, C!MainReason(ready),
                                    C!MainMessage(ready), at)
      /\ \A t : GetCondition(new, t) =
                  IF t = C!Main /\ ~C!condEquals(GetCondition(newConds, t), ready, C!MainReason(ready),
                                                 C!MainMessage(ready))
                    THEN NewCondition(C!Main, ready, C!MainReason(ready), C!MainMessage(ready), at)
                    ELSE GetCondition(newConds, t)
  <2>1. Seen(new) = C!setCondition(Seen(newConds), C!Main, ready, C!MainReason(ready),
                                   C!MainMessage(ready), at)
    BY <1>1, <1>3, <1>4, <1>6, SetConditionSeen
  <2> QED BY <1>3, <1>4, <1>6, <2>1, SetConditionOnList
<1> HIDE DEF new
<1>9. ASSUME NEW t
      PROVE  \/ GetCondition(new, t) = GetCondition(list, t)
             \/ /\ GetCondition(new, t).at = at
                /\ ~C!condEquals(GetCondition(list, t), GetCondition(new, t).status,
                                 GetCondition(new, t).reason, GetCondition(new, t).message)
  <2>0. ASSUME NEW type, NEW s, NEW r, NEW m
        PROVE  LET cond == NewCondition(type, s, r, m, at)
               IN  cond.status = s /\ cond.reason = r /\ cond.message = m /\ cond.at = at
    BY DEF NewCondition
  <2>1. CASE t = ct
    <3>1. GetCondition(new, t) = GetCondition(newConds, t)
      BY <1>1, <1>8, <2>1
    <3> QED BY <1>3, <2>0, <2>1, <3>1
  <2>2. CASE t = C!Main
    <3>1. GetCondition(newConds, t) = GetCondition(list, t)
      BY <1>1, <1>3, <2>2
    <3> QED BY <1>8, <2>0, <2>2, <3>1
  <2>3. CASE t # ct /\ t # C!Main
    BY <1>3, <1>8, <2>3
  <2> QED BY <2>1, <2>2, <2>3
<1> QED BY <1>5, <1>7, <1>8, <1>9, Zenon

-----------------------------------------------------------------------------
\* The list is in order, and what it says was said before now.
ListInv ==
  /\ InOrder(conds)
  /\ now \in Nat
  /\ \A t \in C!ConditionTypes : GetCondition(conds, t).at \in Nat /\ GetCondition(conds, t).at < now

\* What a call does, in terms of GetCondition and of the function.
LEMMA CallDoes ==
  ASSUME ListInv, NEW ct \in Types, NEW status \in C!Statuses, NEW reason \in Causes,
         Call(ct, status, reason)
  PROVE  /\ InOrder(conds')
         /\ Seen(conds') = C!SetCondition(Seen(conds), ct, status, reason, "", now)
         /\ \A t : \/ GetCondition(conds', t) = GetCondition(conds, t)
                   \/ /\ GetCondition(conds', t).at = now
                      /\ ~C!condEquals(GetCondition(conds, t), GetCondition(conds', t).status,
                                       GetCondition(conds', t).reason, GetCondition(conds', t).message)
<1> DEFINE message == ""
<1>1. conds' = SetCondition(conds, ct, status, reason, message, now)
  BY Zenon DEF Call
<1>2. ct \in C!Deps
  BY TypesAssumption
<1>3. NewCondition(ct, status, reason, message, now) \in Item
  BY <1>2 DEF NewCondition, Item, ListInv, C!ConditionTypes
<1>4. InOrder(conds)
  BY DEF ListInv
<1>5. /\ InOrder(conds')
      /\ Seen(conds') = C!SetCondition(Seen(conds), ct, status, reason, message, now)
      /\ \A t : \/ GetCondition(conds', t) = GetCondition(conds, t)
                \/ /\ GetCondition(conds', t).at = now
                   /\ ~C!condEquals(GetCondition(conds, t), GetCondition(conds', t).status,
                                    GetCondition(conds', t).reason, GetCondition(conds', t).message)
  <2> HIDE DEF message
  <2> QED BY <1>1, <1>2, <1>3, <1>4, SetConditionWhole
<1> QED BY <1>5, Zenon

\* Every call keeps the invariant.
LEMMA ListStep == ListInv /\ [Next]_vars => ListInv'
<1> SUFFICES ASSUME ListInv, [Next]_vars
             PROVE  ListInv'
  OBVIOUS
<1>1. ASSUME NEW ct \in Types, NEW status \in C!Statuses, NEW reason \in Causes,
             Call(ct, status, reason)
      PROVE  ListInv'
  <2>1. InOrder(conds') /\ \A t : \/ GetCondition(conds', t) = GetCondition(conds, t)
                                  \/ GetCondition(conds', t).at = now
    BY <1>1, CallDoes
  <2>2. now' = now + 1 /\ now \in Nat
    BY <1>1 DEF Call, ListInv
  <2>3. ASSUME NEW t \in C!ConditionTypes
        PROVE  GetCondition(conds', t).at \in Nat /\ GetCondition(conds', t).at < now'
    <3>1. GetCondition(conds, t).at \in Nat /\ GetCondition(conds, t).at < now
      BY DEF ListInv
    <3> QED BY <2>1, <2>2, <3>1
  <2>4. now' \in Nat
    BY <2>2
  <2>5. InOrder(conds)'
    BY <2>1 DEF InOrder, Increasing
  <2>6. ASSUME NEW t \in C!ConditionTypes
        PROVE  GetCondition(conds, t)' = GetCondition(conds', t)
    BY DEF GetCondition
  <2> QED BY <2>3, <2>4, <2>5, <2>6, Zenon DEF ListInv
<1>2. CASE UNCHANGED vars
  <2>1. conds' = conds /\ now' = now
    BY <1>2 DEF vars
  <2>2. InOrder(conds)' <=> InOrder(conds)
    BY <2>1 DEF InOrder, Increasing
  <2>3. \A t : GetCondition(conds, t)' = GetCondition(conds, t)
    BY <2>1 DEF GetCondition
  <2> QED BY <2>1, <2>2, <2>3, Zenon DEF ListInv
<1> QED BY <1>1, <1>2 DEF Next

\* The list always satisfies the invariant.
THEOREM ListInvariant == Spec => []ListInv
<1>1. Init => ListInv
  <2> SUFFICES ASSUME Init PROVE ListInv
    OBVIOUS
  <2>1. conds = <<>> /\ now = 1
    BY DEF Init
  <2>2. InOrder(conds)
    BY <2>1 DEF InOrder, Increasing
  <2>3. \A t : GetCondition(conds, t).at = 0
    BY <2>1 DEF GetCondition, C!NoCondition
  <2> QED BY <2>1, <2>2, <2>3 DEF ListInv
<1> QED BY <1>1, ListStep, PTL DEF Spec

\* After any number of calls with any reasons the list is sorted and has one entry per
\* type.
THEOREM CanonicalCorrect == Spec => []Canonical
<1>1. ListInv => Canonical
  BY DEF ListInv, InOrder, Increasing, Canonical
<1> QED BY <1>1, ListInvariant, PTL

\* A call moves the time of an entry exactly when the entry says something else.
THEOREM TimeOfTransitionCorrect == Spec => TimeOfTransition
<1> DEFINE Moves ==
      \A t \in C!ConditionTypes :
        \E before \in {GetCondition(conds, t)}, after \in {GetCondition(conds', t)} :
          after.at # before.at <=> ~C!condEquals(before, after.status, after.reason, after.message)
<1>1. ListInv /\ Next => Moves
  <2> SUFFICES ASSUME ListInv, NEW ct \in Types, NEW status \in C!Statuses, NEW reason \in Causes,
                      Call(ct, status, reason), NEW t \in C!ConditionTypes
               PROVE  LET before == GetCondition(conds, t)
                          after  == GetCondition(conds', t)
                      IN  after.at # before.at
                            <=> ~C!condEquals(before, after.status, after.reason, after.message)
    BY DEF Next
  <2>1. CASE GetCondition(conds', t) = GetCondition(conds, t)
    BY <2>1 DEF C!condEquals
  <2>2. CASE /\ GetCondition(conds', t).at = now
             /\ ~C!condEquals(GetCondition(conds, t), GetCondition(conds', t).status,
                              GetCondition(conds', t).reason, GetCondition(conds', t).message)
    <3>1. now # GetCondition(conds, t).at
      BY DEF ListInv
    <3> QED BY <2>2, <3>1
  <2> QED BY <2>1, <2>2, CallDoes, Zenon
<1>2. ListInv /\ [Next]_vars => [Moves]_vars
  BY <1>1
<1> QED BY <1>2, ListInvariant, PTL DEF Spec, TimeOfTransition

\* A record with a field for every type is a function of the type.
LEMMA RecordSeen ==
  ASSUME NEW list
  PROVE  Seen(list) = [Ready             |-> Bare(GetCondition(list, "Ready")),
                       ConfigReady       |-> Bare(GetCondition(list, "ConfigReady")),
                       SecretReady       |-> Bare(GetCondition(list, "SecretReady")),
                       VolumeBound       |-> Bare(GetCondition(list, "VolumeBound")),
                       DeploymentRunning |-> Bare(GetCondition(list, "DeploymentRunning")),
                       ServiceReady      |-> Bare(GetCondition(list, "ServiceReady"))]
<1> DEFINE f(t) == Bare(GetCondition(list, t))
<1>1. C!ConditionTypes = {"Ready", "ConfigReady", "SecretReady", "VolumeBound", "DeploymentRunning",
                          "ServiceReady"}
  BY DEF C!ConditionTypes, C!Main, C!Deps
<1>2. Seen(list) = [t \in C!ConditionTypes |-> f(t)]
  BY DEF Seen
<1> HIDE DEF f
<1>3. Seen(list) = [Ready |-> f("Ready"), ConfigReady |-> f("ConfigReady"),
                    SecretReady |-> f("SecretReady"), VolumeBound |-> f("VolumeBound"),
                    DeploymentRunning |-> f("DeploymentRunning"), ServiceReady |-> f("ServiceReady")]
  BY <1>1, <1>2
<1> QED BY <1>3 DEF f

\* The record and the function the list is written as are the same.
LEMMA EntriesSeen == Entries = Seen(conds) /\ Entries' = Seen(conds')
<1>1. Entries = Seen(conds)
  BY RecordSeen, Zenon DEF Entries, Entry, Bare
<1>2. \A t : GetCondition(conds, t)' = GetCondition(conds', t)
  BY DEF GetCondition
<1>3. Entries' = Seen(conds')
  BY <1>2, RecordSeen, Zenon DEF Entries, Entry, Bare
<1> QED BY <1>1, <1>3

\* For any reasons and any number of calls, what SetCondition does to the sorted list is
\* what SetCondition of module Conditions does to the function of the type.
THEOREM ImplementsConditionsCorrect == Spec => ImplementsConditions
<1> DEFINE Does ==
      \E before \in {Entries}, after \in {Entries'} :
        \E ct \in Types, status \in C!Statuses, reason \in Causes :
          after = C!SetCondition(before, ct, status, reason, "", now)
<1>1. ListInv /\ Next => Does
  BY CallDoes, EntriesSeen, Zenon DEF Next
<1>2. ListInv /\ [Next]_vars => [Does]_vars
  BY <1>1
<1> QED BY <1>2, ListInvariant, PTL DEF Spec, ImplementsConditions
=============================================================================
