----------------------- MODULE MultiVehicleManagerProofs -----------------------
(***************************************************************************)
(* Proofs about VehicleLinkManager and MultiVehicleManager, for any number *)
(* of vehicle objects, ids and links of any kind.  First each vehicle's    *)
(* link manager by itself; then the vehicles' life over the managers: no   *)
(* vehicle that has been destroyed is active or about to be, activation    *)
(* settles on the fly view's selection, a vehicle that is removed is       *)
(* deleted once, and the links are disconnected with the last vehicle on   *)
(* them, unless a reference has leaked.                                    *)
(***************************************************************************)
EXTENDS MultiVehicleManager, FiniteSetTheorems, SequenceTheorems,
        WellFoundedInduction, TLAPS

-----------------------------------------------------------------------------
(***************************************************************************)
(* The link managers.                                                      *)
(*                                                                         *)
(* A change of a manager (_addLink, _removeLink, a message, the check, a   *)
(* close) is a function on its record, so what it does is a lemma about    *)
(* one record: it leaves the record Good, changes the list of links in one *)
(* known way, and follows two rules about the loss and the primary link.   *)
(* The steps then only have to count: the reference count of a link is the *)
(* number of vehicles that list it.                                        *)
(***************************************************************************)

\* A non-empty set of naturals has its least element.
LEMMA MinIsIn ==
  ASSUME NEW S \in SUBSET Nat, S # {}
  PROVE  Min(S) \in S
<1>1. IsWellFoundedOn(OpToRel(<, Nat), Nat)
  BY NatLessThanWellFounded
<1>2. PICK x \in S : \A y \in S : ~ (<<y, x>> \in OpToRel(<, Nat))
  BY <1>1, WFMin
<1>3. \A y \in S : x <= y
  <2> TAKE y \in S
  <2>1. x \in Nat /\ y \in Nat
    OBVIOUS
  <2>2. ~ (y < x)
    BY <1>2, <2>1 DEF OpToRel
  <2> QED BY <2>1, <2>2
<1> QED BY <1>3 DEF Min

\* The first listed candidate is one, and is listed.
LEMMA FirstIsIn ==
  ASSUME NEW m \in Managers, NEW C, C \cap Listed(m) # {}
  PROVE  First(m, C) \in C /\ First(m, C) \in Listed(m)
<1> DEFINE S == {i \in DOMAIN m.links : m.links[i] \in C}
<1>1. m.links \in Seq(Links)
  BY DEF Managers
<1>2. S \in SUBSET Nat
  BY <1>1
<1>3. S # {}
  BY DEF Listed, Range
<1>4. Min(S) \in S
  BY <1>2, <1>3, MinIsIn
<1> QED BY <1>4 DEF First, Listed, Range

\* Appending a link adds it, and doubles none.
LEMMA RangeOfAppend ==
  ASSUME NEW s \in Seq(Links), NEW x \in Links
  PROVE  /\ Append(s, x) \in Seq(Links)
         /\ Range(Append(s, x)) = Range(s) \cup {x}
         /\ IsInjective(s) /\ x \notin Range(s) => IsInjective(Append(s, x))
<1> DEFINE t == Append(s, x)
<1>1. /\ t \in Seq(Links)
      /\ DOMAIN t = 1 .. Len(s) + 1
      /\ \A j \in 1 .. Len(s) : t[j] = s[j]
      /\ t[Len(s) + 1] = x
      /\ DOMAIN s = 1 .. Len(s) /\ Len(s) \in Nat
  OBVIOUS
<1>2. Range(t) = Range(s) \cup {x}
  <2>1. ASSUME NEW y \in Range(t) PROVE y \in Range(s) \cup {x}
    BY <1>1 DEF Range
  <2>2. ASSUME NEW y \in Range(s) PROVE y \in Range(t)
    BY <1>1 DEF Range
  <2>3. x \in Range(t)
    BY <1>1 DEF Range
  <2> QED BY <2>1, <2>2, <2>3
<1>3. IsInjective(s) /\ x \notin Range(s) => IsInjective(t)
  BY <1>1 DEF IsInjective, Range
<1> QED BY <1>1, <1>2, <1>3

\* Removing the only occurrence of a link removes it and nothing else.
LEMMA RangeOfRemoveAt ==
  ASSUME NEW s \in Seq(Links), IsInjective(s), NEW i \in DOMAIN s
  PROVE  /\ RemoveAt(s, i) \in Seq(Links)
         /\ Range(RemoveAt(s, i)) = Range(s) \ {s[i]}
         /\ IsInjective(RemoveAt(s, i))
<1> DEFINE r == RemoveAt(s, i)
<1>1. /\ r \in Seq(Links)
      /\ Len(r) = Len(s) - 1
      /\ \A j \in 1 .. Len(r) : r[j] = IF j < i THEN s[j] ELSE s[j + 1]
  <2> DEFINE a == SubSeq(s, 1, i - 1)
             b == SubSeq(s, i + 1, Len(s))
  <2>1. i \in 1 .. Len(s) /\ Len(s) \in Nat
    OBVIOUS
  <2>2. /\ a \in Seq(Links) /\ Len(a) = i - 1
        /\ \A j \in 1 .. i - 1 : a[j] = s[j]
    BY <2>1, SubSeqProperties
  <2>3. /\ b \in Seq(Links) /\ Len(b) = Len(s) - i
        /\ \A j \in 1 .. Len(s) - i : b[j] = s[i + j]
    BY <2>1, SubSeqProperties
  <2> HIDE DEF a, b
  <2>4. /\ a \o b \in Seq(Links) /\ Len(a \o b) = Len(s) - 1
        /\ \A j \in 1 .. Len(s) - 1 :
             (a \o b)[j] = IF j < i THEN s[j] ELSE s[j + 1]
    BY <2>1, <2>2, <2>3
  <2>5. r = a \o b
    BY DEF RemoveAt, a, b
  <2> QED BY <2>4, <2>5
<1>2. IsInjective(r)
  BY <1>1 DEF IsInjective
<1>3. ASSUME NEW x \in Range(r) PROVE x \in Range(s) \ {s[i]}
  BY <1>1 DEF Range, IsInjective
<1>4. ASSUME NEW x \in Range(s) \ {s[i]} PROVE x \in Range(r)
  <2>1. PICK j \in DOMAIN s : s[j] = x
    BY DEF Range
  <2>2. CASE j < i
    BY <1>1, <2>1, <2>2 DEF Range
  <2>3. CASE j > i
    <3>1. j - 1 \in 1 .. Len(r) /\ r[j - 1] = s[j]
      BY <1>1, <2>1, <2>3
    <3> QED BY <1>1, <2>1, <3>1 DEF Range
  <2> QED BY <2>1, <2>2, <2>3
<1> QED BY <1>1, <1>2, <1>3, <1>4

-----------------------------------------------------------------------------
(* One manager.                                                            *)

\* What holds of a manager in the middle of a change, when the primary link
\* may not have been looked for yet.
Ordered(m) ==
  /\ m \in Managers
  /\ IsInjective(m.links)
  /\ m.lost \cup m.elapsed \subseteq Listed(m)
  /\ \A link \in m.lost : ~HighLatency(link)
  /\ m.primary = NoLink \/ m.primary \in Listed(m)

\* What a change of a manager does not do: announce or withdraw a total loss
\* that is none, or make a high latency link primary without need.
LossRule(m, n) ==
  /\ ~m.communicationLost /\ n.communicationLost => Healthy(n) = {}
  /\ m.communicationLost /\ ~n.communicationLost => n.lost = {}

LatencyRule(m, n) ==
  n.primary # m.primary /\ HighLatency(n.primary) =>
    /\ \A link \in Healthy(n) : HighLatency(link)
    /\ n.transmission = "started"

Chosen(m) == m.primary = NoLink => Healthy(m) = {}

\* _bestActivePrimaryLink finds a link of the vehicle if one is healthy, and a
\* high latency one only if no other is.
LEMMA BestIsListed ==
  ASSUME NEW m, Ordered(m)
  PROVE  /\ BestActivePrimaryLink(m) \in Listed(m) \cup {NoLink}
         /\ BestActivePrimaryLink(m) = NoLink => Healthy(m) = {}
         /\ HighLatency(BestActivePrimaryLink(m)) =>
              \A link \in Healthy(m) : HighLatency(link)
<1> DEFINE usb    == {link \in Healthy(m) : Kind[link] = "usb"}
           normal == {link \in Healthy(m) : ~HighLatency(link)}
<1>1. /\ m \in Managers
      /\ Listed(m) \subseteq Links
      /\ NoLink \notin Listed(m)
  BY LinkAssumption DEF Ordered, Managers, Listed, Range
<1>2. ASSUME NEW C \in SUBSET Healthy(m), C # {}
      PROVE  /\ First(m, C) \in C /\ First(m, C) \in Listed(m)
             /\ First(m, C) # NoLink
  <2>1. C \cap Listed(m) # {}
    BY <1>2 DEF Healthy
  <2> QED BY <1>1, <2>1, FirstIsIn
<1>3. CASE usb # {}
  <2>1. BestActivePrimaryLink(m) = First(m, usb)
    BY <1>3 DEF BestActivePrimaryLink
  <2> QED BY <1>2, <1>3, <2>1 DEF HighLatency
<1>4. CASE usb = {} /\ normal # {}
  <2>1. BestActivePrimaryLink(m) = First(m, normal)
    BY <1>4 DEF BestActivePrimaryLink
  <2> QED BY <1>2, <1>4, <2>1
<1>5. CASE usb = {} /\ normal = {} /\ HighLatency(m.primary)
  <2>1. BestActivePrimaryLink(m) = m.primary
    BY <1>5 DEF BestActivePrimaryLink
  <2> QED BY <1>5, <2>1 DEF Ordered, HighLatency
<1>6. CASE usb = {} /\ normal = {} /\ ~HighLatency(m.primary)
  <2>1. BestActivePrimaryLink(m) =
          IF Healthy(m) # {} THEN First(m, Healthy(m)) ELSE NoLink
    BY <1>6 DEF BestActivePrimaryLink
  <2> QED BY <1>2, <1>6, <2>1 DEF HighLatency
<1> QED BY <1>3, <1>4, <1>5, <1>6

\* _updatePrimaryLink leaves everything but the primary link and its
\* transmission alone, and chooses.
LEMMA PrimaryIsChosen ==
  ASSUME NEW m, Ordered(m)
  PROVE  LET n == UpdatePrimaryLink(m)
         IN  /\ Ordered(n) /\ Chosen(n)
             /\ n.links = m.links /\ n.lost = m.lost /\ n.elapsed = m.elapsed
             /\ n.communicationLost = m.communicationLost
             /\ LatencyRule(m, n)
<1> DEFINE best == BestActivePrimaryLink(m)
           n == UpdatePrimaryLink(m)
           t == IF HighLatency(best) THEN "started"
                ELSE IF HighLatency(m.primary) THEN "stopped"
                ELSE m.transmission
<1>1. /\ best \in Listed(m) \cup {NoLink}
      /\ best = NoLink => Healthy(m) = {}
      /\ HighLatency(best) => \A link \in Healthy(m) : HighLatency(link)
  BY BestIsListed
<1>2. NoLink \notin Listed(m) /\ Listed(m) \subseteq Links
  BY LinkAssumption DEF Ordered, Managers, Listed, Range
<1>3. CASE n = m /\ (m.primary \in Listed(m) \/ best = m.primary)
  BY <1>1, <1>2, <1>3 DEF Chosen, LatencyRule
<1>4. CASE n = [m EXCEPT !.primary = best, !.transmission = t]
  <2>1. t \in {"unset", "stopped", "started"}
    BY DEF Ordered, Managers
  <2>2. best \in Links \cup {NoLink}
    BY <1>1, <1>2
  <2>3. n \in Managers
    BY <1>4, <2>1, <2>2 DEF Ordered, Managers
  <2>4. /\ n.links = m.links /\ n.lost = m.lost /\ n.elapsed = m.elapsed
        /\ n.communicationLost = m.communicationLost
        /\ n.primary = best
    BY <1>4 DEF Ordered, Managers
  <2>5. Ordered(n) /\ Chosen(n)
    BY <1>1, <2>3, <2>4 DEF Ordered, Chosen, Listed, Healthy
  <2>6. n.transmission = t
    BY <1>4 DEF Ordered, Managers
  <2>7. LatencyRule(m, n)
    <3>1. Healthy(n) = Healthy(m)
      BY <2>4 DEF Healthy, Listed
    <3> QED BY <1>1, <2>4, <2>6, <3>1 DEF LatencyRule
  <2> QED BY <2>4, <2>5, <2>7
<1>5. \/ n = m /\ (m.primary \in Listed(m) \/ best = m.primary)
      \/ n = [m EXCEPT !.primary = best, !.transmission = t]
  BY DEF UpdatePrimaryLink
<1> QED BY <1>3, <1>4, <1>5

\* The list holds links.
LEMMA ListIsOfLinks ==
  ASSUME NEW m, Ordered(m)
  PROVE  /\ m.links \in Seq(Links)
         /\ Listed(m) \subseteq Links
         /\ NoLink \notin Listed(m)
BY LinkAssumption DEF Ordered, Managers, Listed, Range

Good(m) == Ordered(m) /\ Chosen(m)

\* _addLink.
LEMMA LinkIsAdded ==
  ASSUME NEW m, Good(m), NEW link \in Links \ Listed(m)
  PROVE  /\ Good(AddLink(m, link))
         /\ Listed(AddLink(m, link)) = Listed(m) \cup {link}
         /\ LossRule(m, AddLink(m, link)) /\ LatencyRule(m, AddLink(m, link))
<1> DEFINE longer == [m EXCEPT !.links = Append(@, link)]
           n == UpdatePrimaryLink(longer)
           a == AddLink(m, link)
<1>1. m \in Managers /\ m.links \in Seq(Links)
  BY ListIsOfLinks DEF Good, Ordered
<1>2. /\ longer \in Managers
      /\ longer.links = Append(m.links, link)
      /\ longer.lost = m.lost /\ longer.elapsed = m.elapsed
      /\ longer.primary = m.primary
      /\ longer.communicationLost = m.communicationLost
  <2> DEFINE links == Append(m.links, link)
  <2>1. links \in Seq(Links)
    BY <1>1, RangeOfAppend
  <2>2. longer = [m EXCEPT !.links = links]
    OBVIOUS
  <2> HIDE DEF links, longer
  <2>3. /\ longer \in Managers /\ longer.links = links
        /\ longer.lost = m.lost /\ longer.elapsed = m.elapsed
        /\ longer.primary = m.primary
        /\ longer.communicationLost = m.communicationLost
    BY <1>1, <2>1, <2>2 DEF Managers
  <2> QED BY <2>3 DEF links
<1>3. IsInjective(longer.links) /\ Listed(longer) = Listed(m) \cup {link}
  BY <1>1, <1>2, RangeOfAppend DEF Good, Ordered, Listed
<1>4. Ordered(longer)
  BY <1>2, <1>3 DEF Good, Ordered
<1>5. /\ Ordered(n) /\ Chosen(n)
      /\ n.links = longer.links
      /\ n.communicationLost = longer.communicationLost
      /\ LatencyRule(longer, n)
  BY <1>4, PrimaryIsChosen
<1>6. a = [n EXCEPT !.checking = @ \/ Len(longer.links) = 1]
  BY DEF AddLink
<1>7. /\ a \in Managers
      /\ a.links = n.links /\ a.lost = n.lost /\ a.elapsed = n.elapsed
      /\ a.primary = n.primary /\ a.transmission = n.transmission
      /\ a.communicationLost = n.communicationLost
  BY <1>5, <1>6 DEF Ordered, Managers
<1>8. Good(a) /\ Listed(a) = Listed(m) \cup {link}
  BY <1>3, <1>5, <1>7 DEF Good, Ordered, Chosen, Listed, Healthy
<1>9. LossRule(m, a) /\ LatencyRule(m, a)
  BY <1>2, <1>5, <1>7 DEF LossRule, LatencyRule, Listed, Healthy
<1> QED BY <1>8, <1>9

\* _removeLink.
LEMMA LinkIsRemoved ==
  ASSUME NEW m, Good(m), NEW link \in Listed(m)
  PROVE  /\ Ordered(RemoveLink(m, link))
         /\ Listed(RemoveLink(m, link)) = Listed(m) \ {link}
         /\ RemoveLink(m, link).communicationLost = m.communicationLost
         /\ RemoveLink(m, link).primary \in {m.primary, NoLink}
<1> DEFINE i == LinkIndex(m, link)
           rest == RemoveAt(m.links, i)
           n == RemoveLink(m, link)
<1>1. m \in Managers /\ m.links \in Seq(Links) /\ IsInjective(m.links)
  BY ListIsOfLinks DEF Good, Ordered
<1>2. i \in DOMAIN m.links /\ m.links[i] = link
  BY DEF LinkIndex, Listed, Range
<1>3. /\ rest \in Seq(Links)
      /\ Range(rest) = Listed(m) \ {link}
      /\ IsInjective(rest)
  BY <1>1, <1>2, RangeOfRemoveAt DEF Listed
<1>4. n = [m EXCEPT !.links = rest, !.lost = @ \ {link}, !.elapsed = @ \ {link},
                    !.primary = IF @ = link THEN NoLink ELSE @,
                    !.checking = @ /\ rest # <<>>]
  BY DEF RemoveLink
<1>5. /\ n \in Managers
      /\ n.links = rest
      /\ n.lost = m.lost \ {link} /\ n.elapsed = m.elapsed \ {link}
      /\ n.primary = IF m.primary = link THEN NoLink ELSE m.primary
      /\ n.communicationLost = m.communicationLost
  <2> HIDE DEF rest, n
  <2> QED BY <1>1, <1>3, <1>4 DEF Managers
<1> QED BY <1>3, <1>5 DEF Good, Ordered, Listed

\* closeVehicle.
LEMMA VehicleIsClosed ==
  ASSUME NEW m, m \in Managers
  PROVE  /\ Good(Closed(m)) /\ Listed(Closed(m)) = {}
         /\ LossRule(m, Closed(m)) /\ LatencyRule(m, Closed(m))
<1>1. /\ Closed(m) \in Managers
      /\ Closed(m).links = <<>> /\ Closed(m).lost = {}
      /\ Closed(m).elapsed = {} /\ Closed(m).primary = NoLink
      /\ Closed(m).communicationLost = m.communicationLost
  <2> DEFINE none == <<>>
  <2>1. none \in Seq(Links)
    OBVIOUS
  <2>2. Closed(m) = [m EXCEPT !.links = none, !.lost = {}, !.elapsed = {},
                              !.primary = NoLink, !.checking = FALSE,
                              !.signalledByClose = TRUE]
    BY DEF Closed
  <2> HIDE DEF none
  <2>3. /\ Closed(m) \in Managers
        /\ Closed(m).links = none /\ Closed(m).lost = {}
        /\ Closed(m).elapsed = {} /\ Closed(m).primary = NoLink
        /\ Closed(m).communicationLost = m.communicationLost
    BY <2>1, <2>2 DEF Managers
  <2> QED BY <2>3 DEF none
<1>2. Good(Closed(m)) /\ Listed(Closed(m)) = {}
  BY <1>1 DEF Good, Ordered, Chosen, Listed, Healthy, Range, IsInjective
<1>3. LossRule(m, Closed(m)) /\ LatencyRule(m, Closed(m))
  BY <1>1 DEF LossRule, LatencyRule, HighLatency
<1> QED BY <1>2, <1>3

\* mavlinkMessageReceived.
LEMMA LinkIsHeard ==
  ASSUME NEW m, Good(m), NEW link \in Links
  PROVE  /\ Good(Heard(m, link))
         /\ Listed(Heard(m, link)) = Listed(m) \cup {link}
         /\ LossRule(m, Heard(m, link)) /\ LatencyRule(m, Heard(m, link))
<1> DEFINE restarted == [m EXCEPT !.elapsed = @ \ {link}]
           back == [restarted EXCEPT !.lost = @ \ {link}]
           n == UpdatePrimaryLink(back)
           h == Heard(m, link)
<1>1. m \in Managers
  BY DEF Good, Ordered
<1>2. CASE link \notin Listed(m)
  BY <1>2, LinkIsAdded DEF Heard
<1>3. CASE link \in Listed(m) /\ link \notin m.lost
  <2>1. h = restarted
    BY <1>3 DEF Heard
  <2>2. /\ h \in Managers
        /\ h.links = m.links /\ h.lost = m.lost
        /\ h.elapsed = m.elapsed \ {link} /\ h.primary = m.primary
        /\ h.communicationLost = m.communicationLost
    BY <1>1, <2>1 DEF Managers
  <2>3. Good(h) /\ Listed(h) = Listed(m) \cup {link}
    BY <1>3, <2>2 DEF Good, Ordered, Chosen, Listed, Healthy
  <2> QED BY <2>2, <2>3 DEF LossRule, LatencyRule
<1>4. CASE link \in Listed(m) /\ link \in m.lost
  <2>1. /\ back \in Managers
        /\ back.links = m.links /\ back.lost = m.lost \ {link}
        /\ back.elapsed = m.elapsed \ {link} /\ back.primary = m.primary
        /\ back.communicationLost = m.communicationLost
    BY <1>1 DEF Managers
  <2>2. Ordered(back)
    BY <2>1 DEF Good, Ordered, Listed
  <2>3. /\ Ordered(n) /\ Chosen(n) /\ n.links = m.links
        /\ n.communicationLost = m.communicationLost
        /\ LatencyRule(back, n)
    BY <2>1, <2>2, PrimaryIsChosen
  <2>4. h = [n EXCEPT !.communicationLost = @ /\ n.lost # {}]
    BY <1>4 DEF Heard, CommRegainedOnLink
  <2>5. /\ h \in Managers
        /\ h.links = n.links /\ h.lost = n.lost /\ h.elapsed = n.elapsed
        /\ h.primary = n.primary /\ h.transmission = n.transmission
    BY <2>3, <2>4 DEF Ordered, Managers
  <2>6. Good(h) /\ Listed(h) = Listed(m) \cup {link}
    BY <1>4, <2>3, <2>5 DEF Good, Ordered, Chosen, Listed, Healthy
  <2>7. h.communicationLost <=> n.communicationLost /\ n.lost # {}
    BY <2>3, <2>4 DEF Ordered, Managers
  <2>8. LossRule(m, h)
    BY <2>3, <2>5, <2>7 DEF LossRule
  <2>9. LatencyRule(m, h)
    BY <2>1, <2>3, <2>5 DEF LatencyRule, Healthy, Listed
  <2> QED BY <2>6, <2>8, <2>9
<1> QED BY <1>2, <1>3, <1>4

\* The loop of _commLostCheck.
LEMMA LinksAreChecked ==
  ASSUME NEW m, Good(m)
  PROVE  /\ Good(LinksChecked(m)) /\ Listed(LinksChecked(m)) = Listed(m)
         /\ LinksChecked(m).communicationLost = m.communicationLost
         /\ LatencyRule(m, LinksChecked(m))
<1> DEFINE n == [m EXCEPT !.lost = @ \cup {link \in m.elapsed : ~HighLatency(link)}]
<1>1. /\ n \in Managers
      /\ n.links = m.links /\ n.elapsed = m.elapsed /\ n.primary = m.primary
      /\ n.lost = m.lost \cup {link \in m.elapsed : ~HighLatency(link)}
      /\ n.communicationLost = m.communicationLost
  BY DEF Good, Ordered, Managers
<1>2. Ordered(n)
  BY <1>1 DEF Good, Ordered, Listed
<1>3. LinksChecked(m) = UpdatePrimaryLink(n)
  BY DEF LinksChecked
<1> HIDE DEF n
<1> QED BY <1>1, <1>2, <1>3, PrimaryIsChosen DEF Good, Listed, LatencyRule

-----------------------------------------------------------------------------
(* The managers and the counts together.                                   *)

IInv ==
  /\ manager \in [Vehicles -> Managers]
  /\ \A v \in Vehicles : Good(manager[v]) /\ Listed(manager[v]) \subseteq open
  /\ open \subseteq Links
  /\ closing \subseteq open
  /\ references \in [Links -> Nat]
  /\ \A link \in Links : references[link] = Cardinality(On(link))
  /\ removed \subseteq Vehicles

\* The invariant says what Consistent says.
LEMMA InvariantIsConsistent == IInv => Consistent
<1> SUFFICES ASSUME IInv PROVE Consistent
  OBVIOUS
<1>1. TypeOK
  BY DEF IInv, TypeOK
<1>2. ReferencesAreListings
  BY DEF IInv, ReferencesAreListings, Good, Ordered, On
<1>3. PrimaryIsListed
  BY DEF IInv, PrimaryIsListed, Good, Ordered, Chosen
<1> QED BY <1>1, <1>2, <1>3 DEF Consistent

\* Vehicles can be counted.
LEMMA CountIsNatural ==
  ASSUME NEW S \in SUBSET Vehicles
  PROVE  IsFiniteSet(S) /\ Cardinality(S) \in Nat
BY LinkAssumption, FS_Subset, FS_CardinalityType

\* The vehicles on a link can be counted.
LEMMA OnIsCounted ==
  ASSUME NEW link
  PROVE  /\ On(link) \subseteq Vehicles /\ On(link)' \subseteq Vehicles
         /\ IsFiniteSet(On(link)) /\ Cardinality(On(link)) \in Nat
         /\ IsFiniteSet(On(link)') /\ Cardinality(On(link)') \in Nat
<1>1. On(link) \subseteq Vehicles /\ On(link)' \subseteq Vehicles
  BY DEF On
<1> QED BY <1>1, CountIsNatural

\* At the start no vehicle lists a link.
LEMMA Initially == Init => IInv
<1> SUFFICES ASSUME Init PROVE IInv
  OBVIOUS
<1>1. NewManager \in Managers
  <2> DEFINE none == <<>>
  <2>1. none \in Seq(Links)
    OBVIOUS
  <2> HIDE DEF none
  <2>2. [links |-> none, lost |-> {}, elapsed |-> {}, primary |-> NoLink,
         communicationLost |-> FALSE, communicationLostEnabled |-> TRUE,
         autoDisconnect |-> FALSE, signalledByClose |-> FALSE,
         checking |-> FALSE, transmission |-> "unset"] \in Managers
    BY <2>1 DEF Managers
  <2> QED BY <2>2 DEF NewManager, none
<1>2. /\ NewManager.links = <<>> /\ NewManager.lost = {}
      /\ NewManager.elapsed = {} /\ NewManager.primary = NoLink
  BY DEF NewManager
<1>3. Good(NewManager) /\ Listed(NewManager) = {}
  BY <1>1, <1>2 DEF Good, Ordered, Chosen, Listed, Healthy, Range, IsInjective
<1>4. \A v \in Vehicles : manager[v] = NewManager
  BY DEF Init
<1>5. \A link \in Links : On(link) = {}
  BY <1>3, <1>4 DEF On
<1>6. \A link \in Links : references[link] = Cardinality(On(link))
  BY <1>5, FS_EmptySet DEF Init
<1> QED BY <1>1, <1>3, <1>4, <1>6 DEF Init, IInv

\* A step that changes no vehicle's list of links, and no link.
LEMMA ListsUnchanged ==
  ASSUME IInv,
         manager' \in [Vehicles -> Managers],
         \A v \in Vehicles :
           Good(manager'[v]) /\ Listed(manager'[v]) = Listed(manager[v]),
         UNCHANGED <<open, closing, references>>,
         removed' = {}
  PROVE  IInv'
<1>1. \A link \in Links : On(link)' = On(link)
  BY DEF On
<1>2. \A link \in Links : references'[link] = Cardinality(On(link)')
  BY <1>1 DEF IInv
<1> QED BY <1>2 DEF IInv

\* A step of one vehicle that leaves its list of links alone.
LEMMA OneChanges ==
  ASSUME IInv, NEW v \in Vehicles, NEW n,
         Good(n), Listed(n) = Listed(manager[v]),
         manager' = [manager EXCEPT ![v] = n],
         UNCHANGED <<open, closing, references>>,
         removed' = {}
  PROVE  IInv'
<1>1. n \in Managers
  BY DEF Good, Ordered
<1>2. manager' \in [Vehicles -> Managers]
  BY <1>1 DEF IInv
<1>3. \A u \in Vehicles :
        Good(manager'[u]) /\ Listed(manager'[u]) = Listed(manager[u])
  BY DEF IInv
<1> QED BY <1>2, <1>3, ListsUnchanged

\* A message adds one vehicle to the link's count, if it was not on it.
LEMMA MessageKeeps ==
  ASSUME IInv, NEW v \in Vehicles, NEW link \in Links,
         MessageReceived({v}, link)
  PROVE  IInv'
<1> DEFINE new == {u \in {v} : link \notin Listed(manager[u])}
<1>1. /\ link \in open
      /\ \A u \in Vehicles :
           manager'[u] = IF u = v THEN Heard(manager[u], link) ELSE manager[u]
      /\ references' = [references EXCEPT ![link] = @ + Cardinality(new)]
      /\ removed' = {}
      /\ UNCHANGED <<open, closing>>
  BY DEF MessageReceived
<1>2. /\ Good(Heard(manager[v], link))
      /\ Listed(Heard(manager[v], link)) = Listed(manager[v]) \cup {link}
  BY LinkIsHeard DEF IInv
<1>3. \A u \in Vehicles :
        /\ Good(manager'[u])
        /\ Listed(manager'[u]) = IF u = v THEN Listed(manager[u]) \cup {link}
                                 ELSE Listed(manager[u])
  BY <1>1, <1>2 DEF IInv
<1>4. manager' \in [Vehicles -> Managers]
  <2>1. \A u \in Vehicles : manager'[u] \in Managers
    BY <1>3 DEF Good, Ordered
  <2> QED BY <2>1 DEF MessageReceived
<1>5. \A other \in Links : other # link => On(other)' = On(other)
  BY <1>3 DEF On
<1>6. On(link)' = On(link) \cup {v}
  BY <1>3 DEF On
<1>7. /\ IsFiniteSet(On(link)) /\ Cardinality(On(link)) \in Nat
      /\ On(link)' \subseteq Vehicles
      /\ Cardinality(On(link)') \in Nat
  <2>1. On(link) \subseteq Vehicles /\ On(link)' \subseteq Vehicles
    BY DEF On
  <2> QED BY <2>1, CountIsNatural
<1>8. Cardinality(On(link)') = Cardinality(On(link)) + Cardinality(new)
  <2>1. CASE v \in On(link)
    <3>1. new = {} /\ On(link)' = On(link)
      BY <1>6, <2>1 DEF On
    <3> QED BY <1>7, <3>1, FS_EmptySet
  <2>2. CASE v \notin On(link)
    <3>1. new = {v}
      BY <2>2 DEF On
    <3>2. Cardinality(new) = 1
      BY <3>1, FS_Singleton
    <3>3. Cardinality(On(link) \cup {v}) = Cardinality(On(link)) + 1
      BY <1>7, <2>2, FS_AddElement
    <3> QED BY <1>6, <3>2, <3>3
  <2> QED BY <2>1, <2>2
<1>9. references' \in [Links -> Nat]
      /\ \A other \in Links : references'[other] = Cardinality(On(other)')
  BY <1>1, <1>5, <1>7, <1>8 DEF IInv
<1> QED BY <1>1, <1>3, <1>4, <1>9 DEF IInv

\* What closing a vehicle does to the counts.
LEMMA CloseKeeps ==
  ASSUME IInv, NEW v \in Vehicles, NEW n, Good(n), Listed(n) = {},
         manager' = [manager EXCEPT ![v] = n],
         Close(v)
  PROVE  IInv'
<1> DEFINE links == Listed(manager[v])
<1>1. n \in Managers
  BY DEF Good, Ordered
<1>2. manager' \in [Vehicles -> Managers]
  BY <1>1 DEF IInv
<1>3. \A u \in Vehicles :
        /\ Good(manager'[u])
        /\ Listed(manager'[u]) = IF u = v THEN {} ELSE Listed(manager[u])
  BY DEF IInv
<1>4. /\ references' = [link \in Links |->
                          IF link \in links THEN references[link] - 1
                          ELSE references[link]]
      /\ closing' \subseteq open /\ open' = open
      /\ removed' = {v}
  BY DEF Close, IInv
<1>5. ASSUME NEW link \in Links
      PROVE  references'[link] = Cardinality(On(link)') /\ references'[link] \in Nat
  <2>1. On(link) \subseteq Vehicles /\ On(link)' \subseteq Vehicles
    BY DEF On
  <2>2. /\ IsFiniteSet(On(link)) /\ Cardinality(On(link)) \in Nat
        /\ Cardinality(On(link)') \in Nat
    BY <2>1, CountIsNatural
  <2>3. On(link)' = On(link) \ {v}
    BY <1>3 DEF On
  <2>4. link \in links <=> v \in On(link)
    BY DEF On
  <2>5. Cardinality(On(link)') = IF link \in links THEN Cardinality(On(link)) - 1
                                 ELSE Cardinality(On(link))
    BY <2>2, <2>3, <2>4, FS_RemoveElement
  <2>6. references[link] = Cardinality(On(link))
    BY DEF IInv
  <2> QED BY <1>4, <2>2, <2>5, <2>6
<1>6. references' \in [Links -> Nat]
  BY <1>4, <1>5
<1> QED BY <1>2, <1>3, <1>4, <1>5, <1>6 DEF IInv

-----------------------------------------------------------------------------
(* The other steps.                                                        *)

\* One lemma per remaining action of Next.
LEMMA ElapsedKeeps ==
  ASSUME IInv, NEW v \in Vehicles, NEW link \in Links,
         HeartbeatElapsed(v, link)
  PROVE  IInv'
<1> DEFINE m == manager[v]
           n == [m EXCEPT !.elapsed = @ \cup {link}]
<1>1. /\ link \in Listed(m)
      /\ manager' = [manager EXCEPT ![v] = n]
      /\ removed' = {}
      /\ UNCHANGED <<open, closing, references>>
  BY DEF HeartbeatElapsed
<1>2. Good(m) /\ m \in Managers
  BY DEF IInv
<1>3. /\ n \in Managers
      /\ n.links = m.links /\ n.lost = m.lost /\ n.primary = m.primary
      /\ n.elapsed = m.elapsed \cup {link}
  BY <1>2 DEF Managers
<1>4. Good(n) /\ Listed(n) = Listed(m)
  BY <1>1, <1>2, <1>3 DEF Good, Ordered, Chosen, Listed, Healthy
<1> HIDE DEF n
<1> QED BY <1>1, <1>4, OneChanges

LEMMA CheckKeeps ==
  ASSUME IInv, NEW v \in Vehicles, CommLostCheck(v, FALSE)
  PROVE  IInv'
<1> DEFINE m == LinksChecked(manager[v])
           total == ~m.communicationLost /\ Healthy(m) = {}
           n == [m EXCEPT !.communicationLost = TRUE]
<1>1. Good(m) /\ Listed(m) = Listed(manager[v]) /\ m \in Managers
  BY LinksAreChecked DEF IInv, Good, Ordered
<1>2. CASE /\ manager' = [manager EXCEPT ![v] = m]
           /\ removed' = {}
           /\ UNCHANGED <<open, closing, references>>
  <2> HIDE DEF m
  <2> QED BY <1>1, <1>2, OneChanges
<1>3. CASE /\ manager' = [manager EXCEPT ![v] = n]
           /\ removed' = {}
           /\ UNCHANGED <<open, closing, references>>
  <2> HIDE DEF m
  <2>1. /\ n \in Managers
        /\ n.links = m.links /\ n.lost = m.lost /\ n.elapsed = m.elapsed
        /\ n.primary = m.primary
    BY <1>1 DEF Managers
  <2>2. Good(n) /\ Listed(n) = Listed(manager[v])
    BY <1>1, <2>1 DEF Good, Ordered, Chosen, Listed, Healthy
  <2> HIDE DEF n
  <2> QED BY <1>3, <2>2, OneChanges
<1>4. CASE manager' = [manager EXCEPT ![v] = Closed(m)] /\ Close(v)
  <2> HIDE DEF m
  <2> QED BY <1>1, <1>4, VehicleIsClosed, CloseKeeps
<1> QED BY <1>2, <1>3, <1>4 DEF CommLostCheck

LEMMA CloseVehicleKeeps ==
  ASSUME IInv, NEW v \in Vehicles, CloseVehicle(v)
  PROVE  IInv'
<1>1. Good(Closed(manager[v])) /\ Listed(Closed(manager[v])) = {}
  BY VehicleIsClosed DEF IInv
<1> QED BY <1>1, CloseKeeps DEF CloseVehicle

LEMMA DisconnectedKeeps ==
  ASSUME IInv, NEW link \in Links, LinkDisconnected(link)
  PROVE  IInv'
<1> DEFINE on == On(link)
           left(v) == UpdatePrimaryLink(RemoveLink(manager[v], link))
<1>1. /\ open' = open \ {link}
      /\ closing' = closing \ {link}
      /\ manager' = [v \in Vehicles |-> IF v \in on THEN left(v) ELSE manager[v]]
      /\ references' = [references EXCEPT ![link] = @ - Cardinality(on)]
      /\ removed' \subseteq Vehicles
  BY DEF LinkDisconnected, On
<1>2. ASSUME NEW v \in Vehicles
      PROVE  /\ Good(manager'[v])
             /\ Listed(manager'[v]) = Listed(manager[v]) \ {link}
  <2>1. CASE v \in on
    <3>1. Good(manager[v]) /\ link \in Listed(manager[v])
      BY <2>1 DEF IInv, On
    <3>2. /\ Ordered(RemoveLink(manager[v], link))
          /\ Listed(RemoveLink(manager[v], link)) = Listed(manager[v]) \ {link}
      BY <3>1, LinkIsRemoved
    <3>3. Good(left(v)) /\ Listed(left(v)) = Listed(manager[v]) \ {link}
      BY <3>2, PrimaryIsChosen DEF Good, Listed
    <3> QED BY <1>1, <2>1, <3>3
  <2>2. CASE v \notin on
    <3>1. link \notin Listed(manager[v])
      BY <2>2 DEF On
    <3>2. manager'[v] = manager[v]
      BY <1>1, <2>2
    <3> QED BY <3>1, <3>2 DEF IInv
  <2> QED BY <2>1, <2>2
<1>3. manager' \in [Vehicles -> Managers]
  <2>1. \A v \in Vehicles : manager'[v] \in Managers
    BY <1>2 DEF Good, Ordered
  <2> QED BY <1>1, <2>1
<1>4. references[link] = Cardinality(on) /\ references[link] \in Nat
  BY DEF IInv
<1>5. On(link)' = {} /\ Cardinality(On(link)') = 0
  BY <1>2, FS_EmptySet DEF On
<1>6. \A other \in Links : other # link => On(other)' = On(other)
  BY <1>2 DEF On
<1>7. /\ references' \in [Links -> Nat]
      /\ \A other \in Links : references'[other] = Cardinality(On(other)')
  <2> DEFINE count == Cardinality(on)
  <2>1. references' = [references EXCEPT ![link] = @ - count]
    BY <1>1
  <2>2. references[link] = count /\ count \in Nat
    BY <1>4
  <2> HIDE DEF count
  <2>3. references' = [references EXCEPT ![link] = 0]
    BY <2>1, <2>2
  <2>4. references' \in [Links -> Nat] /\ references'[link] = 0
    BY <2>3 DEF IInv
  <2>5. \A other \in Links :
          other # link => references'[other] = Cardinality(On(other)')
    BY <1>6, <2>3 DEF IInv
  <2> QED BY <1>5, <2>4, <2>5
<1>8. \A v \in Vehicles : Listed(manager'[v]) \subseteq open'
  BY <1>1, <1>2 DEF IInv
<1>9. open' \subseteq Links /\ closing' \subseteq open'
  BY <1>1 DEF IInv
<1> QED BY <1>1, <1>2, <1>3, <1>7, <1>8, <1>9 DEF IInv

LEMMA CreatedKeeps ==
  ASSUME IInv, NEW link \in Links, CreateConnectedLink(link)
  PROVE  IInv'
<1>1. /\ link \notin open
      /\ open' = open \cup {link}
      /\ references' = [references EXCEPT ![link] = 0]
      /\ removed' = {}
      /\ UNCHANGED <<manager, closing>>
  BY DEF CreateConnectedLink
<1>2. \A other \in Links : On(other)' = On(other)
  BY <1>1 DEF On
<1>3. On(link) = {}
  BY <1>1 DEF IInv, On
<1>4. Cardinality(On(link)) = 0
  BY <1>3, FS_EmptySet
<1>5. /\ references' \in [Links -> Nat]
      /\ \A other \in Links : references'[other] = Cardinality(On(other)')
  BY <1>1, <1>2, <1>4 DEF IInv
<1> QED BY <1>1, <1>5 DEF IInv

LEMMA PrimaryNamedKeeps ==
  ASSUME IInv, NEW v \in Vehicles, NEW link \in Links,
         SetPrimaryLinkByName(v, link)
  PROVE  IInv'
<1> DEFINE m == manager[v]
           n == [m EXCEPT !.primary = link]
<1>1. /\ link \in Listed(m)
      /\ manager' = [manager EXCEPT ![v] = n]
      /\ removed' = {}
      /\ UNCHANGED <<open, closing, references>>
  BY DEF SetPrimaryLinkByName
<1>2. Good(m) /\ m \in Managers
  BY DEF IInv
<1>3. /\ n \in Managers
      /\ n.links = m.links /\ n.lost = m.lost /\ n.elapsed = m.elapsed
      /\ n.primary = link
  BY <1>2 DEF Managers
<1>4. Good(n) /\ Listed(n) = Listed(m)
  BY <1>1, <1>2, <1>3, LinkAssumption DEF Good, Ordered, Chosen, Listed, Healthy
<1> HIDE DEF n
<1> QED BY <1>1, <1>4, OneChanges

LEMMA EnabledKeeps ==
  ASSUME IInv, NEW v \in Vehicles, NEW b \in BOOLEAN,
         SetCommunicationLostEnabled(v, b)
  PROVE  IInv'
<1> DEFINE m == manager[v]
           n == [m EXCEPT !.communicationLostEnabled = b]
<1>1. /\ manager' = [manager EXCEPT ![v] = n]
      /\ removed' = {}
      /\ UNCHANGED <<open, closing, references>>
  BY DEF SetCommunicationLostEnabled
<1>2. Good(m) /\ m \in Managers
  BY DEF IInv
<1>3. /\ n \in Managers
      /\ n.links = m.links /\ n.lost = m.lost /\ n.elapsed = m.elapsed
      /\ n.primary = m.primary
  BY <1>2 DEF Managers
<1>4. Good(n) /\ Listed(n) = Listed(m)
  BY <1>2, <1>3 DEF Good, Ordered, Chosen, Listed, Healthy
<1> HIDE DEF n
<1> QED BY <1>1, <1>4, OneChanges

LEMMA AutoDisconnectKeeps ==
  ASSUME IInv, NEW v \in Vehicles, SetAutoDisconnect(v)
  PROVE  IInv'
<1> DEFINE m == manager[v]
           n == [m EXCEPT !.autoDisconnect = TRUE]
<1>1. /\ manager' = [manager EXCEPT ![v] = n]
      /\ removed' = {}
      /\ UNCHANGED <<open, closing, references>>
  BY DEF SetAutoDisconnect
<1>2. Good(m) /\ m \in Managers
  BY DEF IInv
<1>3. /\ n \in Managers
      /\ n.links = m.links /\ n.lost = m.lost /\ n.elapsed = m.elapsed
      /\ n.primary = m.primary
  BY <1>2 DEF Managers
<1>4. Good(n) /\ Listed(n) = Listed(m)
  BY <1>2, <1>3 DEF Good, Ordered, Chosen, Listed, Healthy
<1> HIDE DEF n
<1> QED BY <1>1, <1>4, OneChanges

\* Every step keeps the invariant.
LEMMA NextKeeps == IInv /\ [Next]_vars => IInv'
<1> SUFFICES ASSUME IInv, [Next]_vars PROVE IInv'
  OBVIOUS
<1>1. ASSUME NEW v \in Vehicles, NEW link \in Links,
             \/ MessageReceived({v}, link)
             \/ HeartbeatElapsed(v, link)
             \/ SetPrimaryLinkByName(v, link)
      PROVE  IInv'
  BY <1>1, MessageKeeps, ElapsedKeeps, PrimaryNamedKeeps
<1>2. ASSUME NEW v \in Vehicles,
             \/ CommLostCheck(v, FALSE)
             \/ CloseVehicle(v)
             \/ \E b \in BOOLEAN : SetCommunicationLostEnabled(v, b)
             \/ SetAutoDisconnect(v)
      PROVE  IInv'
  BY <1>2, CheckKeeps, CloseVehicleKeeps, EnabledKeeps, AutoDisconnectKeeps
<1>3. ASSUME NEW link \in Links,
             LinkDisconnected(link) \/ CreateConnectedLink(link)
      PROVE  IInv'
  BY <1>3, DisconnectedKeeps, CreatedKeeps
<1>4. CASE UNCHANGED vars
  BY <1>4 DEF vars, IInv, On
<1> QED BY <1>1, <1>2, <1>3, <1>4 DEF Next

-----------------------------------------------------------------------------
(* What a step does to the manager of one vehicle.                         *)

\* The user may name a high latency link as the primary one.
StepRules(v) ==
  /\ LossRule(manager[v], manager'[v])
  /\ \/ LatencyRule(manager[v], manager'[v])
     \/ SetPrimaryLinkByName(v, manager'[v].primary)

\* One lemma per action, or kind of action, that it follows the rules.
LEMMA MessageRules ==
  ASSUME IInv, NEW v \in Vehicles, NEW link \in Links, NEW u \in Vehicles,
         MessageReceived({v}, link)
  PROVE  StepRules(u)
<1>1. manager'[u] = IF u = v THEN Heard(manager[u], link) ELSE manager[u]
  BY DEF MessageReceived
<1>2. Good(manager[u])
  BY DEF IInv
<1>3. CASE u = v
  BY <1>1, <1>2, <1>3, LinkIsHeard DEF StepRules
<1>4. CASE u # v
  BY <1>1, <1>4 DEF StepRules, LossRule, LatencyRule
<1> QED BY <1>3, <1>4

LEMMA CheckRules ==
  ASSUME IInv, NEW v \in Vehicles, NEW u \in Vehicles, CommLostCheck(v, FALSE)
  PROVE  StepRules(u)
<1> DEFINE m == LinksChecked(manager[v])
           total == ~m.communicationLost /\ Healthy(m) = {}
           n == [m EXCEPT !.communicationLost = TRUE]
<1>1. /\ Good(m) /\ m \in Managers
      /\ m.communicationLost = manager[v].communicationLost
      /\ LatencyRule(manager[v], m)
  BY LinksAreChecked DEF IInv, Good, Ordered
<1>2. CASE manager' = [manager EXCEPT ![v] = m]
  <2> HIDE DEF m
  <2>1. LossRule(manager[v], m)
    BY <1>1 DEF LossRule
  <2>2. manager'[u] = IF u = v THEN m ELSE manager[u]
    BY <1>2 DEF IInv
  <2> QED BY <1>1, <2>1, <2>2 DEF StepRules, LossRule, LatencyRule
<1>3. CASE total /\ manager' = [manager EXCEPT ![v] = n]
  <2>1. manager'[u] = IF u = v THEN n ELSE manager[u]
    BY <1>3 DEF IInv
  <2> HIDE DEF m
  <2>2. /\ n.links = m.links /\ n.lost = m.lost /\ n.primary = m.primary
        /\ n.transmission = m.transmission /\ n.communicationLost
    BY <1>1 DEF Managers
  <2> HIDE DEF n
  <2>3. Healthy(n) = {}
    BY <1>3, <2>2 DEF Healthy, Listed
  <2>4. LossRule(manager[v], n)
    BY <2>2, <2>3 DEF LossRule
  <2>5. LatencyRule(manager[v], n)
    BY <1>1, <2>2, <2>3 DEF LatencyRule
  <2> QED BY <2>1, <2>4, <2>5 DEF StepRules, LossRule, LatencyRule
<1>4. CASE manager' = [manager EXCEPT ![v] = Closed(m)]
  <2>1. manager'[u] = IF u = v THEN Closed(m) ELSE manager[u]
    BY <1>4 DEF IInv
  <2> HIDE DEF m
  <2>2. /\ Closed(m).lost = {} /\ Closed(m).primary = NoLink
        /\ Closed(m).communicationLost = m.communicationLost
    BY <1>1 DEF Closed, Managers
  <2>3. LossRule(manager[v], Closed(m)) /\ LatencyRule(manager[v], Closed(m))
    BY <1>1, <2>2 DEF LossRule, LatencyRule, HighLatency
  <2> QED BY <2>1, <2>3 DEF StepRules, LossRule, LatencyRule
<1> QED BY <1>2, <1>3, <1>4 DEF CommLostCheck

LEMMA CloseRules ==
  ASSUME IInv, NEW v \in Vehicles, NEW u \in Vehicles, CloseVehicle(v)
  PROVE  StepRules(u)
<1>1. manager'[u] = IF u = v THEN Closed(manager[u]) ELSE manager[u]
  BY DEF CloseVehicle, IInv
<1>2. LossRule(manager[u], Closed(manager[u])) /\ LatencyRule(manager[u], Closed(manager[u]))
  BY VehicleIsClosed DEF IInv
<1> QED BY <1>1, <1>2 DEF StepRules, LossRule, LatencyRule

LEMMA DisconnectedRules ==
  ASSUME IInv, NEW link \in Links, NEW u \in Vehicles, LinkDisconnected(link)
  PROVE  StepRules(u)
<1> DEFINE m == manager[u]
           less == RemoveLink(m, link)
           n == UpdatePrimaryLink(less)
<1>1. manager'[u] = IF link \in Listed(m) THEN n ELSE m
  BY DEF LinkDisconnected, On
<1>2. CASE link \in Listed(m)
  <2>1. /\ Ordered(less)
        /\ less.communicationLost = m.communicationLost
        /\ less.primary \in {m.primary, NoLink}
    BY <1>2, LinkIsRemoved DEF IInv
  <2>2. /\ n.communicationLost = less.communicationLost
        /\ LatencyRule(less, n)
    BY <2>1, PrimaryIsChosen
  <2> HIDE DEF less, n
  <2>3. LossRule(m, n)
    BY <2>1, <2>2 DEF LossRule
  <2>4. LatencyRule(m, n)
    BY <2>1, <2>2 DEF LatencyRule, HighLatency
  <2> QED BY <1>1, <1>2, <2>3, <2>4 DEF StepRules
<1>3. CASE link \notin Listed(m)
  BY <1>1, <1>3 DEF StepRules, LossRule, LatencyRule
<1> QED BY <1>2, <1>3

\* The steps that set a single field that neither rule reads, or the primary
\* link at the user's word.
LEMMA SettingRules ==
  ASSUME IInv, NEW v \in Vehicles, NEW u \in Vehicles,
         \/ \E link \in Links : HeartbeatElapsed(v, link)
         \/ \E link \in Links : SetPrimaryLinkByName(v, link)
         \/ \E b \in BOOLEAN : SetCommunicationLostEnabled(v, b)
         \/ SetAutoDisconnect(v)
  PROVE  StepRules(u)
<1>1. manager[v] \in Managers /\ manager[u] \in Managers
  BY DEF IInv
<1>2. CASE u # v
  <2>1. manager'[u] = manager[u]
    BY <1>2 DEF IInv, HeartbeatElapsed, SetPrimaryLinkByName,
                SetCommunicationLostEnabled, SetAutoDisconnect
  <2> QED BY <2>1 DEF StepRules, LossRule, LatencyRule
<1>3. ASSUME u = v, NEW link \in Links, HeartbeatElapsed(v, link)
      PROVE  StepRules(u)
  <2>1. manager'[u] = [manager[u] EXCEPT !.elapsed = @ \cup {link}]
    BY <1>3 DEF HeartbeatElapsed, IInv
  <2>2. /\ manager'[u].communicationLost = manager[u].communicationLost
        /\ manager'[u].primary = manager[u].primary
    BY <1>1, <2>1 DEF Managers
  <2> QED BY <2>2 DEF StepRules, LossRule, LatencyRule
<1>4. ASSUME u = v, NEW link \in Links, SetPrimaryLinkByName(v, link)
      PROVE  StepRules(u)
  <2>1. manager'[u] = [manager[u] EXCEPT !.primary = link]
    BY <1>4 DEF SetPrimaryLinkByName, IInv
  <2>2. /\ manager'[u].communicationLost = manager[u].communicationLost
        /\ manager'[u].primary = link
    BY <1>1, <2>1 DEF Managers
  <2> QED BY <1>4, <2>2 DEF StepRules, LossRule
<1>5. ASSUME u = v, NEW b \in BOOLEAN, SetCommunicationLostEnabled(v, b)
      PROVE  StepRules(u)
  <2>1. manager'[u] = [manager[u] EXCEPT !.communicationLostEnabled = b]
    BY <1>5 DEF SetCommunicationLostEnabled, IInv
  <2>2. /\ manager'[u].communicationLost = manager[u].communicationLost
        /\ manager'[u].primary = manager[u].primary
    BY <1>1, <2>1 DEF Managers
  <2> QED BY <2>2 DEF StepRules, LossRule, LatencyRule
<1>6. CASE u = v /\ SetAutoDisconnect(v)
  <2>1. manager'[u] = [manager[u] EXCEPT !.autoDisconnect = TRUE]
    BY <1>6 DEF SetAutoDisconnect, IInv
  <2>2. /\ manager'[u].communicationLost = manager[u].communicationLost
        /\ manager'[u].primary = manager[u].primary
    BY <1>1, <2>1 DEF Managers
  <2> QED BY <2>2 DEF StepRules, LossRule, LatencyRule
<1> QED BY <1>2, <1>3, <1>4, <1>5, <1>6

\* Every step follows the rules for every vehicle.
LEMMA NextRules ==
  ASSUME IInv, [Next]_vars, NEW u \in Vehicles
  PROVE  StepRules(u)
<1>1. ASSUME NEW v \in Vehicles, NEW link \in Links,
             MessageReceived({v}, link)
      PROVE  StepRules(u)
  BY <1>1, MessageRules
<1>2. ASSUME NEW v \in Vehicles, CommLostCheck(v, FALSE) \/ CloseVehicle(v)
      PROVE  StepRules(u)
  BY <1>2, CheckRules, CloseRules
<1>3. ASSUME NEW v \in Vehicles,
             \/ \E link \in Links : HeartbeatElapsed(v, link)
             \/ \E link \in Links : SetPrimaryLinkByName(v, link)
             \/ \E b \in BOOLEAN : SetCommunicationLostEnabled(v, b)
             \/ SetAutoDisconnect(v)
      PROVE  StepRules(u)
  BY <1>3, SettingRules
<1>4. ASSUME NEW link \in Links, LinkDisconnected(link)
      PROVE  StepRules(u)
  BY <1>4, DisconnectedRules
<1>5. ASSUME NEW link \in Links, CreateConnectedLink(link)
      PROVE  StepRules(u)
  BY <1>5 DEF CreateConnectedLink, StepRules, LossRule, LatencyRule
<1>6. CASE UNCHANGED vars
  BY <1>6 DEF vars, StepRules, LossRule, LatencyRule
<1> QED BY <1>1, <1>2, <1>3, <1>4, <1>5, <1>6 DEF Next

-----------------------------------------------------------------------------
(* What a step does to the references and the links that are closing.      *)

CountRule ==
  \A link \in open \cap open' :
    /\ references[link] > 0 /\ references'[link] = 0 => link \in closing'
    /\ link \in closing' \ closing => references'[link] = 0

\* Closing a vehicle disconnects the links it was the last one on.
LEMMA CloseCounts ==
  ASSUME references \in [Links -> Nat], open \subseteq Links,
         NEW v \in Vehicles, Close(v)
  PROVE  CountRule
<1> DEFINE links == Listed(manager[v])
<1>1. /\ references' = [link \in Links |->
                          IF link \in links THEN references[link] - 1
                          ELSE references[link]]
      /\ closing' = closing \cup
           ({link \in links : references[link] = 1} \cap open)
  BY DEF Close, Unreferenced
<1>2. ASSUME NEW link \in open
      PROVE  /\ references[link] > 0 /\ references'[link] = 0 => link \in closing'
             /\ link \in closing' \ closing => references'[link] = 0
  <2> HIDE DEF links
  <2> QED BY <1>1
<1> QED BY <1>2 DEF CountRule

\* A message adds to a count.
LEMMA MessageCounts ==
  ASSUME references \in [Links -> Nat], open \subseteq Links,
         NEW hearers \in SUBSET Vehicles, NEW link \in Links,
         MessageReceived(hearers, link)
  PROVE  CountRule
<1> DEFINE n == Cardinality({u \in hearers : link \notin Listed(manager[u])})
<1>1. n \in Nat
  <2>1. {u \in hearers : link \notin Listed(manager[u])} \subseteq Vehicles
    OBVIOUS
  <2> QED BY <2>1, CountIsNatural
<1>2. references' = [references EXCEPT ![link] = @ + n] /\ closing' = closing
  BY DEF MessageReceived
<1> HIDE DEF n
<1> QED BY <1>1, <1>2 DEF CountRule

\* A link whose count reaches 0 without being taken off the list of open links
\* is disconnected, whatever the step.
LEMMA NextCounts ==
  ASSUME IInv, [Next]_vars
  PROVE  CountRule
<1>1. ASSUME NEW v \in Vehicles, NEW link \in Links, MessageReceived({v}, link)
      PROVE  CountRule
  BY <1>1, MessageCounts DEF IInv
<1>2. ASSUME NEW v \in Vehicles, Close(v)
      PROVE  CountRule
  BY <1>2, CloseCounts DEF IInv
<1>3. CASE UNCHANGED <<closing, references>>
  BY <1>3 DEF CountRule
<1>4. ASSUME NEW link \in Links, LinkDisconnected(link)
      PROVE  CountRule
  <2>1. /\ open' = open \ {link} /\ closing' \subseteq closing
        /\ \A other \in Links : other # link => references'[other] = references[other]
    BY <1>4 DEF LinkDisconnected, IInv
  <2> QED BY <2>1 DEF CountRule, IInv
<1>5. ASSUME NEW link \in Links, CreateConnectedLink(link)
      PROVE  CountRule
  <2>1. /\ link \notin open /\ closing' = closing
        /\ \A other \in Links : other # link => references'[other] = references[other]
    BY <1>5 DEF CreateConnectedLink, IInv
  <2> QED BY <2>1 DEF CountRule, IInv
<1>6. ASSUME NEW v \in Vehicles,
             \/ CommLostCheck(v, FALSE)
             \/ CloseVehicle(v)
             \/ SetAutoDisconnect(v)
             \/ \E b \in BOOLEAN : SetCommunicationLostEnabled(v, b)
             \/ \E link \in Links : HeartbeatElapsed(v, link)
             \/ \E link \in Links : SetPrimaryLinkByName(v, link)
      PROVE  Close(v) \/ UNCHANGED <<closing, references>>
  BY <1>6 DEF CommLostCheck, CloseVehicle, SetAutoDisconnect,
       SetCommunicationLostEnabled, HeartbeatElapsed, SetPrimaryLinkByName
<1>7. CASE UNCHANGED vars
  BY <1>3, <1>7 DEF vars
<1> QED BY <1>1, <1>2, <1>3, <1>4, <1>5, <1>6, <1>7 DEF Next

-----------------------------------------------------------------------------
(* Theorems.                                                               *)

\* The invariant the others follow from.
THEOREM Invariance == Spec => []IInv
BY Initially, NextKeeps, PTL DEF Spec

\* The state has its type, a vehicle's links are open and counted as
\* references, and the primary link is one of them, for any number of
\* vehicles and links of any kind (VehicleLinkManager, LinkInterface).
THEOREM ConsistentHolds == Spec => []Consistent
BY Invariance, InvariantIsConsistent, PTL

\* A total loss is announced only when no link is healthy, and withdrawn only
\* when none is lost (_commLostCheck, _commRegainedOnLink).
THEOREM TotalLossIsTotalHolds == Spec => TotalLossIsTotal
<1>1. IInv /\ [Next]_vars =>
        [\A v \in Vehicles :
           /\ ~manager[v].communicationLost /\ manager'[v].communicationLost =>
                Healthy(manager'[v]) = {}
           /\ manager[v].communicationLost /\ ~manager'[v].communicationLost =>
                manager'[v].lost = {}]_vars
  BY NextRules DEF StepRules, LossRule
<1> QED BY <1>1, Invariance, PTL DEF Spec, TotalLossIsTotal

\* No step but the user's word makes a high latency link primary while a
\* normal one is healthy, and none counts as lost (_bestActivePrimaryLink).
THEOREM HighLatencyIsLastResortHolds == Spec => HighLatencyIsLastResort
<1>1. IInv /\ IInv' /\ [Next]_vars =>
        [\A v \in Vehicles :
           LET m == manager'[v]
           IN  /\ \A link \in m.lost : ~HighLatency(link)
               /\ m.primary # manager[v].primary /\ HighLatency(m.primary) =>
                    \/ /\ \A link \in Healthy(m) : HighLatency(link)
                       /\ m.transmission = "started"
                    \/ SetPrimaryLinkByName(v, m.primary)]_vars
  <2> SUFFICES ASSUME IInv, IInv', [Next]_vars, NEW v \in Vehicles
               PROVE  LET m == manager'[v]
                      IN  /\ \A link \in m.lost : ~HighLatency(link)
                          /\ m.primary # manager[v].primary /\ HighLatency(m.primary) =>
                               \/ /\ \A link \in Healthy(m) : HighLatency(link)
                                  /\ m.transmission = "started"
                               \/ SetPrimaryLinkByName(v, m.primary)
    OBVIOUS
  <2>1. \A link \in manager'[v].lost : ~HighLatency(link)
    BY DEF IInv, Good, Ordered
  <2> QED BY <2>1, NextRules DEF StepRules, LatencyRule
<1> QED BY <1>1, Invariance, PTL DEF Spec, HighLatencyIsLastResort

\* A link is disconnected with the last vehicle that leaves it, and not while
\* another is on it (LinkInterface::removeVehicleReference).
THEOREM DisconnectedWithLastVehicleHolds == Spec => DisconnectedWithLastVehicle
<1>1. IInv /\ IInv' /\ [Next]_vars =>
        [\A link \in open \cap open' :
           /\ On(link) # {} /\ On(link)' = {} => link \in closing'
           /\ link \in closing' \ closing => On(link)' = {}]_vars
  <2> SUFFICES ASSUME IInv, IInv', [Next]_vars, NEW link \in open \cap open'
               PROVE  /\ On(link) # {} /\ On(link)' = {} => link \in closing'
                      /\ link \in closing' \ closing => On(link)' = {}
    OBVIOUS
  <2>1. /\ references[link] = Cardinality(On(link))
        /\ references'[link] = Cardinality(On(link)')
        /\ references[link] \in Nat
    BY DEF IInv
  <2>2. /\ references[link] = 0 <=> On(link) = {}
        /\ references'[link] = 0 <=> On(link)' = {}
    BY <2>1, OnIsCounted, FS_EmptySet
  <2> QED BY <2>1, <2>2, NextCounts DEF CountRule
<1> QED BY <1>1, Invariance, PTL DEF Spec, DisconnectedWithLastVehicle
-----------------------------------------------------------------------------
(***************************************************************************)
(* The vehicles' life.                                                     *)
(*                                                                         *)
(* Its first three theorems are about the second phases that are due.      *)
(* Behind a vehicle's deletion none of them names it, because what starts  *)
(* one names a listed vehicle, so no vehicle has two deletions due; a      *)
(* removed one has one, because removal starts it and only running it      *)
(* makes the vehicle another's than a removed one; and while another       *)
(* vehicle than the selected one is active, an activation of the selected  *)
(* one is due.                                                             *)
(*                                                                         *)
(* The link managers' own invariant does not hold here: a vehicle that     *)
(* hears a message after its removal lists the link again and is destroyed *)
(* without giving its reference back.  What remains of it is that a link   *)
(* counts at least the vehicles that list it, and exactly these while no   *)
(* object that listed it has been destroyed.                               *)
(***************************************************************************)

MaybeVehicle == Vehicles \cup {NoVehicle}
Timers       == [phase2 : {"activate", "delete"}, vehicle : MaybeVehicle]
Actives      == [active : MaybeVehicle, available : BOOLEAN, ready : BOOLEAN,
                 timers : Seq(Timers)]

Alive(ph, v) == v # NoVehicle => ph[v] \in {"listed", "removed"}

\* The part that the list and the fly view have in it.
ListOK ==
  /\ phase \in [Vehicles -> Phases]
  /\ vehicles \in Seq(Vehicles)
  /\ \A v \in Range(vehicles) : phase[v] = "listed"
  /\ selection \in MaybeVehicle
  /\ selection # NoVehicle => phase[selection] = "listed"

\* Second phases name vehicles that exist, and a deletion is the last of them
\* to name its vehicle.
TimersOK(ph, due) ==
  /\ \A i \in DOMAIN due :
       /\ Alive(ph, due[i].vehicle)
       /\ due[i].phase2 = "delete" =>
            due[i].vehicle \in Vehicles /\ ph[due[i].vehicle] = "removed"
  /\ \A i, j \in DOMAIN due :
       i < j /\ due[i].phase2 = "delete" => due[j].vehicle # due[i].vehicle

\* What is due brings the selection back.
Settles(selected, s) ==
  /\ s.active # selected =>
       \E i \in DOMAIN s.timers : s.timers[i] = Activation(selected)
  /\ s.timers = <<>> /\ s.active # NoVehicle => s.available

ActiveOK(ph, s) ==
  /\ s \in Actives
  /\ Alive(ph, s.active)
  /\ TimersOK(ph, s.timers)

LifeIInv == ListOK /\ ActiveOK(phase, Current) /\ Settles(selection, Current)

-----------------------------------------------------------------------------
(* Sequences.                                                              *)

\* What appending a second phase does to those that are due.
LEMMA Appended ==
  ASSUME NEW due \in Seq(Timers), NEW t \in Timers
  PROVE  /\ Append(due, t) \in Seq(Timers)
         /\ Append(due, t) # <<>>
         /\ DOMAIN Append(due, t) = DOMAIN due \cup {Len(due) + 1}
         /\ DOMAIN due = 1..Len(due) /\ Len(due) \in Nat
         /\ \A i \in DOMAIN due : Append(due, t)[i] = due[i]
         /\ Append(due, t)[Len(due) + 1] = t
OBVIOUS

\* The activation of a vehicle that is not to be deleted may become due.
LEMMA ActivationStarts ==
  ASSUME NEW ph, NEW due \in Seq(Timers), TimersOK(ph, due), NEW v \in MaybeVehicle,
         v # NoVehicle => ph[v] = "listed"
  PROVE  TimersOK(ph, Append(due, Activation(v)))
<1> DEFINE t == Activation(v)
           longer == Append(due, t)
<1>1. t \in Timers /\ t.phase2 = "activate" /\ t.vehicle = v
  BY DEF Timers, Activation
<1>2. /\ DOMAIN longer = DOMAIN due \cup {Len(due) + 1}
      /\ DOMAIN due = 1..Len(due) /\ Len(due) \in Nat
      /\ \A i \in DOMAIN due : longer[i] = due[i]
      /\ longer[Len(due) + 1] = t
  BY <1>1, Appended
<1> HIDE DEF longer, t
<1>3. \A i \in DOMAIN due :
        due[i].phase2 = "delete" => due[i].vehicle # v
  BY VehicleAssumption DEF TimersOK
<1>4. \A i \in DOMAIN longer :
        /\ Alive(ph, longer[i].vehicle)
        /\ longer[i].phase2 = "delete" =>
             longer[i].vehicle \in Vehicles /\ ph[longer[i].vehicle] = "removed"
  BY <1>1, <1>2 DEF TimersOK, Alive
<1>5. \A i, j \in DOMAIN longer :
        i < j /\ longer[i].phase2 = "delete" => longer[j].vehicle # longer[i].vehicle
  BY <1>1, <1>2, <1>3 DEF TimersOK
<1> QED BY <1>4, <1>5 DEF TimersOK, longer, t

-----------------------------------------------------------------------------
(* Activation.                                                             *)

\* setActiveVehicle of a vehicle that is listed, or of none.
LEMMA SetActiveVehicleKeeps ==
  ASSUME NEW ph, NEW s, ActiveOK(ph, s), NEW v \in MaybeVehicle,
         v # NoVehicle => ph[v] = "listed"
  PROVE  LET t == SetActiveVehicle(s, v)
         IN  /\ ActiveOK(ph, t)
             /\ t.active = s.active
             /\ IF v = s.active THEN t = s
                ELSE t.timers = Append(s.timers, Activation(v))
<1> DEFINE t == SetActiveVehicle(s, v)
           longer == Append(s.timers, Activation(v))
<1>1. CASE v = s.active
  BY <1>1 DEF SetActiveVehicle
<1>2. CASE v # s.active
  <2>1. longer \in Seq(Timers) /\ TimersOK(ph, longer)
    <3>1. Activation(v) \in Timers
      BY DEF Activation, Timers
    <3>2. s.timers \in Seq(Timers)
      BY DEF ActiveOK, Actives
    <3> QED BY <3>1, <3>2, Appended, ActivationStarts DEF ActiveOK
  <2>2. t = [s EXCEPT !.available = @ /\ s.active = NoVehicle,
                      !.ready = @ /\ s.active = NoVehicle,
                      !.timers = longer]
    BY <1>2 DEF SetActiveVehicle
  <2> HIDE DEF longer, t
  <2>3. /\ t \in Actives /\ t.active = s.active /\ t.timers = longer
    BY <2>1, <2>2 DEF ActiveOK, Actives
  <2> QED BY <1>2, <2>1, <2>3 DEF ActiveOK, t, longer
<1> QED BY <1>1, <1>2

\* The end of a second phase: another vehicle is active, or none, and it is
\* available; the selection is due if it is not the one.
LEMMA SecondPhaseEnds ==
  ASSUME NEW ph, NEW s, ActiveOK(ph, s), NEW v \in MaybeVehicle, Alive(ph, v),
         selection \in MaybeVehicle,
         selection # NoVehicle => ph[selection] = "listed",
         s.active # selection /\ s.active = v =>
           \E i \in DOMAIN s.timers : s.timers[i] = Activation(selection)
  PROVE  LET t == MakeAvailable(ChangeActive(s, v))
         IN  /\ ActiveOK(ph, t) /\ Settles(selection, t)
             /\ t.active = v
             /\ t.timers \in {s.timers, Append(s.timers, Activation(selection))}
<1> DEFINE changed == [s EXCEPT !.active = v]
           c == ChangeActive(s, v)
           t == MakeAvailable(c)
<1>1. /\ ActiveOK(ph, c)
      /\ c.active = v
      /\ c.timers \in {s.timers, Append(s.timers, Activation(selection))}
      /\ v # selection =>
           \E i \in DOMAIN c.timers : c.timers[i] = Activation(selection)
  <2>1. CASE v = s.active
    BY <2>1 DEF ChangeActive
  <2>2. CASE v # s.active
    <3>1. ActiveOK(ph, changed) /\ changed.active = v /\ changed.timers = s.timers
      BY DEF ActiveOK, Actives
    <3>2. c = SetActiveVehicle(changed, selection)
      BY <2>2 DEF ChangeActive
    <3> HIDE DEF changed
    <3>3. /\ ActiveOK(ph, c) /\ c.active = v
          /\ IF selection = v THEN c = changed
             ELSE c.timers = Append(s.timers, Activation(selection))
      BY <3>1, <3>2, SetActiveVehicleKeeps
    <3>4. CASE selection = v
      BY <3>1, <3>3, <3>4
    <3>5. CASE selection # v
      <4>1. s.timers \in Seq(Timers) /\ Activation(selection) \in Timers
        BY DEF ActiveOK, Actives, Activation, Timers
      <4>2. \E i \in DOMAIN c.timers : c.timers[i] = Activation(selection)
        BY <3>3, <3>5, <4>1, Appended
      <4> QED BY <3>3, <3>5, <4>2
    <3> QED BY <3>4, <3>5
  <2> QED BY <2>1, <2>2
<1>2. /\ t \in Actives /\ t.active = c.active /\ t.timers = c.timers
      /\ t.active # NoVehicle => t.available
  <2> HIDE DEF c
  <2>1. CASE c.active = NoVehicle
    BY <1>1, <2>1 DEF MakeAvailable, ActiveOK
  <2>2. CASE c.active # NoVehicle
    BY <1>1, <2>2 DEF MakeAvailable, ActiveOK, Actives
  <2> QED BY <2>1, <2>2
<1> HIDE DEF t, c
<1> QED BY <1>1, <1>2 DEF ActiveOK, Settles, t, c

\* Calls of setActiveVehicle leave the selection due.
LEMMA SetActiveVehicleSettles ==
  ASSUME NEW ph, NEW s, ActiveOK(ph, s), NEW v \in MaybeVehicle,
         NEW old, Settles(old, s), NEW selected \in {old, v}
  PROVE  Settles(selected, SetActiveVehicle(s, v))
<1> DEFINE t == SetActiveVehicle(s, v)
           longer == Append(s.timers, Activation(v))
<1>1. CASE v = s.active
  BY <1>1 DEF SetActiveVehicle, Settles
<1>2. CASE v # s.active
  <2>1. s.timers \in Seq(Timers) /\ Activation(v) \in Timers
    BY DEF ActiveOK, Actives, Activation, Timers
  <2>2. /\ longer # <<>>
        /\ DOMAIN longer = DOMAIN s.timers \cup {Len(s.timers) + 1}
        /\ \A i \in DOMAIN s.timers : longer[i] = s.timers[i]
        /\ longer[Len(s.timers) + 1] = Activation(v)
    BY <2>1, Appended
  <2>3. t = [s EXCEPT !.available = @ /\ s.active = NoVehicle,
                      !.ready = @ /\ s.active = NoVehicle,
                      !.timers = longer]
    BY <1>2 DEF SetActiveVehicle
  <2> HIDE DEF longer, t
  <2>4. t.active = s.active /\ t.timers = longer
    BY <2>3 DEF ActiveOK, Actives
  <2>5. \E i \in DOMAIN longer : longer[i] = Activation(v)
    BY <2>2
  <2>6. s.active # old => \E i \in DOMAIN longer : longer[i] = Activation(old)
    BY <2>2 DEF Settles
  <2>7. Settles(selected, t)
    BY <2>2, <2>4, <2>5, <2>6 DEF Settles
  <2> QED BY <2>7 DEF t
<1> QED BY <1>1, <1>2

\* Vehicles that nothing due names may change their phase, and listed ones may
\* be removed.
LEMMA PhasesChange ==
  ASSUME NEW ph, NEW next, NEW s, ActiveOK(ph, s),
         \A v \in Vehicles :
           \/ next[v] = ph[v]
           \/ ph[v] = "listed" /\ next[v] = "removed"
           \/ v # s.active /\ \A i \in DOMAIN s.timers : s.timers[i].vehicle # v
  PROVE  ActiveOK(next, s)
<1>1. s \in Actives /\ s.active \in MaybeVehicle /\ s.timers \in Seq(Timers)
  BY DEF ActiveOK, Actives
<1>2. \A i \in DOMAIN s.timers : s.timers[i].vehicle \in MaybeVehicle
  <2>1. \A i \in DOMAIN s.timers : s.timers[i] \in Timers
    BY <1>1
  <2> QED BY <2>1 DEF Timers
<1>3. Alive(next, s.active)
  <2> DEFINE a == s.active
  <2>1. Alive(ph, a) /\ a \in MaybeVehicle
    BY <1>1 DEF ActiveOK
  <2>2. a \in Vehicles =>
          next[a] = ph[a] \/ (ph[a] = "listed" /\ next[a] = "removed")
    OBVIOUS
  <2> HIDE DEF a
  <2>3. Alive(next, a)
    BY <2>1, <2>2 DEF Alive, MaybeVehicle
  <2> QED BY <2>3 DEF a
<1>4. ASSUME NEW i \in DOMAIN s.timers
      PROVE  /\ Alive(next, s.timers[i].vehicle)
             /\ s.timers[i].phase2 = "delete" =>
                  /\ s.timers[i].vehicle \in Vehicles
                  /\ next[s.timers[i].vehicle] = "removed"
  BY <1>2 DEF ActiveOK, TimersOK, Alive, MaybeVehicle
<1> QED BY <1>1, <1>3, <1>4 DEF ActiveOK, TimersOK

-----------------------------------------------------------------------------
(* The steps.                                                              *)

\* The record is the state.
LEMMA RecordIsState ==
  ASSUME NEW s \in Actives, Becomes(s)
  PROVE  Current' = s
<1>1. s = [active |-> s.active, available |-> s.available, ready |-> s.ready,
           timers |-> s.timers]
  BY DEF Actives
<1> QED BY <1>1 DEF Becomes, Current

\* No vehicle, and nothing due.
LEMMA LifeInitially == LifeInit => LifeIInv
<1> SUFFICES ASSUME LifeInit PROVE LifeIInv
  OBVIOUS
<1> DEFINE none == <<>>
<1>1. none \in Seq(Timers) /\ none \in Seq(Vehicles) /\ DOMAIN none = {}
      /\ Range(none) = {}
  BY DEF Range
<1>2. timers = none /\ vehicles = none
  BY DEF LifeInit
<1> HIDE DEF none
<1>3. ListOK
  BY <1>1, <1>2 DEF LifeInit, ListOK, Phases, MaybeVehicle
<1>4. Current = [active |-> NoVehicle, available |-> FALSE, ready |-> FALSE,
                 timers |-> none]
  BY <1>2 DEF LifeInit, Current
<1>5. ActiveOK(phase, Current)
  BY <1>1, <1>4 DEF ActiveOK, Actives, MaybeVehicle, Alive, TimersOK
<1>6. Settles(selection, Current)
  BY <1>4 DEF Settles, LifeInit
<1> QED BY <1>3, <1>5, <1>6 DEF LifeIInv

\* The user chooses a vehicle, here or in the fly view.
LEMMA UserKeeps ==
  ASSUME LifeIInv, NEW v \in MaybeVehicle, ChooseActive(v) \/ SelectInFlyView(v)
  PROVE  LifeIInv'
<1> DEFINE t == SetActiveVehicle(Current, v)
<1>1. /\ v # NoVehicle => v \in Range(vehicles)
      /\ selection' \in {selection, v}
      /\ Becomes(t)
      /\ UNCHANGED <<phase, vehicles>>
  BY DEF ChooseActive, SelectInFlyView, listVars
<1>2. v # NoVehicle => phase[v] = "listed"
  BY <1>1 DEF LifeIInv, ListOK
<1>3. ActiveOK(phase, t)
  BY <1>2, SetActiveVehicleKeeps DEF LifeIInv
<1>4. Settles(selection', t)
  BY <1>1, SetActiveVehicleSettles DEF LifeIInv
<1>5. Current' = t
  <2>1. t \in Actives
    BY <1>3 DEF ActiveOK
  <2> HIDE DEF t
  <2> QED BY <1>1, <2>1, RecordIsState
<1>6. ListOK'
  BY <1>1, <1>2 DEF LifeIInv, ListOK
<1> HIDE DEF t
<1> QED BY <1>1, <1>3, <1>4, <1>5, <1>6 DEF LifeIInv

\* A vehicle is made, and may become the selected one and the active one.
LEMMA HeartbeatKeeps ==
  ASSUME LifeIInv, NEW v \in Vehicles, NEW i \in Ids, NEW link \in Links,
         HeartbeatOfUnknown(v, i, link)
  PROVE  LifeIInv'
<1> DEFINE added == IF selection' # selection THEN SetActiveVehicle(Current, v)
                    ELSE Current
           t == IF vehicles = <<>> THEN SetActiveVehicle(added, v) ELSE added
<1>1. /\ phase[v] = "unborn"
      /\ phase' = [phase EXCEPT ![v] = "listed"]
      /\ vehicles' = Append(vehicles, v)
      /\ selection' \in {selection, v}
      /\ Becomes(t)
  BY DEF HeartbeatOfUnknown
<1>2. /\ phase' \in [Vehicles -> Phases] /\ phase'[v] = "listed"
      /\ \A u \in Vehicles : u # v => phase'[u] = phase[u]
  BY <1>1 DEF LifeIInv, ListOK, Phases
<1>3. v \in MaybeVehicle /\ v # NoVehicle
  BY VehicleAssumption DEF MaybeVehicle
<1>4. ActiveOK(phase', Current)
  <2>1. /\ v # Current.active
        /\ \A k \in DOMAIN Current.timers : Current.timers[k].vehicle # v
    BY <1>1, <1>3 DEF LifeIInv, ActiveOK, TimersOK, Alive
  <2> QED BY <1>2, <2>1, PhasesChange DEF LifeIInv
<1>5. ActiveOK(phase', added) /\ Settles(selection', added)
  <2>1. CASE selection' = selection
    BY <1>4, <2>1 DEF LifeIInv
  <2>2. CASE selection' # selection
    BY <1>1, <1>2, <1>3, <1>4, <2>2, SetActiveVehicleKeeps, SetActiveVehicleSettles
       DEF LifeIInv
  <2> QED BY <2>1, <2>2
<1>6. ActiveOK(phase', t) /\ Settles(selection', t)
  <2> HIDE DEF added
  <2> QED BY <1>2, <1>3, <1>5, SetActiveVehicleKeeps, SetActiveVehicleSettles
<1>7. Current' = t
  <2>1. t \in Actives
    BY <1>6 DEF ActiveOK
  <2> HIDE DEF t
  <2> QED BY <1>1, <2>1, RecordIsState
<1>8. ListOK'
  <2>1. /\ vehicles' \in Seq(Vehicles)
        /\ \A u \in Range(vehicles') : u = v \/ u \in Range(vehicles)
    BY <1>1 DEF LifeIInv, ListOK, Range
  <2> QED BY <1>1, <1>2, <1>3, <2>1 DEF LifeIInv, ListOK, MaybeVehicle, Range
<1> HIDE DEF t
<1> QED BY <1>6, <1>7, <1>8 DEF LifeIInv

\* The second phases that are due but for the first.
LEMMA FirstIsOff ==
  ASSUME LifeIInv, timers # <<>>
  PROVE  LET s == [Current EXCEPT !.timers = Tail(@)]
         IN  /\ ActiveOK(phase, s)
             /\ s.active = activeVehicle /\ s.timers = Tail(timers)
             /\ Head(timers) \in Timers /\ Alive(phase, Head(timers).vehicle)
             /\ Head(timers).phase2 = "delete" =>
                  /\ Head(timers).vehicle \in Vehicles
                  /\ phase[Head(timers).vehicle] = "removed"
                  /\ \A i \in DOMAIN s.timers :
                       s.timers[i].vehicle # Head(timers).vehicle
             /\ \/ activeVehicle = selection
                \/ Head(timers) = Activation(selection)
                \/ \E i \in DOMAIN s.timers : s.timers[i] = Activation(selection)
<1> DEFINE rest == Tail(timers)
           s == [Current EXCEPT !.timers = Tail(@)]
<1>1. /\ Current \in Actives
      /\ Current.active = activeVehicle /\ Current.timers = timers
      /\ timers \in Seq(Timers) /\ TimersOK(phase, timers)
      /\ Alive(phase, activeVehicle)
  BY DEF LifeIInv, ActiveOK, Actives, Current
<1>2. /\ rest \in Seq(Timers)
      /\ Head(timers) = timers[1] /\ 1 \in DOMAIN timers
      /\ \A i \in DOMAIN rest :
           /\ i + 1 \in DOMAIN timers /\ i \in Nat /\ i > 0
           /\ rest[i] = timers[i + 1]
      /\ \A i \in DOMAIN timers : i = 1 \/ i - 1 \in DOMAIN rest
      /\ \A i \in DOMAIN timers : i \in Nat
  BY <1>1
<1>3. Head(timers) \in Timers
  BY <1>1, <1>2
<1> HIDE DEF rest
<1>4. /\ s \in Actives /\ s.active = activeVehicle /\ s.timers = rest
  <2>1. s = [Current EXCEPT !.timers = rest]
    BY <1>1 DEF rest
  <2> HIDE DEF s
  <2> QED BY <1>1, <1>2, <2>1 DEF Actives
<1>5. TimersOK(phase, rest)
  BY <1>1, <1>2 DEF TimersOK
<1>6. Head(timers).phase2 = "delete" =>
        \A i \in DOMAIN rest : rest[i].vehicle # Head(timers).vehicle
  BY <1>1, <1>2 DEF TimersOK
<1>7. \/ activeVehicle = selection
      \/ Head(timers) = Activation(selection)
      \/ \E i \in DOMAIN rest : rest[i] = Activation(selection)
  <2>1. ASSUME activeVehicle # selection
        PROVE  \E i \in DOMAIN timers : timers[i] = Activation(selection)
    BY <1>1, <2>1 DEF LifeIInv, Settles
  <2>2. ASSUME NEW i \in DOMAIN timers, timers[i] = Activation(selection), i # 1
        PROVE  \E j \in DOMAIN rest : rest[j] = Activation(selection)
    BY <1>2, <2>2
  <2> QED BY <1>2, <2>1, <2>2
<1>8. /\ Alive(phase, Head(timers).vehicle)
      /\ Head(timers).phase2 = "delete" =>
           /\ Head(timers).vehicle \in Vehicles
           /\ phase[Head(timers).vehicle] = "removed"
  BY <1>1, <1>2 DEF TimersOK
<1> HIDE DEF s
<1>9. ActiveOK(phase, s)
  BY <1>1, <1>4, <1>5 DEF ActiveOK
<1> QED BY <1>3, <1>4, <1>6, <1>7, <1>8, <1>9 DEF s, rest

\* A second phase runs: it deletes a vehicle, which nothing else names, or makes
\* one active.
LEMMA SecondPhaseKeeps == LifeIInv /\ SecondPhase => LifeIInv'
<1> SUFFICES ASSUME LifeIInv, SecondPhase PROVE LifeIInv'
  OBVIOUS
<1> DEFINE s == [Current EXCEPT !.timers = Tail(@)]
           head == Head(timers)
<1>1. /\ timers # <<>>
      /\ UNCHANGED <<vehicles, selection>>
  BY DEF SecondPhase
<1>2. /\ ActiveOK(phase, s)
      /\ s.active = activeVehicle /\ s.timers = Tail(timers)
      /\ head \in Timers /\ Alive(phase, head.vehicle)
      /\ head.phase2 = "delete" =>
           /\ head.vehicle \in Vehicles
           /\ phase[head.vehicle] = "removed"
           /\ \A i \in DOMAIN s.timers : s.timers[i].vehicle # head.vehicle
      /\ \/ activeVehicle = selection
         \/ head = Activation(selection)
         \/ \E i \in DOMAIN s.timers : s.timers[i] = Activation(selection)
  BY <1>1, FirstIsOff
<1>3. /\ selection \in MaybeVehicle
      /\ selection # NoVehicle => phase[selection] = "listed"
  BY DEF LifeIInv, ListOK
<1>4. ASSUME head.phase2 = "activate",
             Becomes(MakeAvailable(ChangeActive(s, head.vehicle))),
             UNCHANGED phase
      PROVE  LifeIInv'
  <2> DEFINE v == head.vehicle
             t == MakeAvailable(ChangeActive(s, v))
  <2>1. v \in MaybeVehicle /\ Alive(phase, v)
    BY <1>2 DEF Timers
  <2>2. s.active # selection /\ s.active = v =>
          \E i \in DOMAIN s.timers : s.timers[i] = Activation(selection)
    <3>1. head = Activation(selection) => v = selection
      BY DEF Activation
    <3> QED BY <1>2, <3>1
  <2> HIDE DEF v, s
  <2>3. ActiveOK(phase, t) /\ Settles(selection, t)
    BY <1>2, <1>3, <2>1, <2>2, SecondPhaseEnds
  <2>4. Becomes(t)
    BY <1>4 DEF v
  <2>5. Current' = t
    <3>1. t \in Actives
      BY <2>3 DEF ActiveOK
    <3> HIDE DEF t
    <3> QED BY <2>4, <3>1, RecordIsState
  <2> HIDE DEF t
  <2> QED BY <1>1, <1>4, <2>3, <2>5 DEF LifeIInv, ListOK
<1>5. ASSUME head.phase2 = "delete", DeletePhase2(head.vehicle)
      PROVE  LifeIInv'
  <2> DEFINE v == head.vehicle
             first == IF vehicles = <<>> THEN NoVehicle ELSE Head(vehicles)
             t == MakeAvailable(ChangeActive(s, first))
  <2>1. /\ v \in Vehicles /\ phase[v] = "removed"
        /\ \A i \in DOMAIN s.timers : s.timers[i].vehicle # v
    BY <1>2, <1>5
  <2>2. /\ phase' = [phase EXCEPT ![v] = "doomed"]
        /\ Becomes(t)
    BY <1>5 DEF DeletePhase2
  <2>3. /\ first \in MaybeVehicle
        /\ first # NoVehicle => phase[first] = "listed"
    <3>1. vehicles # <<>> => Head(vehicles) \in Range(vehicles)
                             /\ Head(vehicles) \in Vehicles
      BY DEF LifeIInv, ListOK, Range
    <3> QED BY <3>1 DEF LifeIInv, ListOK, MaybeVehicle
  <2>4. s.active # selection /\ s.active = first =>
          \E i \in DOMAIN s.timers : s.timers[i] = Activation(selection)
    <3>1. head # Activation(selection)
      BY <1>5 DEF Activation
    <3> QED BY <1>2, <3>1
  <2>5. Alive(phase, first)
    BY <2>3 DEF Alive
  <2> HIDE DEF v, s, first
  <2>6. /\ ActiveOK(phase, t) /\ Settles(selection, t)
        /\ t.active = first
        /\ t.timers \in {s.timers, Append(s.timers, Activation(selection))}
    BY <1>2, <1>3, <2>3, <2>4, <2>5, SecondPhaseEnds
  <2> HIDE DEF t
  <2>7. v # NoVehicle /\ v # selection /\ v # t.active
    BY <1>3, <2>1, <2>3, <2>6, VehicleAssumption
  <2>8. \A i \in DOMAIN t.timers : t.timers[i].vehicle # v
    <3>1. s.timers \in Seq(Timers) /\ Activation(selection) \in Timers
      BY <1>2, <1>3 DEF ActiveOK, Actives, Activation, Timers
    <3>2. Activation(selection).vehicle = selection
      BY DEF Activation
    <3>3. CASE t.timers = s.timers
      BY <2>1, <3>3
    <3>4. CASE t.timers = Append(s.timers, Activation(selection))
      BY <2>1, <2>7, <3>1, <3>2, <3>4, Appended
    <3> QED BY <2>6, <3>3, <3>4
  <2>9. /\ phase' \in [Vehicles -> Phases]
        /\ \A u \in Vehicles : u # v => phase'[u] = phase[u]
    BY <2>1, <2>2 DEF LifeIInv, ListOK, Phases
  <2>10. ActiveOK(phase', t)
    BY <2>6, <2>7, <2>8, <2>9, PhasesChange
  <2>11. Current' = t
    BY <2>2, <2>10, RecordIsState DEF ActiveOK
  <2>12. ListOK'
    <3>1. \A u \in Range(vehicles) : u \in Vehicles /\ u # v
      BY <2>1 DEF LifeIInv, ListOK, Range
    <3> QED BY <1>1, <1>3, <2>7, <2>9, <3>1 DEF LifeIInv, ListOK, MaybeVehicle
  <2> QED BY <1>1, <2>6, <2>10, <2>11, <2>12 DEF LifeIInv
<1> HIDE DEF s
<1> QED BY <1>4, <1>5 DEF SecondPhase, s

-----------------------------------------------------------------------------
(* Removal.                                                                *)

\* A sequence of all elements of a set of vehicles names each.
LEMMA SequenceOfSet ==
  ASSUME NEW S \in SUBSET Vehicles, NEW order \in SetToSeqs(S)
  PROVE  /\ order \in Seq(S)
         /\ DOMAIN order = 1..Len(order)
         /\ \A i, j \in DOMAIN order : i # j => order[i] # order[j]
         /\ Range(order) = S
<1>1. IsFiniteSet(S) /\ Cardinality(S) \in Nat
  BY LinkAssumption, FS_Subset, FS_CardinalityType
<1> DEFINE n == Cardinality(S)
<1>2. /\ order \in [1..n -> S]
      /\ \A i, j \in 1..n : i # j => order[i] # order[j]
  BY DEF SetToSeqs
<1>3. order \in Surjection(1..n, S)
  <2>1. order \in Injection(1..n, S)
    BY <1>2 DEF Injection, IsInjective
  <2>2. Cardinality(1..n) = n
    <3> HIDE DEF n
    <3>1. n \in Nat
      BY <1>1 DEF n
    <3> QED BY <3>1, FS_Interval
  <2> QED BY <1>1, <2>1, <2>2, FS_Injection
<1> HIDE DEF n
<1>4. n \in Nat
  BY <1>1 DEF n
<1>5. order \in Seq(S) /\ Len(order) = n
  BY <1>2, <1>4
<1>6. Range(order) = S
  BY <1>2, <1>3 DEF Range, Surjection
<1> QED BY <1>2, <1>4, <1>5, <1>6

\* What the removal of vehicles starts.
LEMMA StartedByRemoval ==
  ASSUME NEW gone \in SUBSET Vehicles, NEW order \in SetToSeqs(gone)
  PROVE  LET started == StartedBy(order)
         IN  /\ started \in Seq(Timers)
             /\ \A i \in DOMAIN started :
                  \/ started[i] = Activation(NoVehicle)
                  \/ started[i].vehicle \in gone /\ started[i].phase2 = "delete"
             /\ \A i, j \in DOMAIN started :
                  i < j /\ started[i].phase2 = "delete" =>
                    started[j].vehicle # started[i].vehicle
             /\ selection \in gone /\ activeVehicle # NoVehicle =>
                  \E i \in DOMAIN started : started[i] = Activation(NoVehicle)
             /\ started = <<>> => gone = {}
             /\ \A v \in gone : \E i \in DOMAIN started : started[i] = Deletion(v)
<1> DEFINE deletions == [i \in DOMAIN order |-> Deletion(order[i])]
           n == Len(order)
           none == Activation(NoVehicle)
<1>1. /\ order \in Seq(gone) /\ DOMAIN order = 1..n /\ n \in Nat
      /\ \A i, j \in DOMAIN order : i # j => order[i] # order[j]
      /\ Range(order) = gone
      /\ \A i \in DOMAIN order : order[i] \in gone
  BY SequenceOfSet DEF Range
<1>2. /\ none \in Timers /\ none.phase2 = "activate" /\ none.vehicle = NoVehicle
      /\ \A v \in gone : Deletion(v) \in Timers /\ Deletion(v).phase2 = "delete"
                         /\ Deletion(v).vehicle = v
      /\ NoVehicle \notin gone
  BY VehicleAssumption DEF Activation, Deletion, Timers, MaybeVehicle
<1>3. /\ deletions \in Seq(Timers) /\ Len(deletions) = n
      /\ \A i \in 1..n : deletions[i] = Deletion(order[i])
  BY <1>1, <1>2
<1>4. CASE ~(selection \in Range(order) /\ activeVehicle # NoVehicle)
  <2>1. StartedBy(order) = deletions
    BY <1>4 DEF StartedBy
  <2>2. deletions = <<>> => gone = {}
    BY <1>1, <1>3 DEF Range
  <2>3. \A v \in gone : \E i \in DOMAIN deletions : deletions[i] = Deletion(v)
    BY <1>1, <1>3 DEF Range
  <2> HIDE DEF deletions, none
  <2>4. \A i \in DOMAIN deletions :
          /\ deletions[i].phase2 = "delete" /\ deletions[i].vehicle = order[i]
          /\ order[i] \in gone
    BY <1>1, <1>2, <1>3
  <2>5. \A i, j \in DOMAIN deletions : i < j => deletions[j].vehicle # deletions[i].vehicle
    BY <1>1, <1>3, <2>4
  <2>6. \A i \in DOMAIN deletions :
          deletions[i].vehicle = NoVehicle \/ deletions[i].vehicle \in gone
    BY <2>4
  <2> QED BY <1>3, <1>4, <1>1, <2>1, <2>2, <2>3, <2>4, <2>5, <2>6
<1>5. CASE selection \in Range(order) /\ activeVehicle # NoVehicle
  <2> DEFINE k == CHOOSE i \in DOMAIN order : order[i] = selection
             before == SubSeq(deletions, 1, k - 1)
             after == SubSeq(deletions, k, n)
             front == before \o <<none>>
             started == front \o after
  <2>1. k \in 1..n
    BY <1>1, <1>5 DEF Range
  <2>2. StartedBy(order) = started
    BY <1>3, <1>5 DEF StartedBy, InsertAt
  <2> HIDE DEF deletions, none, k
  <2>3. /\ before \in Seq(Timers) /\ Len(before) = k - 1
        /\ \A i \in 1..k - 1 : before[i] = deletions[i]
    BY <1>1, <1>3, <2>1, SubSeqProperties
  <2>4. /\ after \in Seq(Timers) /\ Len(after) = n - k + 1
        /\ \A i \in 1..n - k + 1 : after[i] = deletions[k + i - 1]
    BY <1>1, <1>3, <2>1, SubSeqProperties
  <2> HIDE DEF before, after
  <2>5. /\ started \in Seq(Timers) /\ Len(started) = n + 1
        /\ \A i \in 1..n + 1 :
             started[i] = IF i < k THEN deletions[i]
                          ELSE IF i = k THEN none ELSE deletions[i - 1]
    <3>1. /\ front \in Seq(Timers) /\ Len(front) = k
          /\ \A i \in 1..k : front[i] = IF i < k THEN deletions[i] ELSE none
      <4>1. front = Append(before, none)
        BY <1>2, <2>3
      <4>2. none \in Timers
        BY <1>2
      <4> HIDE DEF front
      <4> QED BY <1>1, <2>1, <2>3, <4>1, <4>2
    <3> HIDE DEF front
    <3>2. /\ started \in Seq(Timers) /\ Len(started) = n + 1
          /\ \A i \in 1..k : started[i] = front[i]
          /\ \A i \in k + 1..n + 1 : started[i] = after[i - k]
      <4>1. /\ started \in Seq(Timers)
            /\ Len(started) = Len(front) + Len(after)
            /\ \A i \in 1..Len(front) + Len(after) :
                 started[i] = IF i <= Len(front) THEN front[i]
                              ELSE after[i - Len(front)]
        BY <2>4, <3>1, ConcatProperties
      <4>2. Len(front) = k /\ Len(front) + Len(after) = n + 1
        BY <1>1, <2>1, <2>4, <3>1
      <4> HIDE DEF started
      <4> QED BY <1>1, <2>1, <4>1, <4>2
    <3> HIDE DEF started
    <3>3. ASSUME NEW i \in k + 1..n + 1
          PROVE  started[i] = deletions[i - 1]
      <4>1. i - k \in 1..n - k + 1 /\ k + (i - k) - 1 = i - 1
        BY <1>1, <2>1
      <4>2. after[i - k] = deletions[k + (i - k) - 1]
        BY <2>4, <4>1
      <4> QED BY <3>2, <4>1, <4>2
    <3>4. \A i \in 1..n + 1 : i \in 1..k \/ (i \in k + 1..n + 1 /\ ~(i < k) /\ i # k)
      BY <1>1, <2>1
    <3> QED BY <3>1, <3>2, <3>3, <3>4
  <2> HIDE DEF started, front
  <2>6. \A i \in 1..n + 1 :
          started[i] = IF i < k THEN Deletion(order[i])
                       ELSE IF i = k THEN none ELSE Deletion(order[i - 1])
    BY <1>1, <1>3, <2>1, <2>5
  <2>7. \A i \in DOMAIN started :
          \/ started[i] = none
          \/ started[i].vehicle \in gone /\ started[i].phase2 = "delete"
    BY <1>1, <1>2, <2>1, <2>5, <2>6
  <2>8. \A i, j \in DOMAIN started :
          i < j /\ started[i].phase2 = "delete" =>
            started[j].vehicle # started[i].vehicle
    <3> DEFINE at(i) == IF i < k THEN i ELSE i - 1
    <3>1. ASSUME NEW i \in 1..n + 1
          PROVE  /\ i = k => started[i] = none
                 /\ i # k => /\ at(i) \in 1..n
                             /\ order[at(i)] \in gone
                             /\ started[i].phase2 = "delete"
                             /\ started[i].vehicle = order[at(i)]
      BY <1>1, <1>2, <2>1, <2>6
    <3>2. ASSUME NEW i \in 1..n + 1, NEW j \in 1..n + 1, i < j, i # k, j # k
          PROVE  at(i) # at(j)
      BY <1>1, <2>1, <3>2
    <3> HIDE DEF at
    <3>3. ASSUME NEW i \in 1..n + 1, NEW j \in 1..n + 1, i < j,
                 started[i].phase2 = "delete"
          PROVE  started[j].vehicle # started[i].vehicle
      <4>1. i # k
        BY <1>2, <3>1, <3>3
      <4>2. CASE j = k
        BY <1>2, <3>1, <4>1, <4>2
      <4>3. CASE j # k
        BY <1>1, <3>1, <3>2, <3>3, <4>1, <4>3
      <4> QED BY <4>2, <4>3
    <3> QED BY <2>5, <3>3
  <2>9. started[k] = none /\ k \in DOMAIN started
    BY <1>1, <2>1, <2>5
  <2>10. ASSUME NEW v \in gone PROVE \E i \in DOMAIN started : started[i] = Deletion(v)
    <3>1. PICK m \in 1..n : order[m] = v
      BY <1>1 DEF Range
    <3>2. CASE m < k
      <4>1. m \in 1..n + 1 /\ started[m] = Deletion(v)
        BY <1>1, <2>1, <2>6, <3>1, <3>2
      <4> QED BY <1>1, <2>5, <4>1
    <3>3. CASE ~(m < k)
      <4>1. m + 1 \in 1..n + 1 /\ ~(m + 1 < k) /\ m + 1 # k /\ m + 1 - 1 = m
        BY <1>1, <2>1, <3>3
      <4>2. started[m + 1] = Deletion(v)
        BY <2>6, <3>1, <4>1
      <4> QED BY <1>1, <2>5, <4>1, <4>2
    <3> QED BY <3>2, <3>3
  <2> QED BY <2>2, <2>5, <2>7, <2>8, <2>9, <2>10 DEF none
<1> QED BY <1>4, <1>5

\* A vehicle, or those whose link is closed, are removed: their deletions come
\* last among what is due.
LEMMA RemovalKeeps ==
  ASSUME LifeIInv, NEW gone \in SUBSET Range(vehicles), RemoveVehicles(gone)
  PROVE  LifeIInv'
<1>1. /\ vehicles \in Seq(Vehicles) /\ gone \subseteq Vehicles
      /\ \A v \in gone : phase[v] = "listed"
  BY DEF LifeIInv, ListOK, Range
<1>2. PICK order \in SetToSeqs(gone) : timers' = timers \o StartedBy(order)
  BY DEF RemoveVehicles
<1> DEFINE started == StartedBy(order)
           n == Len(timers)
<1>3. /\ started \in Seq(Timers)
      /\ \A i \in DOMAIN started :
           \/ started[i] = Activation(NoVehicle)
           \/ started[i].vehicle \in gone /\ started[i].phase2 = "delete"
      /\ \A i, j \in DOMAIN started :
           i < j /\ started[i].phase2 = "delete" =>
             started[j].vehicle # started[i].vehicle
      /\ selection \in gone /\ activeVehicle # NoVehicle =>
           \E i \in DOMAIN started : started[i] = Activation(NoVehicle)
      /\ started = <<>> => gone = {}
  BY <1>1, StartedByRemoval
<1> HIDE DEF started
<1>4. /\ timers \in Seq(Timers) /\ n \in Nat
      /\ timers' \in Seq(Timers) /\ Len(timers') = n + Len(started)
      /\ \A i \in 1..n : timers'[i] = timers[i]
      /\ \A i \in 1..Len(started) : timers'[n + i] = started[i]
      /\ DOMAIN timers = 1..n /\ DOMAIN started = 1..Len(started)
      /\ DOMAIN timers' = 1..n + Len(started) /\ Len(started) \in Nat
  <2>1. timers \in Seq(Timers)
    BY DEF LifeIInv, ActiveOK, Actives, Current
  <2>2. timers' = timers \o started
    BY <1>2 DEF started
  <2>3. /\ timers' \in Seq(Timers) /\ Len(timers') = Len(timers) + Len(started)
        /\ \A i \in 1..Len(timers) + Len(started) :
             timers'[i] = IF i <= Len(timers) THEN timers[i]
                          ELSE started[i - Len(timers)]
    BY <1>3, <2>1, <2>2, ConcatProperties
  <2>4. n \in Nat /\ Len(started) \in Nat
    BY <1>3, <2>1
  <2>5. ASSUME NEW i \in 1..Len(started)
        PROVE  timers'[n + i] = started[i]
    <3>1. n + i \in 1..n + Len(started) /\ ~(n + i <= n) /\ n + i - n = i
      BY <2>4
    <3> QED BY <2>3, <3>1
  <2> QED BY <1>3, <2>1, <2>3, <2>4, <2>5
<1>5. /\ phase' = [v \in Vehicles |-> IF v \in gone THEN "removed" ELSE phase[v]]
      /\ selection' = IF selection \in gone THEN NoVehicle ELSE selection
      /\ activeVehicleAvailable' = (activeVehicleAvailable /\ gone = {})
      /\ parameterReadyVehicleAvailable' =
           (parameterReadyVehicleAvailable /\ gone = {})
      /\ activeVehicle' = activeVehicle
  BY DEF RemoveVehicles
<1>6. ListOK'
  <2>1. PICK rest \in SetToSeqs(Range(vehicles) \ gone) : vehicles' = rest
    BY DEF RemoveVehicles
  <2>2. Range(vehicles) \ gone \subseteq Vehicles
    BY <1>1 DEF Range
  <2>3. vehicles' \in Seq(Vehicles) /\ Range(vehicles') = Range(vehicles) \ gone
    BY <2>1, <2>2, SequenceOfSet
  <2>4. \A v \in Range(vehicles') : phase'[v] = "listed"
    BY <1>5, <2>2, <2>3 DEF LifeIInv, ListOK
  <2>5. phase' \in [Vehicles -> Phases]
    BY <1>5 DEF LifeIInv, ListOK, Phases
  <2>6. /\ selection' \in MaybeVehicle
        /\ selection' # NoVehicle => phase'[selection'] = "listed"
    BY <1>5 DEF LifeIInv, ListOK, MaybeVehicle
  <2> QED BY <2>3, <2>4, <2>5, <2>6 DEF ListOK
<1>7. /\ activeVehicle \in MaybeVehicle
      /\ Alive(phase, activeVehicle) /\ TimersOK(phase, timers)
      /\ activeVehicleAvailable \in BOOLEAN
      /\ parameterReadyVehicleAvailable \in BOOLEAN
  BY DEF LifeIInv, ActiveOK, Actives, Current
<1>8. /\ Current' \in Actives /\ Current'.active = activeVehicle
      /\ Current'.timers = timers'
      /\ Current'.available = activeVehicleAvailable'
  BY <1>4, <1>5, <1>7 DEF Current, Actives
<1>9. ActiveOK(phase', Current)
  <2>1. \A v \in Vehicles :
          phase'[v] = phase[v] \/ (phase[v] = "listed" /\ phase'[v] = "removed")
    BY <1>1, <1>5
  <2> QED BY <2>1, PhasesChange DEF LifeIInv
<1>10. TimersOK(phase', timers')
  <2>1. TimersOK(phase', timers)
    BY <1>9 DEF ActiveOK, Current
  <2>2. ASSUME NEW i \in DOMAIN timers
        PROVE  timers[i].phase2 = "delete" =>
                 timers[i].vehicle \notin gone /\ timers[i].vehicle # NoVehicle
    BY <1>1, <1>7, VehicleAssumption DEF TimersOK
  <2>3. /\ Activation(NoVehicle).vehicle = NoVehicle
        /\ Activation(NoVehicle).phase2 = "activate"
    BY DEF Activation
  <2>4. ASSUME NEW i \in DOMAIN started
        PROVE  /\ Alive(phase', started[i].vehicle)
               /\ started[i].phase2 = "delete" =>
                    /\ started[i].vehicle \in Vehicles
                    /\ phase'[started[i].vehicle] = "removed"
               /\ started[i].vehicle \in gone \cup {NoVehicle}
    BY <1>1, <1>3, <1>5, <2>3 DEF Alive
  <2>5. ASSUME NEW i \in DOMAIN timers'
        PROVE  \/ i \in 1..n /\ timers'[i] = timers[i]
               \/ i - n \in 1..Len(started) /\ timers'[i] = started[i - n]
    <3>1. CASE i \in 1..n
      BY <1>4, <3>1
    <3>2. CASE i \notin 1..n
      <4>1. i - n \in 1..Len(started) /\ n + (i - n) = i
        BY <1>4, <3>2
      <4> QED BY <1>4, <4>1
    <3> QED BY <3>1, <3>2
  <2>6. ASSUME NEW i \in DOMAIN timers'
        PROVE  /\ Alive(phase', timers'[i].vehicle)
               /\ timers'[i].phase2 = "delete" =>
                    /\ timers'[i].vehicle \in Vehicles
                    /\ phase'[timers'[i].vehicle] = "removed"
    BY <1>4, <2>1, <2>4, <2>5 DEF TimersOK
  <2>7. ASSUME NEW i \in DOMAIN timers', NEW j \in DOMAIN timers', i < j,
               timers'[i].phase2 = "delete"
        PROVE  timers'[j].vehicle # timers'[i].vehicle
    <3>1. i \in Nat /\ j \in Nat
      BY <1>4
    <3>2. CASE j \in 1..n /\ timers'[j] = timers[j]
      <4>1. i \in 1..n /\ timers'[i] = timers[i]
        BY <1>4, <2>7, <3>1, <3>2
      <4> QED BY <1>4, <1>7, <2>7, <3>2, <4>1 DEF TimersOK
    <3>3. CASE j - n \in 1..Len(started) /\ timers'[j] = started[j - n]
      <4>1. CASE i \in 1..n /\ timers'[i] = timers[i]
        BY <1>4, <2>2, <2>4, <2>7, <3>3, <4>1
      <4>2. CASE i - n \in 1..Len(started) /\ timers'[i] = started[i - n]
        <5>1. i - n < j - n
          BY <1>4, <2>7, <3>1
        <5> QED BY <1>3, <1>4, <2>7, <3>3, <4>2, <5>1
      <4> QED BY <2>5, <4>1, <4>2
    <3> QED BY <2>5, <3>2, <3>3
  <2> QED BY <2>6, <2>7 DEF TimersOK
<1>11. Settles(selection', Current')
  <2>1. timers' = <<>> => timers = <<>> /\ gone = {}
    <3>1. ASSUME timers' = <<>> PROVE n = 0 /\ Len(started) = 0
      BY <1>4, <3>1
    <3> QED BY <1>3, <1>4, <3>1
  <2>2. timers' = <<>> /\ activeVehicle # NoVehicle => activeVehicleAvailable'
    BY <1>5, <2>1 DEF LifeIInv, Settles, Current
  <2>3. ASSUME activeVehicle # selection'
        PROVE  \E i \in DOMAIN timers' : timers'[i] = Activation(selection')
    <3>1. CASE selection \in gone
      <4>1. PICK i \in DOMAIN started : started[i] = Activation(NoVehicle)
        BY <1>3, <1>5, <2>3, <3>1
      <4>2. n + i \in DOMAIN timers' /\ timers'[n + i] = Activation(NoVehicle)
        BY <1>4, <4>1
      <4> QED BY <1>5, <3>1, <4>2
    <3>2. CASE selection \notin gone
      <4>1. PICK i \in DOMAIN timers : timers[i] = Activation(selection)
        BY <1>5, <2>3, <3>2 DEF LifeIInv, Settles, Current
      <4>2. i \in DOMAIN timers' /\ timers'[i] = Activation(selection)
        BY <1>4, <4>1
      <4> QED BY <1>5, <3>2, <4>2
    <3> QED BY <3>1, <3>2
  <2> QED BY <1>8, <2>2, <2>3 DEF Settles
<1>12. ActiveOK(phase', Current')
  BY <1>8, <1>9, <1>10 DEF ActiveOK, Current
<1> QED BY <1>6, <1>11, <1>12 DEF LifeIInv

-----------------------------------------------------------------------------
(* The other steps.                                                        *)

\* An object is destroyed when nothing that is due names it.
LEMMA DestroyKeeps ==
  ASSUME LifeIInv, NEW v \in Vehicles, Destroy(v)
  PROVE  LifeIInv'
<1>1. /\ phase[v] = "doomed"
      /\ phase' = [phase EXCEPT ![v] = "dead"]
      /\ UNCHANGED <<vehicles, selection, Current>>
  BY DEF Destroy, activeVars, Current
<1>2. v # NoVehicle
  BY VehicleAssumption
<1>3. /\ phase' \in [Vehicles -> Phases]
      /\ \A u \in Vehicles : u # v => phase'[u] = phase[u]
  BY <1>1 DEF LifeIInv, ListOK, Phases
<1>4. ActiveOK(phase', Current)
  <2>1. /\ v # Current.active
        /\ \A k \in DOMAIN Current.timers : Current.timers[k].vehicle # v
    BY <1>1, <1>2 DEF LifeIInv, ActiveOK, TimersOK, Alive
  <2> QED BY <1>3, <2>1, PhasesChange DEF LifeIInv
<1>5. ListOK'
  <2>1. \A u \in Range(vehicles) : u \in Vehicles /\ u # v
    BY <1>1 DEF LifeIInv, ListOK, Range
  <2> QED BY <1>1, <1>3, <2>1 DEF LifeIInv, ListOK, MaybeVehicle
<1> QED BY <1>1, <1>4, <1>5 DEF LifeIInv

\* A vehicle becomes ready or loses its parameters.
LEMMA ReadyKeeps ==
  ASSUME LifeIInv, NEW v \in Vehicles, ParametersReadyChanged(v)
  PROVE  LifeIInv'
<1>1. /\ parameterReadyVehicleAvailable' \in BOOLEAN
      /\ UNCHANGED <<phase, vehicles, selection, activeVehicle,
                     activeVehicleAvailable, timers>>
  BY DEF ParametersReadyChanged
<1>2. /\ Current' \in Actives /\ Current'.active = Current.active
      /\ Current'.available = Current.available
      /\ Current'.timers = Current.timers
  BY <1>1 DEF LifeIInv, ActiveOK, Actives, Current
<1> QED BY <1>1, <1>2 DEF LifeIInv, ListOK, ActiveOK, Settles

\* A step that leaves all of this alone.
LEMMA UnchangedKeeps ==
  LifeIInv /\ UNCHANGED <<phase, vehicles, selection, activeVars>> => LifeIInv'
BY DEF LifeIInv, ListOK, Current, activeVars, ActiveOK, Settles

\* Every step, those of the link managers included.
LEMMA LifeNextKeeps == LifeIInv /\ [LifeNext]_allVars => LifeIInv'
<1> SUFFICES ASSUME LifeIInv, [LifeNext]_allVars PROVE LifeIInv'
  OBVIOUS
<1>1. ASSUME NEW v \in Vehicles, LinkEvent(v) PROVE LifeIInv'
  BY <1>1, RemovalKeeps DEF LinkEvent, WithSlots, DeletePhase1
<1>2. ASSUME NEW v \in Vehicles, NEW link \in Links,
             \/ \E i \in Ids : HeartbeatOfUnknown(v, i, link)
             \/ MessageOfVehicle(v, link)
      PROVE  LifeIInv'
  BY <1>2, HeartbeatKeeps, UnchangedKeeps DEF MessageOfVehicle, listVars
<1>3. ASSUME NEW v \in Vehicles,
             \/ Destroy(v)
             \/ ChooseActive(v)
             \/ SelectInFlyView(v)
             \/ ToggleSelected(v)
             \/ ParametersReadyChanged(v)
      PROVE  LifeIInv'
  <2>1. v \in MaybeVehicle
    BY DEF MaybeVehicle
  <2>2. ToggleSelected(v) => LifeIInv'
    BY UnchangedKeeps DEF ToggleSelected
  <2> QED BY <1>3, <2>1, <2>2, DestroyKeeps, UserKeeps, ReadyKeeps
<1>4. CASE SelectInFlyView(NoVehicle)
  BY <1>4, UserKeeps DEF MaybeVehicle
<1>5. ASSUME NEW link \in Links,
             \/ WithSlots(LinkDisconnected(link))
             \/ WithSlots(CreateConnectedLink(link))
      PROVE  LifeIInv'
  BY <1>5, RemovalKeeps DEF WithSlots, DeletePhase1
<1>6. CASE SecondPhase
  BY <1>6, SecondPhaseKeeps
<1>7. CASE UNCHANGED allVars
  BY <1>7, UnchangedKeeps DEF allVars, listVars
<1> QED BY <1>1, <1>2, <1>3, <1>4, <1>5, <1>6, <1>7 DEF LifeNext

-----------------------------------------------------------------------------
(* The links of the vehicles that come and go.                             *)

\* The links are as in their own module, but for a vehicle that heard a message after its
\* removal: it takes its references with it.
LinksCounted ==
  /\ manager \in [Vehicles -> Managers]
  /\ \A v \in Vehicles : Good(manager[v]) /\ Listed(manager[v]) \subseteq open
  /\ open \subseteq Links
  /\ closing \subseteq open
  /\ references \in [Links -> Nat]
  /\ \A link \in Links : references[link] >= Cardinality(On(link))
  /\ removed \subseteq Vehicles

\* A step after which an open link counts the vehicles that list it, if it did before.
Balanced ==
  \A link \in open' :
    (link \in open => references[link] = Cardinality(On(link)))
      => references'[link] = Cardinality(On(link)')

\* At the start no vehicle lists a link.
LEMMA LinksInitially == Init => LinksCounted
<1> SUFFICES ASSUME Init PROVE LinksCounted
  OBVIOUS
<1>1. IInv
  BY Initially
<1>2. \A link \in Links : references[link] \in Nat
  BY <1>1 DEF IInv
<1> QED BY <1>1, <1>2 DEF IInv, LinksCounted

\* A new manager lists nothing.
LEMMA NewManagerIsGood == Good(NewManager) /\ NewManager \in Managers /\ Listed(NewManager) = {}
<1> DEFINE none == <<>>
<1>1. none \in Seq(Links)
  OBVIOUS
<1> HIDE DEF none
<1>2. [links |-> none, lost |-> {}, elapsed |-> {}, primary |-> NoLink,
       communicationLost |-> FALSE, communicationLostEnabled |-> TRUE,
       autoDisconnect |-> FALSE, signalledByClose |-> FALSE,
       checking |-> FALSE, transmission |-> "unset"] \in Managers
  BY <1>1 DEF Managers
<1>3. NewManager \in Managers
  BY <1>2 DEF NewManager, none
<1>4. /\ NewManager.links = <<>> /\ NewManager.lost = {}
      /\ NewManager.elapsed = {} /\ NewManager.primary = NoLink
  BY DEF NewManager
<1>5. Good(NewManager) /\ Listed(NewManager) = {}
  BY <1>3, <1>4 DEF Good, Ordered, Chosen, Listed, Healthy, Range, IsInjective
<1> QED BY <1>3, <1>5

\* A step of one vehicle does not matter to a link that stays on or off its list.
LEMMA OthersStayListed ==
  ASSUME LinksCounted, NEW v \in Vehicles, NEW n,
         Listed(n) \subseteq Listed(manager[v]),
         manager' = [manager EXCEPT ![v] = n]
  PROVE  \A link \in Links \ (Listed(manager[v]) \ Listed(n)) : On(link)' = On(link)
<1>1. \A u \in Vehicles : manager'[u] = IF u = v THEN n ELSE manager[u]
  BY DEF LinksCounted
<1> QED BY <1>1 DEF On

\* A step of one vehicle that leaves its list of links alone, or gives it up with its
\* references.
LEMMA OneManagerChanges ==
  ASSUME LinksCounted, NEW v \in Vehicles, NEW n, Good(n),
         Listed(n) \subseteq Listed(manager[v]),
         manager' = [manager EXCEPT ![v] = n],
         UNCHANGED <<open, closing, references>>, removed' \subseteq Vehicles
  PROVE  LinksCounted' /\ (Listed(n) = Listed(manager[v]) => Balanced)
<1>1. n \in Managers
  BY DEF Good, Ordered
<1>2. manager' \in [Vehicles -> Managers]
  BY <1>1 DEF LinksCounted
<1>3. \A u \in Vehicles :
        /\ Good(manager'[u]) /\ Listed(manager'[u]) \subseteq Listed(manager[u])
  BY DEF LinksCounted
<1>4. ASSUME NEW link \in Links PROVE references'[link] >= Cardinality(On(link)')
  <2>1. On(link)' \subseteq On(link)
    BY <1>3 DEF On
  <2>2. Cardinality(On(link)') <= Cardinality(On(link))
    BY <2>1, OnIsCounted, FS_Subset
  <2>3. references[link] \in Nat /\ references[link] >= Cardinality(On(link))
    BY DEF LinksCounted
  <2> QED BY <2>2, <2>3, OnIsCounted
<1>5. Listed(n) = Listed(manager[v]) => Balanced
  BY OthersStayListed DEF LinksCounted, Balanced
<1> QED BY <1>2, <1>3, <1>4, <1>5 DEF LinksCounted

\* A message adds those to the count that were not on the link.
LEMMA MessageCounted ==
  ASSUME LinksCounted, NEW hearers \in SUBSET Vehicles, NEW link \in Links,
         MessageReceived(hearers, link)
  PROVE  LinksCounted' /\ Balanced
<1> DEFINE new == {u \in hearers : link \notin Listed(manager[u])}
<1>1. /\ link \in open
      /\ \A u \in Vehicles :
           manager'[u] = IF u \in hearers THEN Heard(manager[u], link) ELSE manager[u]
      /\ references' = [references EXCEPT ![link] = @ + Cardinality(new)]
      /\ removed' = {}
      /\ UNCHANGED <<open, closing>>
  BY DEF MessageReceived
<1>2. \A u \in Vehicles :
        /\ Good(manager'[u])
        /\ Listed(manager'[u]) = IF u \in hearers THEN Listed(manager[u]) \cup {link}
                                 ELSE Listed(manager[u])
  <2> TAKE u \in Vehicles
  <2>1. Good(manager[u])
    BY DEF LinksCounted
  <2>2. /\ Good(Heard(manager[u], link))
        /\ Listed(Heard(manager[u], link)) = Listed(manager[u]) \cup {link}
    BY <2>1, LinkIsHeard
  <2>3. CASE u \in hearers
    BY <1>1, <2>2, <2>3
  <2>4. CASE u \notin hearers
    BY <1>1, <2>1, <2>4
  <2> QED BY <2>3, <2>4
<1>3. manager' \in [Vehicles -> Managers]
  <2>1. \A u \in Vehicles : manager'[u] \in Managers
    BY <1>2 DEF Good, Ordered
  <2> QED BY <2>1 DEF MessageReceived
<1>4. \A other \in Links : other # link => On(other)' = On(other)
  BY <1>2 DEF On
<1>5. On(link)' = On(link) \cup new /\ On(link) \cap new = {}
  BY <1>2 DEF On
<1>6. IsFiniteSet(new) /\ Cardinality(new) \in Nat
  <2>1. new \subseteq Vehicles
    OBVIOUS
  <2> HIDE DEF new
  <2> QED BY <2>1, CountIsNatural
<1> HIDE DEF new
<1>7. Cardinality(On(link)') = Cardinality(On(link)) + Cardinality(new)
  <2>1. IsFiniteSet(On(link)) /\ IsFiniteSet(new)
    BY <1>6, OnIsCounted
  <2>2. /\ Cardinality(On(link) \cup new)
             = Cardinality(On(link)) + Cardinality(new) - Cardinality(On(link) \cap new)
    BY <2>1, FS_Union
  <2>3. Cardinality(On(link) \cap new) = 0
    BY <1>5, FS_EmptySet
  <2> QED BY <1>5, <1>6, <2>2, <2>3, OnIsCounted
<1>8. references' \in [Links -> Nat]
      /\ \A other \in Links : references'[other] >= Cardinality(On(other)')
  <2> DEFINE count == Cardinality(new)
  <2>1. references' = [references EXCEPT ![link] = @ + count] /\ count \in Nat
    BY <1>1, <1>6
  <2> HIDE DEF count
  <2>2. references' \in [Links -> Nat] /\ references'[link] = references[link] + count
        /\ \A other \in Links : other # link => references'[other] = references[other]
    BY <2>1 DEF LinksCounted
  <2>3. references[link] \in Nat /\ references[link] >= Cardinality(On(link))
    BY DEF LinksCounted
  <2>4. references'[link] >= Cardinality(On(link)')
    BY <1>7, <2>1, <2>2, <2>3, OnIsCounted DEF count
  <2> QED BY <1>4, <2>2, <2>4 DEF LinksCounted
<1>9. Balanced
  <2> DEFINE count == Cardinality(new)
  <2>1. references' = [references EXCEPT ![link] = @ + count] /\ count \in Nat
    BY <1>1, <1>6
  <2>2. Cardinality(On(link)') = Cardinality(On(link)) + count
    BY <1>7
  <2> HIDE DEF count
  <2>3. references'[link] = references[link] + count
        /\ \A other \in Links : other # link => references'[other] = references[other]
    BY <2>1 DEF LinksCounted
  <2> QED BY <1>1, <1>4, <2>2, <2>3 DEF Balanced, LinksCounted
<1> QED BY <1>1, <1>2, <1>3, <1>8, <1>9 DEF LinksCounted

\* Closing a vehicle gives back its references.
LEMMA CloseCounted ==
  ASSUME LinksCounted, NEW v \in Vehicles, NEW n, Good(n), Listed(n) = {},
         manager' = [manager EXCEPT ![v] = n],
         Close(v)
  PROVE  LinksCounted' /\ Balanced
<1> DEFINE links == Listed(manager[v])
<1>1. n \in Managers
  BY DEF Good, Ordered
<1>2. manager' \in [Vehicles -> Managers]
  BY <1>1 DEF LinksCounted
<1>3. \A u \in Vehicles :
        /\ Good(manager'[u])
        /\ Listed(manager'[u]) = IF u = v THEN {} ELSE Listed(manager[u])
  BY DEF LinksCounted
<1>4. /\ references' = [link \in Links |->
                          IF link \in links THEN references[link] - 1
                          ELSE references[link]]
      /\ closing' \subseteq open /\ open' = open
      /\ removed' = {v}
  BY DEF Close, LinksCounted
<1>5. ASSUME NEW link \in Links
      PROVE  /\ references'[link] >= Cardinality(On(link)') /\ references'[link] \in Nat
             /\ references[link] = Cardinality(On(link))
                  => references'[link] = Cardinality(On(link)')
  <2>1. On(link)' = On(link) \ {v}
    BY <1>3 DEF On
  <2>2. link \in links <=> v \in On(link)
    BY DEF On
  <2>3. Cardinality(On(link)') = IF link \in links THEN Cardinality(On(link)) - 1
                                 ELSE Cardinality(On(link))
    BY <2>1, <2>2, OnIsCounted, FS_RemoveElement
  <2>4. references[link] \in Nat /\ references[link] >= Cardinality(On(link))
    BY DEF LinksCounted
  <2>5. references'[link] = IF link \in links THEN references[link] - 1 ELSE references[link]
    BY <1>4
  <2> QED BY <2>3, <2>4, <2>5, OnIsCounted
<1>6. references' \in [Links -> Nat]
  BY <1>4, <1>5
<1>7. Balanced
  BY <1>4, <1>5 DEF Balanced, LinksCounted
<1> QED BY <1>2, <1>3, <1>4, <1>5, <1>6, <1>7 DEF LinksCounted

\* A link that is gone is on no list; its count may keep the references of vehicles that
\* have been destroyed.
LEMMA DisconnectedCounted ==
  ASSUME LinksCounted, NEW link \in Links, LinkDisconnected(link)
  PROVE  LinksCounted' /\ Balanced
<1> DEFINE on == On(link)
           left(v) == UpdatePrimaryLink(RemoveLink(manager[v], link))
<1>1. /\ open' = open \ {link}
      /\ closing' = closing \ {link}
      /\ manager' = [v \in Vehicles |-> IF v \in on THEN left(v) ELSE manager[v]]
      /\ references' = [references EXCEPT ![link] = @ - Cardinality(on)]
      /\ removed' \subseteq Vehicles
  BY DEF LinkDisconnected, On
<1>2. ASSUME NEW v \in Vehicles
      PROVE  /\ Good(manager'[v])
             /\ Listed(manager'[v]) = Listed(manager[v]) \ {link}
  <2>1. CASE v \in on
    <3>1. Good(manager[v]) /\ link \in Listed(manager[v])
      BY <2>1 DEF LinksCounted, On
    <3>2. /\ Ordered(RemoveLink(manager[v], link))
          /\ Listed(RemoveLink(manager[v], link)) = Listed(manager[v]) \ {link}
      BY <3>1, LinkIsRemoved
    <3>3. Good(left(v)) /\ Listed(left(v)) = Listed(manager[v]) \ {link}
      BY <3>2, PrimaryIsChosen DEF Good, Listed
    <3> QED BY <1>1, <2>1, <3>3
  <2>2. CASE v \notin on
    <3>1. link \notin Listed(manager[v])
      BY <2>2 DEF On
    <3>2. manager'[v] = manager[v]
      BY <1>1, <2>2
    <3> QED BY <3>1, <3>2 DEF LinksCounted
  <2> QED BY <2>1, <2>2
<1>3. manager' \in [Vehicles -> Managers]
  <2>1. \A v \in Vehicles : manager'[v] \in Managers
    BY <1>2 DEF Good, Ordered
  <2> QED BY <1>1, <2>1
<1>4. On(link)' = {} /\ Cardinality(On(link)') = 0
  BY <1>2, FS_EmptySet DEF On
<1>5. \A other \in Links : other # link => On(other)' = On(other)
  BY <1>2 DEF On
<1>6. /\ references' \in [Links -> Nat]
      /\ \A other \in Links : references'[other] >= Cardinality(On(other)')
      /\ \A other \in Links : other # link => references'[other] = references[other]
  <2> DEFINE count == Cardinality(on)
  <2>1. references' = [references EXCEPT ![link] = @ - count] /\ count \in Nat
    BY <1>1, OnIsCounted
  <2>2. references[link] >= count /\ references \in [Links -> Nat]
    BY DEF LinksCounted
  <2> HIDE DEF count
  <2>3. references' \in [Links -> Nat] /\ references'[link] >= 0
        /\ \A other \in Links : other # link => references'[other] = references[other]
    BY <2>1, <2>2
  <2> QED BY <1>4, <1>5, <2>3 DEF LinksCounted
<1>7. \A v \in Vehicles : Listed(manager'[v]) \subseteq open'
  BY <1>1, <1>2 DEF LinksCounted
<1>8. open' \subseteq Links /\ closing' \subseteq open'
  BY <1>1 DEF LinksCounted
<1>9. Balanced
  BY <1>1, <1>5, <1>6 DEF Balanced, LinksCounted
<1> QED BY <1>1, <1>2, <1>3, <1>6, <1>7, <1>8, <1>9 DEF LinksCounted

\* A link that is new is counted from 0.
LEMMA CreatedCounted ==
  ASSUME LinksCounted, NEW link \in Links, CreateConnectedLink(link)
  PROVE  LinksCounted' /\ Balanced
<1>1. /\ link \notin open
      /\ open' = open \cup {link}
      /\ references' = [references EXCEPT ![link] = 0]
      /\ removed' = {}
      /\ UNCHANGED <<manager, closing>>
  BY DEF CreateConnectedLink
<1>2. \A other \in Links : On(other)' = On(other)
  BY <1>1 DEF On
<1>3. On(link) = {}
  BY <1>1 DEF LinksCounted, On
<1>4. Cardinality(On(link)) = 0
  BY <1>3, FS_EmptySet
<1>5. /\ references' \in [Links -> Nat]
      /\ \A other \in Links : references'[other] >= Cardinality(On(other)')
  BY <1>1, <1>2, <1>4 DEF LinksCounted
<1>6. Balanced
  BY <1>1, <1>2, <1>4 DEF Balanced, LinksCounted
<1> QED BY <1>1, <1>5, <1>6 DEF LinksCounted

\* A heartbeat timer runs out.
LEMMA ElapsedCounted ==
  ASSUME LinksCounted, NEW v \in Vehicles, NEW link \in Links, HeartbeatElapsed(v, link)
  PROVE  LinksCounted' /\ Balanced
<1> DEFINE m == manager[v]
           n == [m EXCEPT !.elapsed = @ \cup {link}]
<1>1. /\ link \in Listed(m)
      /\ manager' = [manager EXCEPT ![v] = n]
      /\ removed' = {}
      /\ UNCHANGED <<open, closing, references>>
  BY DEF HeartbeatElapsed
<1>2. Good(m) /\ m \in Managers
  BY DEF LinksCounted
<1>3. /\ n \in Managers
      /\ n.links = m.links /\ n.lost = m.lost /\ n.primary = m.primary
      /\ n.elapsed = m.elapsed \cup {link}
  BY <1>2 DEF Managers
<1>4. Good(n) /\ Listed(n) = Listed(m)
  BY <1>1, <1>2, <1>3 DEF Good, Ordered, Chosen, Listed, Healthy
<1> HIDE DEF n
<1> QED BY <1>1, <1>4, OneManagerChanges

\* A total loss is announced of a manager that is good.
LEMMA LossAnnounced ==
  ASSUME NEW m, Good(m)
  PROVE  /\ Good([m EXCEPT !.communicationLost = TRUE])
         /\ Listed([m EXCEPT !.communicationLost = TRUE]) = Listed(m)
<1> DEFINE n == [m EXCEPT !.communicationLost = TRUE]
<1>1. /\ n \in Managers
      /\ n.links = m.links /\ n.lost = m.lost /\ n.elapsed = m.elapsed
      /\ n.primary = m.primary
  BY DEF Good, Ordered, Managers
<1> QED BY <1>1 DEF Good, Ordered, Chosen, Listed, Healthy

\* The check; a vehicle that is lost may be closed by the fly view.
LEMMA CheckCounted ==
  ASSUME LinksCounted, NEW v \in Vehicles, NEW closes, CommLostCheck(v, closes)
  PROVE  LinksCounted' /\ Balanced
<1> DEFINE m == LinksChecked(manager[v])
           n == [m EXCEPT !.communicationLost = TRUE]
           closed == [Closed(m) EXCEPT !.communicationLost = TRUE]
<1>1. Good(m) /\ Listed(m) = Listed(manager[v]) /\ m \in Managers
  BY LinksAreChecked DEF LinksCounted, Good, Ordered
<1>2. /\ Good(n) /\ Listed(n) = Listed(m)
      /\ Good(Closed(m)) /\ Listed(Closed(m)) = {}
      /\ Good(closed) /\ Listed(closed) = {}
  <2> HIDE DEF m
  <2> QED BY <1>1, LossAnnounced, VehicleIsClosed
<1>3. \/ manager' = [manager EXCEPT ![v] = m]
         /\ removed' = {} /\ UNCHANGED <<open, closing, references>>
      \/ manager' = [manager EXCEPT ![v] = n]
         /\ removed' = {} /\ UNCHANGED <<open, closing, references>>
      \/ manager' = [manager EXCEPT ![v] = Closed(m)] /\ Close(v)
      \/ manager' = [manager EXCEPT ![v] = closed] /\ Close(v)
  BY DEF CommLostCheck
<1> HIDE DEF m, n, closed
<1> QED BY <1>1, <1>2, <1>3, OneManagerChanges, CloseCounted

\* Every link event, and the destruction of a vehicle, which may leave a reference.
LEMMA LinkEventCounted ==
  ASSUME LinksCounted, NEW v \in Vehicles,
         \/ LinkEvent(v)
         \/ \E link \in Links : LinkDisconnected(link) \/ CreateConnectedLink(link)
         \/ \E hearers \in SUBSET Vehicles, link \in Links : MessageReceived(hearers, link)
         \/ Destroy(v)
  PROVE  LinksCounted' /\ (LinkEvent(v) => Balanced)
<1>1. CASE Destroy(v) /\ ~LinkEvent(v)
  <2>1. /\ manager' = [manager EXCEPT ![v] = NewManager] /\ removed' = {}
        /\ UNCHANGED <<open, closing, references>>
    BY <1>1 DEF Destroy
  <2> QED BY <1>1, <2>1, NewManagerIsGood, OneManagerChanges
<1>2. CASE CloseVehicle(v)
  <2>1. Good(Closed(manager[v])) /\ Listed(Closed(manager[v])) = {}
    BY VehicleIsClosed DEF LinksCounted
  <2> QED BY <1>2, <2>1, CloseCounted DEF CloseVehicle
<1>3. CASE CommLostCheck(v, CloseOnLoss /\ phase[v] = "listed")
  BY <1>3, CheckCounted
<1>4. ASSUME NEW link \in Links, HeartbeatElapsed(v, link)
      PROVE  LinksCounted' /\ Balanced
  BY <1>4, ElapsedCounted
<1>5. CASE LinkEvent(v)
  BY <1>2, <1>3, <1>4, <1>5 DEF LinkEvent, WithSlots
<1> QED BY <1>1, <1>5, DisconnectedCounted, CreatedCounted, MessageCounted

-----------------------------------------------------------------------------
(* Deletions.                                                              *)

\* Each vehicle that has been removed has its deletion due.
Due(ph, due) ==
  \A v \in Vehicles : ph[v] = "removed" => \E i \in DOMAIN due : due[i] = Deletion(v)

\* What else is known of the lists: a vehicle is listed for each object that has come and has
\* not been removed, and no two of them have an id in common.
ListsAgree ==
  /\ id \in [{v \in Vehicles : phase[v] # "unborn"} -> Ids]
  /\ \A v \in Vehicles : phase[v] = "listed" => v \in Range(vehicles)
  /\ \A i, j \in DOMAIN vehicles : id[vehicles[i]] = id[vehicles[j]] => i = j
  /\ selectedVehicles \subseteq Range(vehicles)
  /\ parametersReady \subseteq Vehicles

\* A link that no destroyed object had listed counts the vehicles that list it.
NoOtherLeaks ==
  /\ leaked \subseteq open
  /\ \A link \in open \ leaked : references[link] = Cardinality(On(link))

\* The invariant of deletions.
RemovalInv == LifeIInv /\ LinksCounted /\ ListsAgree /\ Due(phase, timers)

\* Nothing that is due is dropped.
Keeps(due, more) == \A i \in DOMAIN due : \E j \in DOMAIN more : more[j] = due[i]

\* A deletion that is due stays so.
LEMMA DueStays ==
  ASSUME NEW ph, NEW due, Due(ph, due), NEW more, Keeps(due, more),
         NEW next, \A v \in Vehicles : next[v] = "removed" => ph[v] = "removed"
  PROVE  Due(next, more)
<1> SUFFICES ASSUME NEW v \in Vehicles, next[v] = "removed"
             PROVE  \E j \in DOMAIN more : more[j] = Deletion(v)
  BY DEF Due
<1>1. PICK i \in DOMAIN due : due[i] = Deletion(v)
  BY DEF Due
<1> QED BY <1>1 DEF Keeps

\* setActiveVehicle may add to what is due.
LEMMA ActivationAdds ==
  ASSUME NEW ph, NEW s, ActiveOK(ph, s), NEW v \in MaybeVehicle,
         v # NoVehicle => ph[v] = "listed"
  PROVE  Keeps(s.timers, SetActiveVehicle(s, v).timers)
<1>1. s.timers \in Seq(Timers) /\ Activation(v) \in Timers
  BY DEF ActiveOK, Actives, Activation, Timers
<1>2. SetActiveVehicle(s, v).timers \in {s.timers, Append(s.timers, Activation(v))}
  BY SetActiveVehicleKeeps
<1>3. Keeps(s.timers, Append(s.timers, Activation(v)))
  BY <1>1, Appended DEF Keeps
<1> QED BY <1>2, <1>3 DEF Keeps

\* The user chooses a vehicle.
LEMMA UserRemovesNone ==
  ASSUME RemovalInv, NEW v \in MaybeVehicle, ChooseActive(v) \/ SelectInFlyView(v)
  PROVE  RemovalInv'
<1>1. LifeIInv'
  BY UserKeeps DEF RemovalInv
<1>2. /\ v # NoVehicle => v \in Range(vehicles)
      /\ Becomes(SetActiveVehicle(Current, v))
      /\ UNCHANGED <<linkVars, phase, id, vehicles, selectedVehicles, parametersReady>>
  BY DEF ChooseActive, SelectInFlyView, listVars
<1>3. v # NoVehicle => phase[v] = "listed"
  BY <1>2 DEF RemovalInv, LifeIInv, ListOK
<1>4. Keeps(timers, timers')
  <2>1. Current.timers = timers
    BY DEF Current
  <2> QED BY <1>2, <1>3, <2>1, ActivationAdds DEF RemovalInv, LifeIInv, Becomes
<1>5. Due(phase', timers')
  BY <1>2, <1>4, DueStays DEF RemovalInv
<1>6. LinksCounted' /\ ListsAgree'
  BY <1>2 DEF RemovalInv, LinksCounted, ListsAgree, linkVars, On
<1> QED BY <1>1, <1>5, <1>6 DEF RemovalInv

\* An object of an id that is not listed comes.
LEMMA HeartbeatRemovesNone ==
  ASSUME RemovalInv, NEW v \in Vehicles, NEW i \in Ids, NEW link \in Links,
         HeartbeatOfUnknown(v, i, link)
  PROVE  RemovalInv'
<1> DEFINE added == IF selection' # selection THEN SetActiveVehicle(Current, v)
                    ELSE Current
           t == IF vehicles = <<>> THEN SetActiveVehicle(added, v) ELSE added
<1>1. /\ phase[v] = "unborn"
      /\ \A other \in Range(vehicles) : id[other] # i
      /\ MessageReceived({v} \cup Hearers(i), link)
      /\ id' = [u \in DOMAIN id \cup {v} |-> IF u = v THEN i ELSE id[u]]
      /\ phase' = [phase EXCEPT ![v] = "listed"]
      /\ vehicles' = Append(vehicles, v)
      /\ Becomes(t)
      /\ UNCHANGED <<selectedVehicles, parametersReady>>
  BY DEF HeartbeatOfUnknown
<1>2. LifeIInv'
  BY HeartbeatKeeps DEF RemovalInv
<1>3. LinksCounted'
  <2>1. {v} \cup Hearers(i) \in SUBSET Vehicles
    BY DEF Hearers
  <2> QED BY <1>1, <2>1, LinkEventCounted DEF RemovalInv
<1>4. /\ phase \in [Vehicles -> Phases] /\ phase'[v] = "listed"
      /\ \A u \in Vehicles : u # v => phase'[u] = phase[u]
      /\ vehicles \in Seq(Vehicles)
      /\ \A u \in Range(vehicles) : u \in Vehicles /\ phase[u] = "listed"
  BY <1>1 DEF RemovalInv, LifeIInv, ListOK, Phases, Range
<1>5. Due(phase', timers')
  <2>1. v \in MaybeVehicle /\ v # NoVehicle
    BY VehicleAssumption DEF MaybeVehicle
  <2>2. ActiveOK(phase', Current)
    <3>1. /\ v # Current.active
          /\ \A k \in DOMAIN Current.timers : Current.timers[k].vehicle # v
      BY <1>1, <2>1 DEF RemovalInv, LifeIInv, ActiveOK, TimersOK, Alive
    <3> QED BY <1>4, <3>1, PhasesChange DEF RemovalInv, LifeIInv
  <2>3. ActiveOK(phase', added) /\ Keeps(Current.timers, added.timers)
    <3>1. CASE selection' = selection
      BY <2>2, <3>1 DEF Keeps
    <3>2. CASE selection' # selection
      BY <1>4, <2>1, <2>2, <3>2, SetActiveVehicleKeeps, ActivationAdds
    <3> QED BY <3>1, <3>2
  <2>4. Keeps(Current.timers, t.timers)
    <3> HIDE DEF added
    <3>1. CASE vehicles = <<>>
      <4>1. Keeps(added.timers, SetActiveVehicle(added, v).timers)
        BY <1>4, <2>1, <2>3, ActivationAdds
      <4>2. t = SetActiveVehicle(added, v)
        BY <3>1
      <4> QED BY <2>3, <4>1, <4>2 DEF Keeps
    <3>2. CASE vehicles # <<>>
      BY <2>3, <3>2
    <3> QED BY <3>1, <3>2
  <2>5. timers' = t.timers /\ Current.timers = timers
    BY <1>1 DEF Becomes, Current
  <2> HIDE DEF t
  <2> QED BY <1>4, <2>4, <2>5, DueStays DEF RemovalInv
<1>6. ListsAgree'
  <2>1. /\ DOMAIN vehicles' = 1..Len(vehicles) + 1 /\ Len(vehicles) \in Nat
        /\ DOMAIN vehicles = 1..Len(vehicles)
        /\ \A k \in 1..Len(vehicles) : vehicles'[k] = vehicles[k]
        /\ vehicles'[Len(vehicles) + 1] = v
    BY <1>1, <1>4
  <2>2. Range(vehicles') = Range(vehicles) \cup {v}
    BY <2>1 DEF Range
  <2> DEFINE born == {u \in Vehicles : phase[u] # "unborn"}
  <2>3. id \in [born -> Ids] /\ v \notin born
    BY <1>1 DEF RemovalInv, ListsAgree
  <2>4. /\ {u \in Vehicles : phase'[u] # "unborn"} = born \cup {v}
        /\ Range(vehicles) \subseteq born
    BY <1>4
  <2> HIDE DEF born
  <2>5. /\ id' \in [born \cup {v} -> Ids] /\ id'[v] = i
        /\ \A u \in born : id'[u] = id[u]
    <3>1. id' = [u \in born \cup {v} |-> IF u = v THEN i ELSE id[u]]
      BY <1>1, <2>3
    <3> QED BY <2>3, <3>1
  <2>6. \A u \in Vehicles : phase'[u] = "listed" => u \in Range(vehicles')
    BY <1>4, <2>2 DEF RemovalInv, ListsAgree
  <2>7. ASSUME NEW k \in DOMAIN vehicles', NEW l \in DOMAIN vehicles',
               id'[vehicles'[k]] = id'[vehicles'[l]]
        PROVE  k = l
    <3>1. \A m \in 1..Len(vehicles) :
            /\ vehicles[m] \in Range(vehicles)
            /\ id'[vehicles'[m]] = id[vehicles[m]] /\ id[vehicles[m]] # i
      BY <1>1, <2>1, <2>4, <2>5 DEF Range
    <3>2. \A m, n \in 1..Len(vehicles) : id[vehicles[m]] = id[vehicles[n]] => m = n
      BY <2>1 DEF RemovalInv, ListsAgree
    <3> QED BY <2>1, <2>5, <2>7, <3>1, <3>2
  <2>8. selectedVehicles' \subseteq Range(vehicles') /\ parametersReady' \subseteq Vehicles
    BY <1>1, <2>2 DEF RemovalInv, ListsAgree
  <2> QED BY <2>4, <2>5, <2>6, <2>7, <2>8 DEF ListsAgree
<1> QED BY <1>2, <1>3, <1>5, <1>6 DEF RemovalInv

\* Vehicles that are removed have their deletions due, and only they leave the list.
LEMMA RemovalIsDue ==
  ASSUME RemovalInv, NEW gone \in SUBSET Range(vehicles), RemoveVehicles(gone),
         LinksCounted', UNCHANGED <<id, parametersReady>>
  PROVE  RemovalInv'
<1>1. LifeIInv'
  BY RemovalKeeps DEF RemovalInv
<1>2. /\ vehicles \in Seq(Vehicles) /\ gone \subseteq Vehicles
      /\ phase \in [Vehicles -> Phases] /\ timers \in Seq(Timers)
      /\ \A v \in Range(vehicles) : v \in Vehicles /\ phase[v] = "listed"
  BY DEF RemovalInv, LifeIInv, ListOK, ActiveOK, Actives, Current, Range
<1>3. /\ phase' = [v \in Vehicles |-> IF v \in gone THEN "removed" ELSE phase[v]]
      /\ selectedVehicles' = selectedVehicles \ gone
  BY DEF RemoveVehicles
<1>4. Due(phase', timers')
  <2>1. PICK order \in SetToSeqs(gone) : timers' = timers \o StartedBy(order)
    BY DEF RemoveVehicles
  <2> DEFINE started == StartedBy(order)
  <2>2. /\ started \in Seq(Timers)
        /\ \A v \in gone : \E i \in DOMAIN started : started[i] = Deletion(v)
    BY <1>2, StartedByRemoval
  <2>3. timers' = timers \o started
    BY <2>1
  <2> HIDE DEF started
  <2>4. /\ Len(timers) \in Nat /\ Len(started) \in Nat
        /\ DOMAIN timers = 1..Len(timers) /\ DOMAIN started = 1..Len(started)
        /\ DOMAIN timers' = 1..Len(timers) + Len(started)
        /\ \A i \in 1..Len(timers) + Len(started) :
             timers'[i] = IF i <= Len(timers) THEN timers[i] ELSE started[i - Len(timers)]
    BY <1>2, <2>2, <2>3, ConcatProperties
  <2>5. ASSUME NEW i \in DOMAIN started
        PROVE  \E j \in DOMAIN timers' : timers'[j] = started[i]
    <3>1. /\ Len(timers) + i \in 1..Len(timers) + Len(started)
          /\ ~(Len(timers) + i <= Len(timers)) /\ Len(timers) + i - Len(timers) = i
      BY <2>4
    <3> QED BY <2>4, <3>1
  <2>6. Keeps(timers, timers')
    BY <2>4 DEF Keeps
  <2> SUFFICES ASSUME NEW v \in Vehicles, phase'[v] = "removed"
               PROVE  \E j \in DOMAIN timers' : timers'[j] = Deletion(v)
    BY DEF Due
  <2>7. CASE v \in gone
    BY <2>2, <2>5, <2>7
  <2>8. CASE v \notin gone
    <3>1. phase[v] = "removed"
      BY <1>3, <2>8
    <3>2. PICK i \in DOMAIN timers : timers[i] = Deletion(v)
      BY <3>1 DEF RemovalInv, Due
    <3> QED BY <2>6, <3>2 DEF Keeps
  <2> QED BY <2>7, <2>8
<1>5. ListsAgree'
  <2>1. PICK rest \in SetToSeqs(Range(vehicles) \ gone) : vehicles' = rest
    BY DEF RemoveVehicles
  <2>2. Range(vehicles) \ gone \subseteq Vehicles
    BY <1>2
  <2>3. /\ Range(vehicles') = Range(vehicles) \ gone
        /\ \A i, j \in DOMAIN vehicles' : i # j => vehicles'[i] # vehicles'[j]
    BY <2>1, <2>2, SequenceOfSet
  <2>4. id' \in [{v \in Vehicles : phase'[v] # "unborn"} -> Ids]
    <3>1. \A v \in Vehicles : phase'[v] # "unborn" <=> phase[v] # "unborn"
      BY <1>2, <1>3
    <3> QED BY <3>1 DEF RemovalInv, ListsAgree
  <2>5. \A v \in Vehicles : phase'[v] = "listed" => v \in Range(vehicles')
    BY <1>3, <2>3 DEF RemovalInv, ListsAgree
  <2>6. ASSUME NEW i \in DOMAIN vehicles', NEW j \in DOMAIN vehicles',
               id'[vehicles'[i]] = id'[vehicles'[j]]
        PROVE  i = j
    <3>1. vehicles'[i] \in Range(vehicles) /\ vehicles'[j] \in Range(vehicles)
      BY <2>3 DEF Range
    <3>2. PICK k \in DOMAIN vehicles, l \in DOMAIN vehicles :
            vehicles[k] = vehicles'[i] /\ vehicles[l] = vehicles'[j]
      BY <3>1 DEF Range
    <3>3. k = l
      BY <2>6, <3>2 DEF RemovalInv, ListsAgree
    <3> QED BY <2>3, <3>2, <3>3
  <2>7. selectedVehicles' \subseteq Range(vehicles') /\ parametersReady' \subseteq Vehicles
    BY <1>3, <2>3 DEF RemovalInv, ListsAgree
  <2> QED BY <2>4, <2>5, <2>6, <2>7 DEF ListsAgree
<1> QED BY <1>1, <1>4, <1>5 DEF RemovalInv

\* A deletion runs when it is its turn, and then no longer is due.
LEMMA SecondPhaseIsDue == RemovalInv /\ SecondPhase => RemovalInv'
<1> SUFFICES ASSUME RemovalInv, SecondPhase PROVE RemovalInv'
  OBVIOUS
<1> DEFINE s == [Current EXCEPT !.timers = Tail(@)]
           head == Head(timers)
           first == IF vehicles = <<>> THEN NoVehicle ELSE Head(vehicles)
<1>1. LifeIInv'
  BY SecondPhaseKeeps DEF RemovalInv
<1>2. /\ timers # <<>>
      /\ UNCHANGED <<linkVars, id, vehicles, selectedVehicles, parametersReady, selection>>
  BY DEF SecondPhase
<1>3. /\ ActiveOK(phase, s) /\ s.timers = Tail(timers)
      /\ Alive(phase, head.vehicle) /\ head \in Timers
      /\ head.phase2 = "delete" => phase[head.vehicle] = "removed"
  BY <1>2, FirstIsOff DEF RemovalInv
<1>4. /\ timers \in Seq(Timers) /\ phase \in [Vehicles -> Phases]
      /\ selection \in MaybeVehicle /\ (selection # NoVehicle => phase[selection] = "listed")
      /\ vehicles \in Seq(Vehicles)
      /\ \A v \in Range(vehicles) : phase[v] = "listed"
  BY DEF RemovalInv, LifeIInv, ListOK, ActiveOK, Actives, Current
<1>5. first \in MaybeVehicle
  BY <1>4 DEF MaybeVehicle
<1>6. ASSUME NEW v \in MaybeVehicle
      PROVE  Keeps(s.timers, MakeAvailable(ChangeActive(s, v)).timers)
  <2> DEFINE changed == [s EXCEPT !.active = v]
             c == ChangeActive(s, v)
  <2>1. s \in Actives
    BY <1>3 DEF ActiveOK
  <2> HIDE DEF s
  <2>2. s.timers \in Seq(Timers) /\ Activation(selection) \in Timers
    BY <1>4, <2>1 DEF Actives, Activation, Timers
  <2>3. changed \in Actives /\ changed.timers = s.timers
    BY <2>1 DEF Actives
  <2>4. \A t \in Actives : SetActiveVehicle(t, selection).timers
                             \in {t.timers, Append(t.timers, Activation(selection))}
    BY DEF SetActiveVehicle, Actives
  <2>5. c.timers \in {s.timers, Append(s.timers, Activation(selection))}
    <3> HIDE DEF changed
    <3>1. c = s \/ c = SetActiveVehicle(changed, selection)
      BY DEF ChangeActive, changed
    <3> QED BY <2>3, <2>4, <3>1
  <2>6. Keeps(s.timers, Append(s.timers, Activation(selection)))
    BY <2>2, Appended DEF Keeps
  <2>7. c \in Actives
    <3> HIDE DEF changed
    <3>1. c = s \/ c = SetActiveVehicle(changed, selection)
      BY DEF ChangeActive, changed
    <3>2. ASSUME NEW t \in Actives PROVE SetActiveVehicle(t, selection) \in Actives
      <4> DEFINE longer == Append(t.timers, Activation(selection))
      <4>1. longer \in Seq(Timers)
        BY <2>2 DEF Actives
      <4>2. SetActiveVehicle(t, selection) =
              IF selection = t.active THEN t
              ELSE [t EXCEPT !.available = @ /\ t.active = NoVehicle,
                             !.ready = @ /\ t.active = NoVehicle,
                             !.timers = longer]
        BY DEF SetActiveVehicle
      <4> HIDE DEF longer
      <4> QED BY <4>1, <4>2 DEF Actives
    <3> QED BY <2>1, <2>3, <3>1, <3>2
  <2> HIDE DEF c
  <2>8. MakeAvailable(c).timers = c.timers
    BY <2>7 DEF MakeAvailable, Actives
  <2> QED BY <2>5, <2>6, <2>8 DEF Keeps, c
<1>7. Keeps(s.timers, timers')
  <2>1. CASE head.phase2 = "activate"
             /\ Becomes(MakeAvailable(ChangeActive(s, head.vehicle)))
    <3>1. head.vehicle \in MaybeVehicle
      BY <1>3 DEF Timers
    <3>2. timers' = MakeAvailable(ChangeActive(s, head.vehicle)).timers
      BY <2>1 DEF Becomes
    <3> QED BY <1>6, <3>1, <3>2
  <2>2. CASE DeletePhase2(head.vehicle)
    <3>1. timers' = MakeAvailable(ChangeActive(s, first)).timers
      BY <2>2 DEF Becomes, DeletePhase2
    <3> QED BY <1>5, <1>6, <3>1
  <2> QED BY <2>1, <2>2 DEF SecondPhase
<1>8. \/ head.phase2 = "activate" /\ phase' = phase
      \/ /\ head.phase2 = "delete" /\ phase[head.vehicle] = "removed"
         /\ phase' = [phase EXCEPT ![head.vehicle] = "doomed"]
  BY <1>3 DEF SecondPhase, DeletePhase2
<1>9. \A v \in Vehicles :
        /\ phase'[v] = "removed" => phase[v] = "removed" /\ head # Deletion(v)
        /\ phase'[v] = "listed" => phase[v] = "listed"
        /\ phase'[v] # "unborn" <=> phase[v] # "unborn"
  <2>1. \A v : Deletion(v).phase2 = "delete" /\ Deletion(v).vehicle = v
    BY DEF Deletion
  <2> HIDE DEF head
  <2> QED BY <1>4, <1>8, <2>1
<1>10. Due(phase', timers')
  <2> SUFFICES ASSUME NEW v \in Vehicles, phase'[v] = "removed"
               PROVE  \E j \in DOMAIN timers' : timers'[j] = Deletion(v)
    BY DEF Due
  <2>1. PICK i \in DOMAIN timers : timers[i] = Deletion(v)
    BY <1>9 DEF RemovalInv, Due
  <2>2. i # 1
    BY <1>9, <2>1
  <2> DEFINE rest == Tail(timers)
  <2>3. i - 1 \in DOMAIN rest /\ rest[i - 1] = timers[i]
    BY <1>2, <1>4, <2>2
  <2> HIDE DEF rest
  <2> QED BY <1>3, <1>7, <2>1, <2>3 DEF Keeps, rest
<1>11. LinksCounted'
  BY <1>2 DEF RemovalInv, LinksCounted, linkVars, On
<1>12. ListsAgree'
  <2>1. {v \in Vehicles : phase'[v] # "unborn"} = {v \in Vehicles : phase[v] # "unborn"}
    BY <1>9
  <2> QED BY <1>2, <1>9, <2>1 DEF RemovalInv, ListsAgree
<1> QED BY <1>1, <1>10, <1>11, <1>12 DEF RemovalInv

\* An object is destroyed.
LEMMA DestroyRemovesNone ==
  ASSUME RemovalInv, NEW v \in Vehicles, Destroy(v)
  PROVE  RemovalInv'
<1>1. LifeIInv' /\ LinksCounted'
  BY DestroyKeeps, LinkEventCounted DEF RemovalInv
<1>2. /\ phase[v] = "doomed" /\ phase' = [phase EXCEPT ![v] = "dead"]
      /\ UNCHANGED <<id, vehicles, selectedVehicles, parametersReady, timers>>
  BY DEF Destroy, activeVars
<1>3. phase \in [Vehicles -> Phases]
  BY DEF RemovalInv, LifeIInv, ListOK
<1>4. \A u \in Vehicles :
        /\ phase'[u] = "removed" => phase[u] = "removed"
        /\ phase'[u] = "listed" => phase[u] = "listed"
        /\ phase'[u] # "unborn" <=> phase[u] # "unborn"
  BY <1>2, <1>3
<1>5. Due(phase', timers')
  BY <1>2, <1>4 DEF RemovalInv, Due
<1>6. {u \in Vehicles : phase'[u] # "unborn"} = {u \in Vehicles : phase[u] # "unborn"}
  BY <1>4
<1>7. ListsAgree'
  BY <1>2, <1>4, <1>6 DEF RemovalInv, ListsAgree
<1> QED BY <1>1, <1>5, <1>7 DEF RemovalInv

\* Every step of vehicles that come and go.
LEMMA RemovalNext == RemovalInv /\ [LifeNext]_allVars => RemovalInv'
<1> SUFFICES ASSUME RemovalInv, [LifeNext]_allVars PROVE RemovalInv'
  OBVIOUS
<1>1. LifeIInv'
  BY LifeNextKeeps DEF RemovalInv
<1>2. ASSUME NEW v \in Vehicles, LinkEvent(v) PROVE RemovalInv'
  <2>1. LinksCounted'
    BY <1>2, LinkEventCounted DEF RemovalInv
  <2>2. /\ RemoveVehicles(removed' \cap Range(vehicles))
        /\ UNCHANGED <<id, parametersReady>>
    BY <1>2 DEF LinkEvent, WithSlots, DeletePhase1
  <2> QED BY <2>1, <2>2, RemovalIsDue
<1>3. ASSUME NEW link \in Links,
             \/ WithSlots(LinkDisconnected(link))
             \/ WithSlots(CreateConnectedLink(link))
      PROVE  RemovalInv'
  <2>1. LinksCounted'
    BY <1>3, DisconnectedCounted, CreatedCounted DEF RemovalInv, WithSlots
  <2>2. /\ RemoveVehicles(removed' \cap Range(vehicles))
        /\ UNCHANGED <<id, parametersReady>>
    BY <1>3 DEF WithSlots, DeletePhase1
  <2> QED BY <2>1, <2>2, RemovalIsDue
<1>4. ASSUME NEW v \in Vehicles, NEW link \in Links, MessageOfVehicle(v, link)
      PROVE  RemovalInv'
  <2>1. MessageReceived(Hearers(id[v]), link) /\ UNCHANGED <<activeVars, listVars>>
    BY <1>4 DEF MessageOfVehicle
  <2>2. Hearers(id[v]) \in SUBSET Vehicles
    BY DEF Hearers
  <2>3. LinksCounted'
    BY <2>1, <2>2, MessageCounted DEF RemovalInv
  <2> QED BY <1>1, <2>1, <2>3 DEF RemovalInv, ListsAgree, Due, activeVars, listVars
<1>5. ASSUME NEW v \in Vehicles, ToggleSelected(v) PROVE RemovalInv'
  <2>1. /\ v \in Range(vehicles) /\ selectedVehicles' \subseteq selectedVehicles \cup {v}
        /\ UNCHANGED <<linkVars, phase, id, vehicles, parametersReady, timers>>
    BY <1>5 DEF ToggleSelected, activeVars
  <2> QED BY <1>1, <2>1 DEF RemovalInv, ListsAgree, Due, LinksCounted, linkVars, On
<1>6. ASSUME NEW v \in Vehicles, ParametersReadyChanged(v) PROVE RemovalInv'
  <2>1. /\ parametersReady' \subseteq parametersReady \cup {v}
        /\ UNCHANGED <<linkVars, phase, id, vehicles, selectedVehicles, timers>>
    BY <1>6 DEF ParametersReadyChanged
  <2> QED BY <1>1, <2>1 DEF RemovalInv, ListsAgree, Due, LinksCounted, linkVars, On
<1>7. CASE UNCHANGED allVars
  BY <1>1, <1>7 DEF RemovalInv, ListsAgree, Due, LinksCounted, On,
     allVars, linkVars, activeVars, listVars
<1>8. ASSUME NEW v \in Vehicles,
             \/ \E link \in Links :
                  \/ \E i \in Ids : HeartbeatOfUnknown(v, i, link)
                  \/ MessageOfVehicle(v, link)
             \/ Exists(v) /\ LinkEvent(v)
             \/ Destroy(v)
             \/ ChooseActive(v)
             \/ SelectInFlyView(v)
             \/ ToggleSelected(v)
             \/ ParametersReadyChanged(v)
      PROVE  RemovalInv'
  <2>1. v \in MaybeVehicle
    BY DEF MaybeVehicle
  <2> QED BY <1>2, <1>4, <1>5, <1>6, <1>8, <2>1,
             HeartbeatRemovesNone, DestroyRemovesNone, UserRemovesNone
<1>9. CASE SelectInFlyView(NoVehicle)
  BY <1>9, UserRemovesNone DEF MaybeVehicle
<1> QED BY <1>3, <1>7, <1>8, <1>9, SecondPhaseIsDue DEF LifeNext

\* No vehicle yet.
LEMMA RemovalInitially == LifeInit => RemovalInv
<1> SUFFICES ASSUME LifeInit PROVE RemovalInv
  OBVIOUS
<1>1. LifeIInv /\ LinksCounted
  BY LifeInitially, LinksInitially DEF LifeInit
<1>2. \A v \in Vehicles : phase[v] = "unborn"
  BY DEF LifeInit
<1>3. Due(phase, timers)
  BY <1>2 DEF Due
<1>4. id \in [{v \in Vehicles : phase[v] # "unborn"} -> Ids]
  <2> DEFINE born == {v \in Vehicles : phase[v] # "unborn"}
             none == <<>>
  <2>1. born = {}
    BY <1>2
  <2>2. none = [v \in {} |-> v]
    OBVIOUS
  <2>3. id = none
    BY DEF LifeInit
  <2> HIDE DEF born, none
  <2>4. id \in [born -> Ids]
    BY <2>1, <2>2, <2>3
  <2> QED BY <2>4 DEF born
<1>5. ListsAgree
  BY <1>2, <1>4 DEF LifeInit, ListsAgree, Range
<1> QED BY <1>1, <1>3, <1>5 DEF RemovalInv

\* What is due of one vehicle can be counted.
LEMMA OneDeletion ==
  ASSUME RemovalInv, NEW v \in Vehicles
  PROVE  Cardinality({i \in DOMAIN timers : timers[i] = Deletion(v)})
           = IF phase[v] = "removed" THEN 1 ELSE 0
<1> DEFINE S == {i \in DOMAIN timers : timers[i] = Deletion(v)}
<1>1. /\ timers \in Seq(Timers) /\ TimersOK(phase, timers)
  BY DEF RemovalInv, LifeIInv, ActiveOK, Actives, Current
<1>2. Deletion(v).phase2 = "delete" /\ Deletion(v).vehicle = v
  BY DEF Deletion
<1>3. \A i \in S : phase[v] = "removed"
  BY <1>1, <1>2 DEF TimersOK
<1>4. ASSUME NEW i \in S, NEW j \in S PROVE i = j
  <2>1. i \in Nat /\ j \in Nat
    BY <1>1
  <2>2. ~(i < j) /\ ~(j < i)
    BY <1>1, <1>2 DEF TimersOK
  <2> QED BY <2>1, <2>2
<1>5. CASE phase[v] = "removed"
  <2>1. PICK i \in DOMAIN timers : timers[i] = Deletion(v)
    BY <1>5 DEF RemovalInv, Due
  <2>2. S = {i}
    BY <1>4, <2>1
  <2> HIDE DEF S
  <2>3. Cardinality(S) = 1
    BY <2>2, FS_Singleton
  <2> QED BY <1>5, <2>3 DEF S
<1>6. CASE phase[v] # "removed"
  <2>1. S = {}
    BY <1>3, <1>6
  <2> HIDE DEF S
  <2>2. Cardinality(S) = 0
    BY <2>1, FS_EmptySet
  <2> QED BY <1>6, <2>2 DEF S
<1> QED BY <1>5, <1>6

\* The invariant says what RemovedOnce says.
LEMMA InvariantIsRemovedOnce == RemovalInv /\ NoOtherLeaks => RemovedOnce
<1> SUFFICES ASSUME RemovalInv, NoOtherLeaks PROVE RemovedOnce
  OBVIOUS
<1>1. TypeOK
  BY DEF RemovalInv, LinksCounted, TypeOK
<1>2. /\ phase \in [Vehicles -> Phases] /\ vehicles \in Seq(Vehicles)
      /\ selection \in MaybeVehicle
      /\ \A v \in Range(vehicles) : v \in Vehicles /\ phase[v] = "listed"
      /\ selection # NoVehicle => phase[selection] = "listed"
  BY DEF RemovalInv, LifeIInv, ListOK, Range
<1>3. /\ activeVehicle \in MaybeVehicle /\ activeVehicleAvailable \in BOOLEAN
      /\ parameterReadyVehicleAvailable \in BOOLEAN /\ timers \in Seq(Timers)
  BY DEF RemovalInv, LifeIInv, ActiveOK, Actives, Current
<1>4. /\ id \in [{v \in Vehicles : phase[v] # "unborn"} -> Ids]
      /\ \A v \in Vehicles : phase[v] = "listed" => v \in Range(vehicles)
      /\ \A i, j \in DOMAIN vehicles : id[vehicles[i]] = id[vehicles[j]] => i = j
      /\ selectedVehicles \subseteq Range(vehicles)
      /\ parametersReady \subseteq Vehicles
  BY DEF RemovalInv, ListsAgree
<1>5. timers \in Seq([phase2 : {"activate", "delete"}, vehicle : Vehicles \cup {NoVehicle}])
  BY <1>3 DEF Timers, MaybeVehicle
<1>6. LifeTypeOK
  BY <1>1, <1>2, <1>3, <1>4, <1>5 DEF LifeTypeOK, MaybeVehicle, NoOtherLeaks
<1>7. selection \in Range(vehicles) \cup {NoVehicle}
  BY <1>2, <1>4 DEF MaybeVehicle
<1>8. \A v \in Vehicles : phase[v] = "listed" <=> v \in Range(vehicles)
  BY <1>2, <1>4
<1> QED BY <1>4, <1>6, <1>7, <1>8, OneDeletion DEF RemovedOnce

-----------------------------------------------------------------------------
(* Links that several vehicles share.                                      *)

\* A link whose count reaches 0 while it is open is disconnected, whatever the vehicles on
\* it go through.
LEMMA LifeNextCounts ==
  ASSUME RemovalInv, [LifeNext]_allVars
  PROVE  CountRule
<1>1. /\ references \in [Links -> Nat]
      /\ open \subseteq Links
      /\ closing \subseteq open
  BY DEF RemovalInv, LinksCounted
<1>2. ASSUME NEW v \in Vehicles, Close(v) PROVE CountRule
  BY <1>1, <1>2, CloseCounts
<1>3. ASSUME NEW hearers \in SUBSET Vehicles, NEW link \in Links,
             MessageReceived(hearers, link)
      PROVE  CountRule
  BY <1>1, <1>3, MessageCounts
<1>4. CASE UNCHANGED <<closing, references>>
  BY <1>4 DEF CountRule
<1>5. ASSUME NEW v \in Vehicles, NEW link \in Links,
             (\E i \in Ids : HeartbeatOfUnknown(v, i, link)) \/ MessageOfVehicle(v, link)
      PROVE  CountRule
  <2>1. {v} \cup Hearers(id[v]) \in SUBSET Vehicles
        /\ \A i : {v} \cup Hearers(i) \in SUBSET Vehicles
        /\ Hearers(id[v]) \in SUBSET Vehicles
    BY DEF Hearers
  <2> QED BY <1>3, <1>5, <2>1 DEF HeartbeatOfUnknown, MessageOfVehicle
<1>6. ASSUME NEW v \in Vehicles, LinkEvent(v) PROVE CountRule
  <2>1. Close(v) \/ UNCHANGED <<closing, references>>
    BY <1>6 DEF LinkEvent, WithSlots, CommLostCheck, CloseVehicle, HeartbeatElapsed
  <2> QED BY <1>2, <1>4, <2>1
<1>7. ASSUME NEW link \in Links, WithSlots(LinkDisconnected(link)) PROVE CountRule
  <2>1. /\ open' = open \ {link} /\ closing' \subseteq closing
        /\ \A other \in Links : other # link => references'[other] = references[other]
    BY <1>1, <1>7 DEF WithSlots, LinkDisconnected
  <2> QED BY <1>1, <2>1 DEF CountRule
<1>8. ASSUME NEW link \in Links, WithSlots(CreateConnectedLink(link)) PROVE CountRule
  <2>1. /\ link \notin open /\ closing' = closing
        /\ \A other \in Links : other # link => references'[other] = references[other]
    BY <1>1, <1>8 DEF WithSlots, CreateConnectedLink
  <2> QED BY <1>1, <2>1 DEF CountRule
<1>9. ASSUME NEW v,
             \/ Destroy(v) \/ ChooseActive(v) \/ SelectInFlyView(v)
             \/ ToggleSelected(v) \/ ParametersReadyChanged(v) \/ SecondPhase
             \/ UNCHANGED allVars
      PROVE  CountRule
  <2>1. UNCHANGED <<closing, references>>
    BY <1>9 DEF Destroy, ChooseActive, SelectInFlyView, ToggleSelected,
         ParametersReadyChanged, SecondPhase, allVars, linkVars
  <2> QED BY <1>4, <2>1
<1> QED BY <1>5, <1>6, <1>7, <1>8, <1>9 DEF LifeNext

\* Only the destruction of an object that lists a link leaves a reference behind.
LEMMA LeaksAreKnown ==
  ASSUME RemovalInv, NoOtherLeaks, [LifeNext]_allVars
  PROVE  NoOtherLeaks'
<1>1. ASSUME Balanced, leaked' = leaked \cap open' PROVE NoOtherLeaks'
  BY <1>1 DEF Balanced, NoOtherLeaks
<1>2. ASSUME NEW v \in Vehicles, LinkEvent(v) PROVE NoOtherLeaks'
  <2>1. Balanced
    BY <1>2, LinkEventCounted DEF RemovalInv
  <2>2. leaked' = leaked \cap open'
    BY <1>2 DEF LinkEvent, WithSlots
  <2> QED BY <1>1, <2>1, <2>2
<1>3. ASSUME NEW link \in Links,
             \/ WithSlots(LinkDisconnected(link))
             \/ WithSlots(CreateConnectedLink(link))
      PROVE  NoOtherLeaks'
  BY <1>1, <1>3, DisconnectedCounted, CreatedCounted DEF RemovalInv, WithSlots
<1>4. ASSUME NEW hearers \in SUBSET Vehicles, NEW link \in Links,
             MessageReceived(hearers, link), UNCHANGED leaked
      PROVE  NoOtherLeaks'
  <2>1. Balanced /\ open' = open
    BY <1>4, MessageCounted DEF RemovalInv, MessageReceived
  <2> QED BY <1>1, <1>4, <2>1 DEF NoOtherLeaks
<1>5. ASSUME NEW v \in Vehicles, NEW link \in Links,
             (\E i \in Ids : HeartbeatOfUnknown(v, i, link)) \/ MessageOfVehicle(v, link)
      PROVE  NoOtherLeaks'
  <2>1. /\ \A i : {v} \cup Hearers(i) \in SUBSET Vehicles
        /\ Hearers(id[v]) \in SUBSET Vehicles
    BY DEF Hearers
  <2> QED BY <1>4, <1>5, <2>1 DEF HeartbeatOfUnknown, MessageOfVehicle
<1>6. ASSUME NEW v \in Vehicles, Destroy(v) PROVE NoOtherLeaks'
  <2>1. /\ manager' = [manager EXCEPT ![v] = NewManager]
        /\ leaked' = leaked \cup Listed(manager[v])
        /\ UNCHANGED <<open, references>>
    BY <1>6 DEF Destroy
  <2>2. \A link \in Links \ Listed(manager[v]) : On(link)' = On(link)
    BY <2>1, NewManagerIsGood, OthersStayListed DEF RemovalInv
  <2>3. Listed(manager[v]) \subseteq open /\ open \subseteq Links
    BY DEF RemovalInv, LinksCounted
  <2> QED BY <2>1, <2>2, <2>3 DEF NoOtherLeaks
<1>7. CASE UNCHANGED linkVars
  BY <1>7 DEF linkVars, NoOtherLeaks, On
<1>8. ASSUME NEW v,
             \/ ChooseActive(v) \/ SelectInFlyView(v) \/ ToggleSelected(v)
             \/ ParametersReadyChanged(v) \/ SecondPhase \/ UNCHANGED allVars
      PROVE  UNCHANGED linkVars
  BY <1>8 DEF ChooseActive, SelectInFlyView, ToggleSelected,
     ParametersReadyChanged, SecondPhase, allVars
<1> QED BY <1>2, <1>3, <1>5, <1>6, <1>7, <1>8 DEF LifeNext

\* What becomes of a link when a step takes the last vehicle off it.
LEMMA LastOneLeaves ==
  ASSUME RemovalInv, RemovalInv', NoOtherLeaks, NoOtherLeaks', [LifeNext]_allVars,
         NEW link \in open \cap open'
  PROVE  /\ On(link) # {} /\ On(link)' = {} => link \in closing' \cup leaked'
         /\ link \in closing' \ closing => On(link)' = {}
<1>1. /\ link \in Links
      /\ references[link] \in Nat /\ references'[link] \in Nat
      /\ references[link] >= Cardinality(On(link))
      /\ references'[link] >= Cardinality(On(link)')
  BY DEF RemovalInv, LinksCounted
<1>2. /\ Cardinality(On(link)) = 0 <=> On(link) = {}
      /\ Cardinality(On(link)') = 0 <=> On(link)' = {}
      /\ Cardinality(On(link)) \in Nat /\ Cardinality(On(link)') \in Nat
  BY OnIsCounted, FS_EmptySet
<1>3. link \notin leaked' => references'[link] = Cardinality(On(link)')
  BY DEF NoOtherLeaks
<1>4. /\ references[link] > 0 /\ references'[link] = 0 => link \in closing'
      /\ link \in closing' \ closing => references'[link] = 0
  BY LifeNextCounts DEF CountRule
<1> QED BY <1>1, <1>2, <1>3, <1>4

-----------------------------------------------------------------------------
(* Theorems.                                                               *)

\* The invariant the others follow from.
THEOREM LifeInvariance == LifeSpec => []LifeIInv
BY LifeInitially, LifeNextKeeps, PTL DEF LifeSpec

\* The active vehicle is never one that has been destroyed, nor does a pending
\* second phase hold one (_deleteVehiclePhase2, setActiveVehicle).
THEOREM ActiveVehicleExistsHolds == LifeSpec => []ActiveVehicleExists
<1>1. LifeIInv => ActiveVehicleExists
  BY DEF LifeIInv, ActiveOK, Current, Alive, TimersOK, ActiveVehicleExists
<1> QED BY <1>1, LifeInvariance, PTL

\* Once every second phase has run, the vehicle selected in the fly view is
\* active and announced (_setActiveVehiclePhase2, CustomFlyView.qml).
THEOREM SettlesOnSelectionHolds == LifeSpec => []SettlesOnSelection
<1>1. LifeIInv => SettlesOnSelection
  <2> SUFFICES ASSUME LifeIInv, timers = <<>>
               PROVE  /\ activeVehicle = selection
                      /\ activeVehicle # NoVehicle => activeVehicleAvailable
    BY DEF SettlesOnSelection
  <2> QED BY DEF LifeIInv, Settles, Current
<1> QED BY <1>1, LifeInvariance, PTL

\* The invariant of deletions, with the link managers'.
THEOREM RemovalInvariance == LifeSpec => []RemovalInv
BY RemovalInitially, RemovalNext, PTL DEF LifeSpec

\* The counts of links, but for the references of vehicles destroyed with them.
THEOREM LeakInvariance == LifeSpec => [](RemovalInv /\ NoOtherLeaks)
<1>1. LifeInit => RemovalInv /\ NoOtherLeaks
  <2> SUFFICES ASSUME LifeInit PROVE NoOtherLeaks
    BY RemovalInitially
  <2> QED BY DEF LifeInit, Init, NoOtherLeaks
<1>2. RemovalInv /\ NoOtherLeaks /\ [LifeNext]_allVars => (RemovalInv /\ NoOtherLeaks)'
  BY RemovalNext, LeaksAreKnown
<1> QED BY <1>1, <1>2, PTL DEF LifeSpec

\* A vehicle has one listed object, and one that is removed is deleted exactly once however
\* often and by whatever links allLinksRemoved is signalled (_deleteVehiclePhase1).
THEOREM RemovedOnceHolds == LifeSpec => []RemovedOnce
BY LeakInvariance, InvariantIsRemovedOnce, PTL

\* A shared link is disconnected with the last object that lists it, and not before, while
\* vehicles come, go and hear messages after their removal - unless an object was destroyed
\* with the link on its list, whose reference stays (LinkInterface::removeVehicleReference).
THEOREM LinkGoesWithLastVehicleHolds == LifeSpec => LinkGoesWithLastVehicle
<1>1. /\ RemovalInv /\ NoOtherLeaks /\ (RemovalInv /\ NoOtherLeaks)'
      /\ [LifeNext]_allVars
      => [\A link \in open \cap open' :
            /\ On(link) # {} /\ On(link)' = {} => link \in closing' \cup leaked'
            /\ link \in closing' \ closing => On(link)' = {}]_allVars
  BY LastOneLeaves
<1> QED BY <1>1, LeakInvariance, PTL DEF LifeSpec, LinkGoesWithLastVehicle
=============================================================================
