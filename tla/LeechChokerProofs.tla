-------------------------- MODULE LeechChokerProofs --------------------------
(***************************************************************************)
(* Proofs about LeechChoker, for any number of peers and slots.            *)
(***************************************************************************)
EXTENDS LeechChoker, SequenceTheorems, FiniteSetTheorems, TLAPS

-----------------------------------------------------------------------------
(* Lemmas about the operators of select().                                  *)

\* The sorted, filtered vector is a sequence of peers.
LEMMA OrderType ==
    ASSUME NEW S \in SUBSET Peers, NEW s \in SetToSeqs(S)
    PROVE  s \in Seq(Peers) /\ ToSet(s) \subseteq S
<1>1. S \in SUBSET Peers /\ IsFiniteSet(S)
  BY ChokerAssumption, FS_Subset
<1>2. Cardinality(S) \in Nat
  BY <1>1, FS_CardinalityType
<1>3. s \in [1 .. Cardinality(S) -> S]
  BY DEF SetToSeqs
<1> QED
  BY <1>1, <1>2, <1>3 DEF ToSet

\* The optimistic unchoke takes at most one slot.
LEMMA OptimisticType ==
    ASSUME NEW s \in Seq(Peers), NEW c \in Optimistic(s)
    PROVE  c \in Seq(Peers) /\ Len(c) \in 0 .. 1
<1>1. CASE c = <<>>
  BY <1>1
<1>2. CASE c # <<>>
  <2>1. PICK i \in DOMAIN s : c = <<s[i]>>
    BY <1>2 DEF Optimistic
  <2>2. s[i] \in Peers
    BY <2>1, ElementOfSeq
  <2> QED
    BY <2>1, <2>2
<1> QED
  BY <1>1, <1>2

\* The lesser of two numbers.
LEMMA LesserBound ==
    ASSUME NEW m \in Nat, NEW n \in Nat
    PROVE  Lesser(m, n) \in 0 .. m /\ Lesser(m, n) <= n
<1> QED
  BY DEF Lesser

\* The regular slots fill what the optimistic unchoke leaves, no more.
LEMMA SelectionType ==
    ASSUME NEW s \in Seq(Peers), NEW c \in Optimistic(s)
    PROVE  /\ c \o Regular(s, c) \in Seq(Peers)
           /\ Len(c \o Regular(s, c)) <= ActiveSize
<1>1. c \in Seq(Peers) /\ Len(c) \in 0 .. 1
  BY OptimisticType
<1>2. Len(s) \in Nat /\ ActiveSize \in Nat \ {0}
  BY LenProperties, ChokerAssumption
<1> DEFINE k == Lesser(Len(s), ActiveSize - Len(c))
<1>3. k \in 0 .. Len(s) /\ k <= ActiveSize - Len(c)
  <2>1. ActiveSize - Len(c) \in Nat
    <3> DEFINE l == Len(c)
    <3>1. l \in 0 .. 1
      BY <1>1
    <3> HIDE DEF l
    <3>2. ActiveSize - l \in Nat
      BY <1>2, <3>1
    <3> QED
      BY <3>2 DEF l
  <2> QED
    BY <1>2, <2>1, LesserBound
<1>4. SubSeq(s, 1, k) \in Seq(Peers) /\ Len(SubSeq(s, 1, k)) = k
  BY <1>2, <1>3, SubSeqProperties
<1>5. Regular(s, c) = SubSeq(s, 1, k)
  BY DEF Regular
<1> HIDE DEF k
<1>6. /\ c \o SubSeq(s, 1, k) \in Seq(Peers)
      /\ Len(c \o SubSeq(s, 1, k)) = Len(c) + k
  BY <1>1, <1>4, ConcatProperties
<1> QED
  BY <1>1, <1>2, <1>3, <1>5, <1>6

-----------------------------------------------------------------------------
(* Type correctness.                                                        *)

\* Every variable of the choker keeps its type.
THEOREM TypeCorrect == Spec => []TypeOK
<1>1. Init => TypeOK
  <2>1. <<>> \in Seq(Peers)
    BY EmptySeq
  <2> QED
    <3> SUFFICES ASSUME Init PROVE TypeOK
      OBVIOUS
    <3>1. peers \in SUBSET Peers /\ wanted \in SUBSET Peers
      BY DEF Init
    <3>2. active \in Seq(Peers) /\ result \in Seq(Peers)
      BY <2>1 DEF Init
    <3>3. interested \in [Peers -> BOOLEAN] /\ choked \in [Peers -> BOOLEAN]
      BY DEF Init
    <3>4. iteration \in 0 .. 2 /\ next \in Nat \ {0}
      BY DEF Init
    <3>5. armed \in BOOLEAN /\ crashed \in BOOLEAN
      BY DEF Init
    <3>6. pc \in {"idle", "ordering", "choking", "unchoking"}
      BY DEF Init
    <3> QED
      BY <3>1, <3>2, <3>3, <3>4, <3>5, <3>6 DEF TypeOK
<1>2. TypeOK /\ [Next]_vars => TypeOK'
  <2> SUFFICES ASSUME TypeOK, [Next]_vars PROVE TypeOK'
    OBVIOUS
  <2> USE DEF TypeOK
  <2>1. ASSUME NEW p \in Peers, SetInterested(p) PROVE TypeOK'
    BY <2>1 DEF SetInterested
  <2>2. ASSUME NEW p \in Peers, AddPeer(p) PROVE TypeOK'
    BY <2>2 DEF AddPeer, ChangePeers
  <2>3. ASSUME NEW p \in Peers, RemovePeer(p) PROVE TypeOK'
    BY <2>3 DEF RemovePeer, ChangePeers
  <2>4. CASE Stop
    BY <2>4 DEF Stop
  <2>5. CASE TimerFires
    <3>1. (iteration + 1) % 3 \in 0 .. 2
      OBVIOUS
    <3> QED
      BY <2>5, <3>1 DEF TimerFires, NextIteration
  <2>6. CASE Collect
    <3>1. Candidates \in SUBSET Peers
      BY DEF Candidates
    <3>2. PICK s \in SetToSeqs(Candidates) :
            \E c \in Optimistic(s) : result' = c \o Regular(s, c)
      BY <2>6 DEF Collect
    <3>3. s \in Seq(Peers)
      BY <3>1, <3>2, OrderType
    <3>4. result' \in Seq(Peers)
      BY <3>2, <3>3, SelectionType
    <3>5. wanted' \in SUBSET Peers
      BY <2>6 DEF Collect
    <3> QED
      BY <2>6, <3>4, <3>5 DEF Collect
  <2>7. CASE ChokeOne
    BY <2>7 DEF ChokeOne
  <2>8. CASE Activate
    BY <2>8 DEF Activate
  <2>9. CASE UnchokeOne
    BY <2>9 DEF UnchokeOne
  <2>10. CASE Rearm
    BY <2>10 DEF Rearm
  <2>11. CASE UNCHANGED vars
    BY <2>11 DEF vars
  <2> QED
    BY <2>1, <2>2, <2>3, <2>4, <2>5, <2>6, <2>7, <2>8, <2>9, <2>10, <2>11 DEF Next, Select
<1> QED
  BY <1>1, <1>2, PTL DEF Spec

-----------------------------------------------------------------------------
(* The slots.                                                               *)

Slots(from, to) == {active[i] : i \in from .. to}

\* Neither selection is longer than the slots, and the loops of select() have
\* choked a prefix of the old one, unchoked a prefix of the new one.
SlotInv ==
    /\ Len(active) <= ActiveSize
    /\ pc = "choking" => Len(result) <= ActiveSize
    /\ pc \in {"idle", "ordering"} => Unchoked = Slots(1, Len(active))
    /\ pc = "choking" => Unchoked \subseteq Slots(next, Len(active))
    /\ pc = "unchoking" => next <= Len(active) + 1 /\ Unchoked = Slots(1, next - 1)

\* The inductive invariant holds throughout.
THEOREM SlotInvHolds == Spec => []SlotInv
<1>1. Init => SlotInv
  BY ChokerAssumption DEF Init, SlotInv, Slots, Unchoked
<1>2. TypeOK /\ TypeOK' /\ SlotInv /\ [Next]_vars => SlotInv'
  <2> SUFFICES ASSUME TypeOK, TypeOK', SlotInv, [Next]_vars PROVE SlotInv'
    OBVIOUS
  <2> DEFINE Kept == UNCHANGED <<active, pc, result, next, choked>>
  <2>0. Kept => SlotInv'
    BY DEF SlotInv, Slots, Unchoked
  <2>1. Len(active) \in Nat /\ active \in [1 .. Len(active) -> Peers]
    BY LenProperties DEF TypeOK
  <2>2. ASSUME NEW p \in Peers, SetInterested(p) \/ AddPeer(p) \/ RemovePeer(p) PROVE SlotInv'
    BY <2>0, <2>2 DEF SetInterested, AddPeer, RemovePeer, ChangePeers
  <2>3. CASE Stop
    BY <2>0, <2>3 DEF Stop
  <2>4. CASE TimerFires
    BY <2>4 DEF TimerFires, SlotInv, Slots, Unchoked
  <2>5. CASE Collect
    <3>1. Candidates \in SUBSET Peers
      BY DEF Candidates, TypeOK
    <3>2. PICK s \in SetToSeqs(Candidates) :
            \E c \in Optimistic(s) : result' = c \o Regular(s, c)
      BY <2>5 DEF Collect
    <3>3. Len(result') <= ActiveSize
      BY <3>1, <3>2, OrderType, SelectionType
    <3>4. pc = "ordering" /\ pc' = "choking" /\ next' = 1 /\ UNCHANGED <<active, choked>>
      BY <2>5 DEF Collect
    <3> QED
      BY <3>3, <3>4 DEF SlotInv, Slots, Unchoked
  <2>6. CASE ChokeOne
    <3>1. /\ pc = "choking" /\ next <= Len(active) /\ next' = next + 1
          /\ choked' = [choked EXCEPT ![active[next]] = TRUE]
          /\ UNCHANGED <<active, pc, result>>
      BY <2>6 DEF ChokeOne
    <3>2. next \in Nat \ {0}
      BY DEF TypeOK
    <3>3. Unchoked' = Unchoked \ {active[next]}
      BY <2>1, <3>1, <3>2 DEF Unchoked, TypeOK
    <3>4. Slots(next, Len(active)) \ {active[next]} \subseteq Slots(next + 1, Len(active))
      BY <2>1, <3>1, <3>2 DEF Slots
    <3>5. Unchoked' \subseteq Slots(next + 1, Len(active))
      BY <3>1, <3>3, <3>4 DEF SlotInv
    <3>6. Slots(next, Len(active))' = Slots(next + 1, Len(active))
      BY <3>1 DEF Slots
    <3> QED
      BY <3>1, <3>5, <3>6 DEF SlotInv
  <2>7. CASE Activate
    <3>1. /\ pc = "choking" /\ pc' = "unchoking" /\ next > Len(active) /\ next' = 1
          /\ active' = result /\ UNCHANGED choked
      BY <2>7 DEF Activate
    <3>2. Slots(next, Len(active)) = {}
      BY <2>1, <3>1 DEF Slots, TypeOK
    <3>3. Unchoked' = {}
      BY <3>1, <3>2 DEF SlotInv, Unchoked
    <3>4. Slots(1, next - 1)' = {}
      BY <3>1 DEF Slots
    <3>5. Len(result) \in Nat
      BY LenProperties DEF TypeOK
    <3> QED
      BY <3>1, <3>3, <3>4, <3>5 DEF SlotInv
  <2>8. CASE UnchokeOne
    <3>1. /\ pc = "unchoking" /\ next <= Len(active) /\ next' = next + 1
          /\ choked' = [choked EXCEPT ![active[next]] = FALSE]
          /\ UNCHANGED <<active, pc, result>>
      BY <2>8 DEF UnchokeOne
    <3>2. next \in Nat \ {0}
      BY DEF TypeOK
    <3>3. Unchoked' = Unchoked \cup {active[next]}
      BY <2>1, <3>1, <3>2 DEF Unchoked, TypeOK
    <3>4. Slots(1, next - 1) \cup {active[next]} = Slots(1, next)
      BY <3>2 DEF Slots
    <3>5. Slots(1, next - 1)' = Slots(1, next)
      BY <3>1, <3>2 DEF Slots
    <3> QED
      BY <2>1, <3>1, <3>2, <3>3, <3>4, <3>5 DEF SlotInv
  <2>9. CASE Rearm
    <3>1. /\ pc = "unchoking" /\ pc' = "idle" /\ next > Len(active)
          /\ UNCHANGED <<active, choked, next, result>>
      BY <2>9 DEF Rearm
    <3>2. next = Len(active) + 1
      BY <2>1, <3>1 DEF SlotInv, TypeOK
    <3>3. Unchoked' = Slots(1, Len(active))
      BY <2>1, <3>1, <3>2 DEF SlotInv, Unchoked
    <3> QED
      BY <3>1, <3>3 DEF SlotInv, Slots
  <2>10. CASE UNCHANGED vars
    BY <2>0, <2>10 DEF vars
  <2> QED
    BY <2>2, <2>3, <2>4, <2>5, <2>6, <2>7, <2>8, <2>9, <2>10 DEF Next, Select
<1> QED
  BY <1>1, <1>2, TypeCorrect, PTL DEF Spec

\* No more peers than slots are unchoked, at any step of select().
THEOREM UnchokedBoundHolds == Spec => []UnchokedBound
<1>1. TypeOK /\ SlotInv => UnchokedBound
  <2> SUFFICES ASSUME TypeOK, SlotInv PROVE UnchokedBound
    OBVIOUS
  <2> DEFINE n == Len(active)
             T == Slots(1, n)
  <2>1. n \in Nat /\ active \in [1 .. n -> Peers] /\ n <= ActiveSize /\ ActiveSize \in Nat
    BY LenProperties, ChokerAssumption DEF TypeOK, SlotInv
  <2>2. Unchoked \subseteq T
    <3>1. next \in Nat \ {0} /\ pc \in {"idle", "ordering", "choking", "unchoking"}
      BY DEF TypeOK
    <3>2. Slots(next, n) \subseteq T
      BY <2>1, <3>1 DEF Slots
    <3>3. next <= n + 1 => Slots(1, next - 1) \subseteq T
      BY <2>1, <3>1 DEF Slots
    <3> QED
      BY <3>1, <3>2, <3>3 DEF SlotInv
  <2>3. IsFiniteSet(1 .. n) /\ Cardinality(1 .. n) = n
    <3> HIDE DEF n
    <3>1. IsFiniteSet(1 .. n) /\ Cardinality(1 .. n) = IF 1 > n THEN 0 ELSE n - 1 + 1
      BY <2>1, FS_Interval
    <3> QED
      BY <2>1, <3>1
  <2>4. active \in Surjection(1 .. n, T)
    BY <2>1 DEF Surjection, Slots
  <2>5. IsFiniteSet(T) /\ Cardinality(T) <= n
    BY <2>3, <2>4, FS_Surjection
  <2>6. Cardinality(Unchoked) <= Cardinality(T)
    BY <2>2, <2>5, FS_Subset
  <2>7. IsFiniteSet(Unchoked)
    BY <2>2, <2>5, FS_Subset
  <2>8. Cardinality(Unchoked) \in Nat /\ Cardinality(T) \in Nat
    BY <2>5, <2>7, FS_CardinalityType
  <2> HIDE DEF n, T
  <2> QED
    BY <2>1, <2>5, <2>6, <2>8 DEF UnchokedBound
<1> QED
  BY <1>1, TypeCorrect, SlotInvHolds, PTL

\* Between selections exactly the active peers are unchoked.
THEOREM UnchokedAreActiveHolds == Spec => []UnchokedAreActive
<1>1. TypeOK /\ SlotInv => UnchokedAreActive
  <2> SUFFICES ASSUME TypeOK, SlotInv, pc = "idle" PROVE Unchoked = ToSet(active)
    BY DEF UnchokedAreActive
  <2>1. DOMAIN active = 1 .. Len(active)
    BY LenProperties DEF TypeOK
  <2> QED
    BY <2>1 DEF SlotInv, Slots, ToSet
<1> QED
  BY <1>1, TypeCorrect, SlotInvHolds, PTL

-----------------------------------------------------------------------------
(* The use of the slots.                                                    *)

\* The slots that are certain to go to distinct peers.
CertainSlots == IF iteration = 0 THEN ActiveSize - 1 ELSE ActiveSize

\* What a selection owes the peers select() found interested.
Fills(s) ==
    /\ ToSet(s) \subseteq wanted
    /\ Cardinality(ToSet(s)) >= Lesser(Cardinality(wanted), CertainSlots)

FillInv ==
    /\ pc = "choking" => Fills(result)
    /\ pc \in {"unchoking", "idle"} => Fills(active)

\* The elements of a concatenation are those of its two parts.
LEMMA ConcatElements ==
    ASSUME NEW a \in Seq(Peers), NEW b \in Seq(Peers)
    PROVE  ToSet(a \o b) = ToSet(a) \cup ToSet(b)
<1>1. /\ a \o b \in Seq(Peers) /\ Len(a \o b) = Len(a) + Len(b)
      /\ \A i \in 1 .. Len(a) + Len(b) :
            (a \o b)[i] = IF i <= Len(a) THEN a[i] ELSE b[i - Len(a)]
  BY ConcatProperties
<1>2. /\ Len(a) \in Nat /\ DOMAIN a = 1 .. Len(a)
      /\ Len(b) \in Nat /\ DOMAIN b = 1 .. Len(b)
      /\ DOMAIN (a \o b) = 1 .. Len(a) + Len(b)
  BY <1>1, LenProperties
<1> DEFINE m == Len(a)
           n == Len(b)
           ab == a \o b
<1>3. /\ m \in Nat /\ n \in Nat
      /\ \A i \in 1 .. m + n : ab[i] = IF i <= m THEN a[i] ELSE b[i - m]
  BY <1>1, <1>2
<1>4. /\ ToSet(a) = {a[i] : i \in 1 .. m} /\ ToSet(b) = {b[i] : i \in 1 .. n}
      /\ ToSet(ab) = {ab[i] : i \in 1 .. m + n}
  BY <1>2 DEF ToSet
<1> HIDE DEF m, n, ab
<1>5. \A i \in 1 .. m : i \in 1 .. m + n /\ ab[i] = a[i]
  BY <1>3
<1>6. \A i \in 1 .. n : m + i \in 1 .. m + n /\ ab[m + i] = b[i]
  BY <1>3
<1>7. \A i \in 1 .. m + n : \/ i \in 1 .. m /\ ab[i] = a[i]
                            \/ i - m \in 1 .. n /\ ab[i] = b[i - m]
  BY <1>3
<1>8. ToSet(ab) = ToSet(a) \cup ToSet(b)
  BY <1>4, <1>5, <1>6, <1>7
<1> QED
  BY <1>8 DEF ab

\* A prefix of an ordering of S holds as many peers as it is long.
LEMMA PrefixElements ==
    ASSUME NEW S \in SUBSET Peers, NEW s \in SetToSeqs(S), NEW k \in 0 .. Len(s)
    PROVE  /\ ToSet(SubSeq(s, 1, k)) \subseteq S
           /\ Cardinality(ToSet(SubSeq(s, 1, k))) = k
<1> DEFINE n == Cardinality(S)
           reg == SubSeq(s, 1, k)
<1>1. IsFiniteSet(S)
  BY ChokerAssumption, FS_Subset
<1>2. n \in Nat
  BY <1>1, FS_CardinalityType
<1>3. s \in [1 .. n -> S] /\ \A i, j \in 1 .. n : i # j => s[i] # s[j]
  BY DEF SetToSeqs
<1>4. s \in Seq(S) /\ Len(s) = n
  BY <1>2, <1>3, LenProperties
<1>5. /\ reg \in Seq(S) /\ Len(reg) = k
      /\ \A i \in 1 .. k : reg[i] = s[i]
  BY <1>2, <1>4, SubSeqProperties
<1>6. k \in Nat /\ k <= n
  BY <1>2, <1>4
<1> HIDE DEF n, reg
<1>7. reg \in [1 .. k -> S] /\ DOMAIN reg = 1 .. k
  BY <1>5, LenProperties
<1>8. ToSet(reg) = {reg[i] : i \in 1 .. k} /\ ToSet(reg) \subseteq S
  BY <1>7 DEF ToSet
<1>9. \A i, j \in 1 .. k : i # j => reg[i] # reg[j]
  BY <1>2, <1>3, <1>5, <1>6
<1>10. reg \in Bijection(1 .. k, ToSet(reg))
  <2>1. reg \in [1 .. k -> ToSet(reg)]
    BY <1>7, <1>8
  <2>2. reg \in Injection(1 .. k, ToSet(reg))
    BY <1>9, <2>1 DEF Injection, IsInjective
  <2>3. reg \in Surjection(1 .. k, ToSet(reg))
    BY <1>8, <2>1 DEF Surjection
  <2> QED
    BY <2>2, <2>3 DEF Bijection
<1>11. ExistsBijection(1 .. k, ToSet(reg))
  BY <1>10 DEF ExistsBijection
<1>12. IsFiniteSet(1 .. k) /\ Cardinality(1 .. k) = IF 1 > k THEN 0 ELSE k - 1 + 1
  BY <1>6, FS_Interval
<1>13. Cardinality(ToSet(reg)) = Cardinality(1 .. k)
  BY <1>11, <1>12, FS_Bijection
<1> QED
  BY <1>6, <1>8, <1>12, <1>13 DEF reg

\* The optimistic choice is one of the ordered peers.
LEMMA OptimisticElements ==
    ASSUME NEW s, NEW c \in Optimistic(s)
    PROVE  /\ ToSet(c) \subseteq ToSet(s)
           /\ Len(c) = 0 \/ (Len(c) = 1 /\ iteration = 0)
<1>1. CASE c = <<>>
  BY <1>1 DEF ToSet
<1>2. CASE c # <<>>
  <2>1. PICK i \in DOMAIN s : c = <<s[i]>>
    BY <1>2 DEF Optimistic
  <2>2. iteration = 0
    BY <1>2 DEF Optimistic
  <2> QED
    BY <2>1, <2>2 DEF ToSet
<1> QED
  BY <1>1, <1>2

\* Whatever the order and the optimistic choice, the selection fills the
\* certain slots as far as there are peers for them.
LEMMA SelectionFills ==
    ASSUME NEW S \in SUBSET Peers, NEW s \in SetToSeqs(S), NEW c \in Optimistic(s)
    PROVE  /\ ToSet(c \o Regular(s, c)) \subseteq S
           /\ Cardinality(ToSet(c \o Regular(s, c))) >= Lesser(Cardinality(S), CertainSlots)
<1>1. s \in Seq(Peers) /\ ToSet(s) \subseteq S
  BY OrderType
<1>2. c \in Seq(Peers) /\ ToSet(c) \subseteq ToSet(s)
  BY <1>1, OptimisticType, OptimisticElements
<1>3. IsFiniteSet(S)
  BY ChokerAssumption, FS_Subset
<1>4. Cardinality(S) \in Nat
  BY <1>3, FS_CardinalityType
<1>5. Len(s) = Cardinality(S)
  <2>1. s \in [1 .. Cardinality(S) -> S]
    BY DEF SetToSeqs
  <2> QED
    BY <1>4, <2>1, LenProperties
<1> DEFINE l == Len(c)
           k == Lesser(Len(s), ActiveSize - l)
           reg == SubSeq(s, 1, k)
<1>6. l = 0 \/ (l = 1 /\ iteration = 0)
  BY OptimisticElements
<1>7. ActiveSize \in Nat \ {0}
  BY ChokerAssumption
<1> HIDE DEF l
<1>8. k \in 0 .. Len(s) /\ k >= Lesser(Cardinality(S), CertainSlots)
  BY <1>4, <1>5, <1>6, <1>7 DEF Lesser, CertainSlots
<1> HIDE DEF k
<1>9. ToSet(reg) \subseteq S /\ Cardinality(ToSet(reg)) = k
  BY <1>8, PrefixElements
<1>10. reg \in Seq(Peers)
  BY <1>1, <1>8, LenProperties, SubSeqProperties
<1> HIDE DEF reg
<1>11. ToSet(c \o reg) = ToSet(c) \cup ToSet(reg)
  BY <1>2, <1>10, ConcatElements
<1>12. ToSet(c \o reg) \subseteq S
  BY <1>1, <1>2, <1>9, <1>11
<1>13. IsFiniteSet(ToSet(c \o reg))
  BY <1>3, <1>12, FS_Subset
<1>14. Cardinality(ToSet(reg)) <= Cardinality(ToSet(c \o reg))
  BY <1>11, <1>13, FS_Subset
<1>15. Cardinality(ToSet(c \o reg)) \in Nat
  BY <1>13, FS_CardinalityType
<1>16. Lesser(Cardinality(S), CertainSlots) \in Int
  BY <1>4, <1>7 DEF Lesser, CertainSlots
<1>17. Cardinality(ToSet(c \o reg)) >= Lesser(Cardinality(S), CertainSlots)
  BY <1>8, <1>9, <1>14, <1>15, <1>16
<1>18. Regular(s, c) = reg
  BY DEF Regular, reg, k, l
<1> QED
  BY <1>12, <1>17, <1>18

\* From the moment it is made until the next one, a selection fills the slots.
THEOREM FillInvHolds == Spec => []FillInv
<1>1. Init => FillInv
  <2> SUFFICES ASSUME Init PROVE Fills(active)
    BY DEF Init, FillInv
  <2>1. ToSet(active) = {} /\ wanted = {} /\ iteration = 0
    BY DEF Init, ToSet
  <2>2. Cardinality({}) = 0
    BY FS_EmptySet
  <2> QED
    BY <2>1, <2>2, ChokerAssumption DEF Fills, Lesser, CertainSlots
<1>2. TypeOK /\ FillInv /\ [Next]_vars => FillInv'
  <2> SUFFICES ASSUME TypeOK, FillInv, [Next]_vars PROVE FillInv'
    OBVIOUS
  <2> DEFINE Kept == UNCHANGED <<active, pc, result, iteration, wanted>>
  <2>0. Kept => FillInv'
    BY DEF FillInv, Fills, CertainSlots
  <2>1. ASSUME NEW p \in Peers, SetInterested(p) \/ AddPeer(p) \/ RemovePeer(p) PROVE FillInv'
    BY <2>0, <2>1 DEF SetInterested, AddPeer, RemovePeer, ChangePeers
  <2>2. CASE Stop
    BY <2>0, <2>2 DEF Stop
  <2>3. CASE TimerFires
    BY <2>3 DEF TimerFires, FillInv
  <2>4. CASE Collect
    <3>1. Candidates \in SUBSET Peers
      BY DEF Candidates, TypeOK
    <3>2. PICK s \in SetToSeqs(Candidates) :
            \E c \in Optimistic(s) : result' = c \o Regular(s, c)
      BY <2>4 DEF Collect
    <3>3. /\ ToSet(result') \subseteq Candidates
          /\ Cardinality(ToSet(result')) >= Lesser(Cardinality(Candidates), CertainSlots)
      BY <3>1, <3>2, SelectionFills
    <3>4. wanted' = Candidates /\ iteration' = iteration /\ pc' = "choking"
      BY <2>4 DEF Collect, Candidates
    <3>5. Fills(result)'
      BY <3>3, <3>4 DEF Fills, CertainSlots
    <3> QED
      BY <3>4, <3>5 DEF FillInv
  <2>5. CASE ChokeOne
    BY <2>0, <2>5 DEF ChokeOne
  <2>6. CASE Activate
    BY <2>6 DEF Activate, FillInv, Fills, CertainSlots
  <2>7. CASE UnchokeOne
    BY <2>0, <2>7 DEF UnchokeOne
  <2>8. CASE Rearm
    BY <2>8 DEF Rearm, FillInv, Fills, CertainSlots
  <2>9. CASE UNCHANGED vars
    BY <2>0, <2>9 DEF vars
  <2> QED
    BY <2>1, <2>2, <2>3, <2>4, <2>5, <2>6, <2>7, <2>8, <2>9 DEF Next, Select
<1> QED
  BY <1>1, <1>2, TypeCorrect, PTL DEF Spec

\* Between selections at most one slot is free that an interested peer could
\* have, in the round of the optimistic unchoke, and none goes to another peer.
THEOREM SlotsUsedHolds == Spec => []SlotsUsed
<1>1. FillInv /\ UnchokedAreActive => SlotsUsed
  BY DEF FillInv, Fills, CertainSlots, UnchokedAreActive, SlotsUsed
<1> QED
  BY <1>1, FillInvHolds, UnchokedAreActiveHolds, PTL

=============================================================================
