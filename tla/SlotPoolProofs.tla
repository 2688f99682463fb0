---------------------------- MODULE SlotPoolProofs ----------------------------
(* What SlotPool's properties are for every tree, every limit and any number   *)
(* of attempts: proofs checked by TLAPS.                                       *)
EXTENDS SlotPool, FiniteSetTheorems, SequenceTheorems, TLAPS

\* Keeping or dropping a node leaves a queue of nodes.
LEMMA QueueTypes ==
    ASSUME NEW s \in Seq(Node), NEW n \in Node
    PROVE  Keep(s, n) \in Seq(Node) /\ Drop(s, n) \in Seq(Node)
<1>1. Keep(s, n) \in Seq(Node)
  BY DEF Keep
<1>2. CASE \E i \in DOMAIN s : s[i] = n
  <2> DEFINE at == CHOOSE i \in DOMAIN s : s[i] = n
  <2>1. at \in 1..Len(s)
    BY <1>2
  <2>2. Drop(s, n) = SubSeq(s, 1, at - 1) \o SubSeq(s, at + 1, Len(s))
    BY <1>2 DEF Drop
  <2> HIDE DEF at
  <2>3. at \in Int /\ at - 1 \in Int /\ at + 1 \in Int /\ Len(s) \in Int
    BY <2>1
  <2>4. \A i \in 1..Len(s) : s[i] \in Node
    OBVIOUS
  <2>5. SubSeq(s, 1, at - 1) \in Seq(Node)
    BY <2>1, <2>3, <2>4, SubSeqProperties
  <2>6. SubSeq(s, at + 1, Len(s)) \in Seq(Node)
    BY <2>1, <2>3, <2>4, SubSeqProperties
  <2> QED BY <1>1, <2>2, <2>5, <2>6
<1>3. CASE ~\E i \in DOMAIN s : s[i] = n
  BY <1>1, <1>3 DEF Drop
<1> QED BY <1>2, <1>3

\* A set of natural numbers that is not empty has a least element.
LEMMA LeastElement ==
    ASSUME NEW I \in SUBSET Nat, I # {}
    PROVE  \E i \in I : \A j \in I : ~(j < i)
<1>1. PICK i \in I : \A j \in I : <<j, i>> \notin OpToRel(<, Nat)
  BY WFMin, NatLessThanWellFounded, Zenon
<1>2. \A j \in I : j < i => <<j, i>> \in OpToRel(<, Nat)
  BY DEF OpToRel
<1> QED BY <1>1, <1>2, Zenon

\* The turn a holder waits on, where there is one, is a turn of the queue.
LEMMA WaitedTurnInQueue ==
    ASSUME NEW s \in Seq(Node), WaitedTurn(s) # None
    PROVE  WaitedTurn(s) \in Node /\ HoldsSome(WaitedTurn(s)) /\ AllWait
<1> DEFINE I == {i \in 1..Len(s) : HoldsSome(s[i])}
<1>1. AllWait /\ \E i \in DOMAIN s : HoldsSome(s[i])
  BY DEF WaitedTurn
<1>2. I \in SUBSET Nat /\ I # {}
  BY <1>1
<1>3. PICK i \in I : \A j \in I : ~(j < i)
  BY <1>2, LeastElement
<1>4. i \in DOMAIN s /\ HoldsSome(s[i])
  BY <1>3
<1>5. \A j \in 1..(i - 1) : ~HoldsSome(s[j])
  <2>1. SUFFICES ASSUME NEW j \in 1..(i - 1), HoldsSome(s[j]) PROVE FALSE
    OBVIOUS
  <2>2. j \in I /\ j < i
    BY <2>1, <1>4
  <2> QED BY <2>2, <1>3
<1> DEFINE first == CHOOSE k \in DOMAIN s : HoldsSome(s[k]) /\ \A j \in 1..(k - 1) : ~HoldsSome(s[j])
<1>6. first \in DOMAIN s /\ HoldsSome(s[first])
  BY <1>4, <1>5, Zenon
<1>7. WaitedTurn(s) = s[first]
  BY <1>1 DEF WaitedTurn
<1> HIDE DEF first
<1> QED BY <1>1, <1>6, <1>7

\* The turn an offer chooses is a node of the queue, and may be granted.
LEMMA NextTurnChoice ==
    ASSUME TypeOK, NextTurn # None
    PROVE  NextTurn \in Node /\ (Full => passing = None /\ AllWait)
<1>1. CASE ~Full
  BY <1>1 DEF NextTurn, TypeOK
<1>2. CASE Full
  <2>1. passing = None /\ NextTurn = WaitedTurn(keptTurns)
    BY <1>2 DEF NextTurn
  <2> QED BY <2>1, WaitedTurnInQueue DEF TypeOK
<1> QED BY <1>1, <1>2
-----------------------------------------------------------------------------
\* The inductive invariant: the limit, with what it needs of the turn past it.
SlotInv ==
    /\ TypeOK
    /\ IsFiniteSet(holders)
    /\ PassingHolds
    /\ LimitHolds

\* A grant that the pool does not refuse keeps the limit.
LEMMA GrantKeepsLimit ==
    ASSUME SlotInv, NEW c \in Claim, Grant(c),
           c \in Task => ~Full,
           c # Root /\ Full => passing = None
    PROVE  /\ holders' \in SUBSET Claim
           /\ passing' \in Claim \cup {None}
           /\ startTick' \in Node \cup {None}
           /\ IsFiniteSet(holders')
           /\ PassingHolds'
           /\ LimitHolds'
<1>1. holders' = holders \cup {c} /\ IsFiniteSet(holders')
  BY FS_AddElement DEF Grant, SlotInv
<1>2. holders' \in SUBSET Claim /\ passing' \in Claim \cup {None} /\ startTick' \in Node \cup {None}
  BY <1>1 DEF Grant, SlotInv, TypeOK
<1>3. None \notin Claim /\ Root \in Node
  BY NodeAssumption DEF Claim
<1>4. IsFiniteSet(holders \ {Root, passing})
  BY FS_Subset DEF SlotInv
<1>5. Limit \in Nat
  BY LimitAssumption
<1>6. CASE c = Root
  <2>1. passing' = passing
    BY <1>6 DEF Grant
  <2>2. holders' \ {Root, passing'} = holders \ {Root, passing}
    BY <1>1, <1>6, <2>1
  <2>3. LimitHolds'
    BY <2>2 DEF SlotInv, LimitHolds
  <2>4. PassingHolds'
    BY <1>1, <2>1 DEF SlotInv, PassingHolds
  <2> QED BY <1>1, <1>2, <2>3, <2>4
<1>7. CASE c # Root /\ Full
  <2>1. c \in Node /\ passing = None /\ passing' = c
    BY <1>7 DEF Grant, Claim
  <2>2. holders' \ {Root, passing'} \subseteq holders \ {Root, passing}
    BY <1>1, <1>3, <2>1 DEF SlotInv, TypeOK
  <2>3. LimitHolds'
    BY <1>4, <1>5, <2>2, FS_Subset, FS_CardinalityType DEF SlotInv, LimitHolds
  <2>4. PassingHolds'
    BY <1>1, <1>7, <2>1 DEF PassingHolds
  <2> QED BY <1>1, <1>2, <2>3, <2>4
<1>8. CASE c # Root /\ ~Full
  <2>1. passing' = passing
    BY <1>8 DEF Grant
  <2>2. holders \ {Root, passing} \subseteq Counted /\ IsFiniteSet(Counted)
    BY FS_Subset DEF Counted, SlotInv
  <2>3. Cardinality(holders \ {Root, passing}) < Limit
    BY <1>4, <1>5, <1>8, <2>2, FS_Subset, FS_CardinalityType DEF Full
  <2>4. holders' \ {Root, passing'} \subseteq (holders \ {Root, passing}) \cup {c}
    BY <1>1, <2>1
  <2> DEFINE inside == holders \ {Root, passing}
  <2>5. Cardinality(inside) \in Nat
    BY <1>4, FS_CardinalityType
  <2>6. IsFiniteSet(inside \cup {c})
        /\ Cardinality(inside \cup {c}) = IF c \in inside THEN Cardinality(inside) ELSE Cardinality(inside) + 1
    BY <1>4, FS_AddElement
  <2>7. Cardinality(holders' \ {Root, passing'}) <= Cardinality(inside \cup {c})
        /\ Cardinality(holders' \ {Root, passing'}) \in Nat
    BY <2>4, <2>6, FS_Subset, FS_CardinalityType
  <2>8. LimitHolds'
    BY <1>5, <2>3, <2>5, <2>6, <2>7 DEF LimitHolds
  <2>9. PassingHolds'
    BY <1>1, <2>1 DEF SlotInv, PassingHolds
  <2> QED BY <1>1, <1>2, <2>8, <2>9
<1> QED BY <1>6, <1>7, <1>8

\* Freeing a slot keeps the limit, and forgets the turn past it with its slot.
LEMMA FreeKeepsLimit ==
    ASSUME SlotInv, NEW c \in Claim, Free(c), keptTurns' \in Seq(Node)
    PROVE  /\ holders' \in SUBSET Claim
           /\ passing' \in Claim \cup {None}
           /\ turnsLeft' \in Nat \cup {NotOffering}
           /\ IsFiniteSet(holders')
           /\ PassingHolds'
           /\ LimitHolds'
<1>1. holders' = holders \ {c} /\ IsFiniteSet(holders')
  BY FS_RemoveElement DEF Free, SlotInv
<1>2. PassingHolds'
  BY <1>1 DEF Free, SlotInv, PassingHolds
<1>3. holders' \ {Root, passing'} \subseteq holders \ {Root, passing}
  BY <1>1 DEF Free
<1>4. IsFiniteSet(holders \ {Root, passing})
  BY FS_Subset DEF SlotInv
<1>5. LimitHolds'
  BY <1>3, <1>4, LimitAssumption, FS_Subset, FS_CardinalityType DEF SlotInv, LimitHolds
<1>6. turnsLeft' \in Nat \cup {NotOffering}
  BY DEF Free, BeginOffer
<1>7. holders' \in SUBSET Claim /\ passing' \in Claim \cup {None}
  BY <1>1 DEF Free, SlotInv, TypeOK
<1> QED BY <1>1, <1>2, <1>5, <1>6, <1>7

\* The queues and sets beside the slots keep their types in every step.
LEMMA StepKeepsTypes ==
    ASSUME SlotInv, Next,
           holders' \in SUBSET Claim, passing' \in Claim \cup {None},
           startTick' \in Node \cup {None}
    PROVE  TypeOK'
<1> USE DEF SlotInv, TypeOK
<1>1. CASE OfferTurn
  <2>1. keptTurns' \in Seq(Node) /\ turnsLeft' \in Nat
    <3>1. NextTurn \in Node
      BY <1>1, NextTurnChoice DEF OfferTurn
    <3>2. turnsLeft \in Nat /\ turnsLeft > 0 /\ turnsLeft' = turnsLeft - 1
      BY <1>1 DEF OfferTurn, NotOffering
    <3> QED BY <1>1, <3>1, <3>2, QueueTypes DEF OfferTurn
  <2>2. due' \in SUBSET Node
    BY <1>1 DEF OfferTurn
  <2> QED BY <1>1, <2>1, <2>2 DEF OfferTurn
<1>2. CASE EndOfferTurns \/ ResumeOffer
  <2>1. keptStarts' \in Seq(Node) /\ ticking' \in SUBSET Node /\ offering' \in BOOLEAN
    <3>1. CASE OfferStart /\ keptStarts # <<>> /\ ~Full
      <4>1. Head(keptStarts) \in Node /\ Tail(keptStarts) \in Seq(Node)
        BY <3>1, HeadTailProperties
      <4> QED BY <3>1, <4>1 DEF OfferStart
    <3>2. CASE OfferStart /\ ~(keptStarts # <<>> /\ ~Full)
      BY <3>2 DEF OfferStart
    <3>3. CASE UNCHANGED <<keptStarts, startTick, ticking, offering>>
      BY <3>3
    <3> QED BY <1>2, <3>1, <3>2, <3>3 DEF EndOfferTurns, ResumeOffer
  <2>2. turnsLeft' \in Nat \cup {NotOffering}
    BY <1>2 DEF EndOfferTurns, ResumeOffer
  <2> QED BY <1>2, <2>1, <2>2 DEF EndOfferTurns, ResumeOffer
<1>3. ASSUME NEW n \in Node, Join(n) PROVE TypeOK'
  BY <1>3 DEF Join
<1>4. ASSUME NEW n \in Node, Leave(n) PROVE TypeOK'
  <2>1. keptTurns' \in Seq(Node) /\ keptStarts' \in Seq(Node)
    BY <1>4, QueueTypes DEF Leave
  <2>2. turnsLeft' \in Nat \cup {NotOffering}
    BY <1>4, <2>1 DEF Leave, BeginOffer
  <2> QED BY <1>4, <2>1, <2>2 DEF Leave
<1>5. ASSUME NEW n \in Node, TurnDue(n) \/ WithdrawTurn(n) PROVE TypeOK'
  BY <1>5 DEF TurnDue, WithdrawTurn, poolVars
<1>6. ASSUME NEW n \in Node, AskTurn(n) PROVE TypeOK'
  <2>1. keptTurns' \in Seq(Node)
    BY <1>6, QueueTypes DEF AskTurn
  <2>2. due' \in SUBSET Node
    BY <1>6 DEF AskTurn
  <2> QED BY <1>6, <2>1, <2>2 DEF AskTurn
<1>7. ASSUME NEW n \in Node, EndTurn(n) PROVE TypeOK'
  <2>1. turnsLeft' \in Nat \cup {NotOffering}
    BY <1>7 DEF EndTurn, Free, BeginOffer
  <2> QED BY <1>7, <2>1 DEF EndTurn
<1>8. ASSUME NEW n \in Node, TickEnd(n) PROVE TypeOK'
  BY <1>8 DEF TickEnd, TickOver
<1>9. ASSUME NEW t \in Task, TaskReady(t) \/ WakePlanner(t) PROVE TypeOK'
  BY <1>9, TaskAssumption DEF TaskReady, WakePlanner, poolVars
<1>10. ASSUME NEW t \in Task, TickStart(t) PROVE TypeOK'
  <2>1. Owner[t] \in Node
    BY TaskAssumption
  <2>2. keptStarts' \in Seq(Node)
    BY <1>10, <2>1, QueueTypes DEF TickStart
  <2>3. ready' \in SUBSET Task /\ ticking' \in SUBSET Node
    BY <1>10 DEF TickStart, TickOver
  <2> QED BY <1>10, <2>2, <2>3 DEF TickStart
<1>11. ASSUME NEW t \in Task, EndAttempt(t) PROVE TypeOK'
  <2>1. turnsLeft' \in Nat \cup {NotOffering}
    BY <1>11 DEF EndAttempt, Free, BeginOffer
  <2> QED BY <1>11, <2>1, TaskAssumption DEF EndAttempt
<1>12. ASSUME NEW t \in Task, Ask(t) PROVE TypeOK'
  <2>1. turnsLeft' \in Nat \cup {NotOffering}
    BY <1>12 DEF Ask, BeginOffer
  <2> QED BY <1>12, <2>1 DEF Ask
<1> QED BY <1>1, <1>2, <1>3, <1>4, <1>5, <1>6, <1>7, <1>8, <1>9, <1>10, <1>11, <1>12 DEF Next

\* What a step does to the slots: it leaves them alone, or grants or frees one.
LEMMA StepKeepsSlots ==
    ASSUME SlotInv, Next
    PROVE  /\ holders' \in SUBSET Claim
           /\ passing' \in Claim \cup {None}
           /\ startTick' \in Node \cup {None}
           /\ IsFiniteSet(holders')
           /\ PassingHolds'
           /\ LimitHolds'
<1> DEFINE Kept == /\ holders' \in SUBSET Claim
                   /\ passing' \in Claim \cup {None}
                   /\ startTick' \in Node \cup {None}
                   /\ IsFiniteSet(holders')
                   /\ PassingHolds'
                   /\ LimitHolds'
<1>1. ASSUME UNCHANGED <<holders, passing>>, startTick' \in Node \cup {None} PROVE Kept
  BY <1>1 DEF SlotInv, TypeOK, PassingHolds, LimitHolds
<1>2. CASE OfferTurn
  <2>1. NextTurn \in Node /\ (Full => passing = None)
    BY <1>2, NextTurnChoice DEF OfferTurn, SlotInv
  <2>2. CASE NextTurn \in due \ holders
    <3>1. Grant(NextTurn)
      BY <1>2, <2>2 DEF OfferTurn
    <3>2. NextTurn \in Claim /\ NextTurn \notin Task
      BY <2>1, TaskAssumption DEF Claim
    <3> QED BY <2>1, <3>1, <3>2, GrantKeepsLimit
  <2>3. CASE NextTurn \notin due \ holders
    BY <1>1, <1>2, <2>3 DEF OfferTurn, SlotInv, TypeOK
  <2> QED BY <2>2, <2>3
<1>3. CASE EndOfferTurns \/ ResumeOffer
  <2>1. startTick' \in Node \cup {None}
    BY <1>3 DEF EndOfferTurns, ResumeOffer, OfferStart, SlotInv, TypeOK
  <2> QED BY <1>1, <1>3, <2>1 DEF EndOfferTurns, ResumeOffer
<1>4. ASSUME NEW n \in Node, AskTurn(n) PROVE Kept
  <2>1. CASE TurnRefused(n, None)
    BY <1>1, <1>4, <2>1 DEF AskTurn, SlotInv, TypeOK
  <2>2. CASE ~TurnRefused(n, None)
    <3>1. Grant(n)
      BY <1>4, <2>2 DEF AskTurn
    <3>2. n # Root /\ Full => passing = None
      BY <2>2 DEF TurnRefused, TurnPasses
    <3>3. n \in Claim /\ n \notin Task
      BY TaskAssumption DEF Claim
    <3> QED BY <3>1, <3>2, <3>3, GrantKeepsLimit
  <2> QED BY <2>1, <2>2
<1>5. ASSUME NEW t \in Task, TickStart(t) PROVE Kept
  <2>1. CASE StartRefused
    BY <1>1, <1>5, <2>1 DEF TickStart, TickOver, SlotInv, TypeOK
  <2>2. CASE ~StartRefused
    <3>1. Grant(t) /\ ~Full /\ t \in Claim
      BY <1>5, <2>2 DEF TickStart, StartRefused, Claim
    <3> QED BY <3>1, GrantKeepsLimit
  <2> QED BY <2>1, <2>2
<1>6. ASSUME NEW n \in Node, EndTurn(n) PROVE Kept
  <2>1. Free(n) /\ keptTurns' \in Seq(Node) /\ startTick' \in Node \cup {None} /\ n \in Claim
    BY <1>6 DEF EndTurn, SlotInv, TypeOK, Claim
  <2> QED BY <2>1, FreeKeepsLimit
<1>7. ASSUME NEW t \in Task, EndAttempt(t) PROVE Kept
  <2>1. Free(t) /\ keptTurns' \in Seq(Node) /\ startTick' \in Node \cup {None} /\ t \in Claim
    BY <1>7 DEF EndAttempt, SlotInv, TypeOK, Claim
  <2> QED BY <2>1, FreeKeepsLimit
<1>8. ASSUME NEW n \in Node, Join(n) \/ Leave(n) \/ TurnDue(n) \/ WithdrawTurn(n) \/ TickEnd(n) PROVE Kept
  <2>1. UNCHANGED <<holders, passing>>
    BY <1>8 DEF Join, Leave, TurnDue, WithdrawTurn, TickEnd, poolVars
  <2>2. startTick' \in Node \cup {None}
    BY <1>8 DEF Join, Leave, TurnDue, WithdrawTurn, TickEnd, TickOver, poolVars, SlotInv, TypeOK
  <2> QED BY <1>1, <2>1, <2>2
<1>9. ASSUME NEW t \in Task, TaskReady(t) \/ Ask(t) \/ WakePlanner(t) PROVE Kept
  <2>1. UNCHANGED <<holders, passing, startTick>>
    BY <1>9 DEF TaskReady, Ask, WakePlanner, poolVars
  <2> QED BY <1>1, <2>1 DEF SlotInv, TypeOK
<1> HIDE DEF Kept
<1>10. Kept
  BY <1>2, <1>3, <1>4, <1>5, <1>6, <1>7, <1>8, <1>9 DEF Next, Kept
<1> QED BY <1>10 DEF Kept

\* The invariant is inductive: it holds at first and every step keeps it.
THEOREM SlotInvariant == Spec => []SlotInv
<1>1. Init => SlotInv
  <2> SUFFICES ASSUME Init PROVE SlotInv
    OBVIOUS
  <2>1. TypeOK
    <3>1. keptTurns \in Seq(Node) /\ keptStarts \in Seq(Node)
      BY DEF Init
    <3>2. nodes \in SUBSET Node
      BY NodeAssumption DEF Init
    <3> QED BY <3>1, <3>2 DEF Init, TypeOK
  <2>2. IsFiniteSet(holders) /\ Cardinality(holders \ {Root, passing}) = 0
    BY FS_EmptySet DEF Init
  <2> QED BY <2>1, <2>2, LimitAssumption DEF Init, SlotInv, PassingHolds, LimitHolds
<1>2. SlotInv /\ [Next]_vars => SlotInv'
  <2>1. ASSUME SlotInv, Next PROVE SlotInv'
    BY <2>1, StepKeepsSlots, StepKeepsTypes DEF SlotInv
  <2>2. ASSUME SlotInv, UNCHANGED vars PROVE SlotInv'
    BY <2>2 DEF vars, poolVars, SlotInv, TypeOK, PassingHolds, LimitHolds
  <2> QED BY <2>1, <2>2
<1> QED BY <1>1, <1>2, PTL DEF Spec

\* The variables keep their types (services/SlotPool.ts, the fields of the class).
THEOREM TypeCorrect == Spec => []TypeOK
BY SlotInvariant, PTL DEF SlotInv

\* However claims, frees, joins and leaves interleave, the tree has at most
\* Limit sessions at work past the root's own turn and one turn others wait on
\* (SlotPool.take, SlotPool.turnPasses).
THEOREM LimitIsKept == Spec => []LimitHolds
BY SlotInvariant, PTL DEF SlotInv

\* The turn past the limit is one that holds its slot (SlotPool.take's free).
THEOREM PassingIsHeld == Spec => []PassingHolds
BY SlotInvariant, PTL DEF SlotInv

-----------------------------------------------------------------------------
\* A grant is a claim let in, or past the limit while all that is inside waits.
LEMMA GrantIsBudgeted ==
    ASSUME SlotInv, NEW c \in Claim, Grant(c),
           c # Root /\ Full => c \in Node \ holders /\ passing = None /\ AllWait
    PROVE  Budget!Wait \/ Budget!Enter(c) \/ Budget!EnterPast(c)
<1> DEFINE inside == holders \ {Root, passing}
<1>1. holders' = holders \cup {c} /\ None \notin Claim /\ c # None
  BY NodeAssumption DEF Grant, Claim
<1>2. holders \subseteq Claim /\ asking \subseteq Task
  BY DEF SlotInv, TypeOK
<1>3. CASE c = Root
  <2>1. passing' = passing
    BY <1>3 DEF Grant
  <2> QED BY <1>1, <1>3, <2>1 DEF Budget!Wait
<1>4. CASE c # Root /\ Full
  <2>1. c \in Node \ holders /\ passing = None /\ AllWait /\ passing' = c
    BY <1>4 DEF Grant
  <2>2. Root \notin Counted
    BY <1>2, <2>1, NodeAssumption, TaskAssumption DEF AllWait
  <2>3. inside = Counted
    BY <1>1, <1>2, <2>1, <2>2 DEF Counted
  <2>4. inside # {} /\ inside \subseteq asking
    BY <2>1, <2>3 DEF AllWait
  <2>5. holders' \ {Root, passing'} = inside
    BY <1>1, <1>2, <2>1
  <2>6. {passing} \ {None} = {} /\ {passing'} \ {None} = {c}
    BY <1>1, <2>1
  <2>7. c \notin inside
    BY <2>1
  <2> HIDE DEF inside
  <2>8. Budget!EnterPast(c)
    BY <2>1, <2>4, <2>5, <2>6, <2>7 DEF Budget!EnterPast, inside
  <2> QED BY <2>8
<1>5. CASE c # Root /\ ~Full
  <2>1. passing' = passing
    BY <1>5 DEF Grant
  <2>2. CASE c \in holders
    BY <1>1, <2>1, <2>2 DEF Budget!Wait
  <2>3. CASE c \notin holders
    <3>1. c # passing
      BY <1>1, <2>3 DEF SlotInv, PassingHolds
    <3>2. holders' \ {Root, passing'} = inside \cup {c}
      BY <1>1, <1>5, <2>1, <3>1
    <3>3. Cardinality(inside) < Limit
      <4>1. inside \subseteq Counted /\ IsFiniteSet(Counted)
        BY FS_Subset DEF Counted, SlotInv
      <4> QED BY <1>5, <4>1, FS_Subset, FS_CardinalityType, LimitAssumption DEF Full
    <3>4. Budget!Cardinality(inside) = Cardinality(inside)
      BY DEF Budget!Cardinality, Cardinality
    <3> HIDE DEF inside
    <3>5. inside \cap {c} = {} /\ {passing'} = {passing} /\ c \notin {passing}
      BY <2>1, <2>3, <3>1 DEF inside
    <3> QED BY <2>1, <3>2, <3>3, <3>4, <3>5 DEF Budget!Enter, inside
  <2> QED BY <2>2, <2>3
<1> QED BY <1>3, <1>4, <1>5

\* A free is a claim let out; the root's own turn was never in.
LEMMA FreeIsBudgeted ==
    ASSUME SlotInv, NEW c \in holders, Free(c)
    PROVE  Budget!Wait \/ Budget!Exit(c)
<1>1. holders' = holders \ {c} /\ passing' = IF passing = c THEN None ELSE passing
  BY DEF Free
<1>2. holders \subseteq Claim /\ None \notin Claim /\ c # None
  BY NodeAssumption DEF SlotInv, TypeOK, Claim
<1>3. CASE c = Root
  <2>1. passing # Root /\ passing' = passing
    BY <1>1, <1>2, <1>3 DEF SlotInv, PassingHolds
  <2> QED BY <1>1, <1>3, <2>1 DEF Budget!Wait
<1>4. CASE c # Root /\ c = passing
  BY <1>1, <1>2, <1>4 DEF Budget!Exit
<1>5. CASE c # Root /\ c # passing
  BY <1>1, <1>2, <1>5 DEF Budget!Exit
<1> QED BY <1>3, <1>4, <1>5

\* The slot pool implements the budget: every tree, however its Sessions come,
\* go, ask, start and end, keeps what SlotBudget promises (SlotPool.ts).
THEOREM PoolKeepsBudget == Spec => KeepsBudget
<1>1. Init => Budget!Init
  BY NodeAssumption DEF Init, Budget!Init
<1>2. SlotInv /\ SlotInv' /\ [Next]_vars => [Budget!Next]_(Budget!budgetVars)
  <2>1. ASSUME SlotInv, SlotInv', Next PROVE Budget!Next
    <3>1. asking' \in SUBSET Claim
      BY <2>1 DEF SlotInv, TypeOK, Claim
    <3> DEFINE Move == Budget!Wait \/ \E c \in Claim : Budget!Enter(c) \/ Budget!EnterPast(c) \/ Budget!Exit(c)
    <3> HIDE DEF Move
    <3>2. Move
      <4>1. ASSUME UNCHANGED <<holders, passing>> PROVE Move
        BY <4>1 DEF Budget!Wait, Move
      <4>2. CASE OfferTurn
        <5>1. NextTurn \in Node /\ (Full => passing = None /\ AllWait)
          BY <2>1, <4>2, NextTurnChoice DEF OfferTurn, SlotInv
        <5>2. CASE NextTurn \in due \ holders
          <6>1. Grant(NextTurn) /\ NextTurn \in Claim
            BY <4>2, <5>1, <5>2 DEF OfferTurn, Claim
          <6> QED BY <2>1, <5>1, <5>2, <6>1, GrantIsBudgeted DEF Move
        <5>3. CASE NextTurn \notin due \ holders
          BY <4>1, <4>2, <5>3 DEF OfferTurn
        <5> QED BY <5>2, <5>3
      <4>3. ASSUME NEW n \in Node, AskTurn(n) PROVE Move
        <5>1. CASE TurnRefused(n, None)
          BY <4>1, <4>3, <5>1 DEF AskTurn
        <5>2. CASE ~TurnRefused(n, None)
          <6>1. Grant(n) /\ n \in Claim /\ n \in Node \ holders
            BY <4>3, <5>2 DEF AskTurn, Claim
          <6>2. ASSUME n # Root, Full PROVE passing = None /\ AllWait
            <7>1. n # None
              BY NodeAssumption
            <7>2. passing = None /\ WaitedTurn(Append(keptTurns, n)) = n
              BY <5>2, <6>2, <7>1 DEF TurnRefused, TurnPasses
            <7>3. Append(keptTurns, n) \in Seq(Node)
              BY <2>1 DEF SlotInv, TypeOK
            <7> QED BY <7>1, <7>2, <7>3, WaitedTurnInQueue
          <6> QED BY <2>1, <6>1, <6>2, GrantIsBudgeted DEF Move
        <5> QED BY <5>1, <5>2
      <4>4. ASSUME NEW t \in Task, TickStart(t) PROVE Move
        <5>1. CASE StartRefused
          BY <4>1, <4>4, <5>1 DEF TickStart
        <5>2. CASE ~StartRefused
          <6>1. Grant(t) /\ t \in Claim /\ ~Full
            BY <4>4, <5>2 DEF TickStart, StartRefused, Claim
          <6> QED BY <2>1, <6>1, GrantIsBudgeted DEF Move
        <5> QED BY <5>1, <5>2
      <4>5. ASSUME NEW c \in holders, Free(c) PROVE Move
        BY <2>1, <4>5, FreeIsBudgeted DEF Move, SlotInv, TypeOK
      <4>6. ASSUME NEW n \in Node, EndTurn(n) PROVE Move
        BY <4>5, <4>6 DEF EndTurn
      <4>7. ASSUME NEW t \in Task, EndAttempt(t) PROVE Move
        BY <4>5, <4>7 DEF EndAttempt
      <4>8. CASE EndOfferTurns \/ ResumeOffer
        BY <4>1, <4>8 DEF EndOfferTurns, ResumeOffer
      <4>9. ASSUME NEW n \in Node, Join(n) \/ Leave(n) \/ TurnDue(n) \/ WithdrawTurn(n) \/ TickEnd(n) PROVE Move
        BY <4>1, <4>9 DEF Join, Leave, TurnDue, WithdrawTurn, TickEnd, poolVars
      <4>10. ASSUME NEW t \in Task, TaskReady(t) \/ Ask(t) \/ WakePlanner(t) PROVE Move
        BY <4>1, <4>10 DEF TaskReady, Ask, WakePlanner, poolVars
      <4> QED BY <2>1, <4>2, <4>3, <4>4, <4>6, <4>7, <4>8, <4>9, <4>10 DEF Next
    <3> QED BY <3>1, <3>2 DEF Budget!Next, Move
  <2>2. ASSUME UNCHANGED vars PROVE UNCHANGED Budget!budgetVars
    BY <2>2 DEF vars, poolVars, Budget!budgetVars
  <2> QED BY <2>1, <2>2
<1> QED BY <1>1, <1>2, SlotInvariant, PTL DEF Spec, KeepsBudget, Budget!Spec

-----------------------------------------------------------------------------
(* No slot is idle with somebody in line for it. *)

Distinct(s) == \A i, j \in 1..Len(s) : s[i] = s[j] => i = j

\* What is in the tree is of a Session of the tree, and only a child's turn is ever kept, once.
OfTheTree ==
    /\ Root \in nodes /\ due \subseteq nodes
    /\ \A c \in holders : NodeOf(c) \in nodes
    /\ \A t \in ready : Owner[t] \in nodes
    /\ ready \cap holders = {} /\ asking \subseteq holders /\ unheard \subseteq asking
    /\ \A i \in 1..Len(keptTurns) : keptTurns[i] \in nodes \ {Root}
    /\ Distinct(keptTurns)

\* An offer goes on in a tree only, and its count reaches every turn that is kept.
OfferReaches == ~Quiet => Shared /\ Len(keptTurns) <= turnsLeft

\* A start that is kept beside a free slot is one whose Session ticks, or one the offer under way comes to:
\* in a flat tree too, where nothing is offered, since what frees a slot there ticks the root.
StartsTick ==
    Quiet /\ Cardinality(holders) < Limit /\ ~offering =>
        \A t \in ready : Contains(keptStarts, Owner[t]) => Owner[t] \in ticking

IdleInv == OfTheTree /\ OfferReaches /\ NoIdleTurn /\ StartsTick /\ TreeNeverStalls

\* Dropping a node takes it out of a queue of distinct nodes, and nothing else.
LEMMA DropTakesOut ==
    ASSUME NEW s \in Seq(Node), NEW n \in Node, Distinct(s)
    PROVE  /\ Drop(s, n) \in Seq(Node) /\ Distinct(Drop(s, n))
           /\ \A i \in 1..Len(Drop(s, n)) : Drop(s, n)[i] # n /\ \E j \in 1..Len(s) : s[j] = Drop(s, n)[i]
           /\ (\E j \in 1..Len(s) : s[j] = n) => Len(Drop(s, n)) = Len(s) - 1
           /\ Len(Drop(s, n)) <= Len(s)
<1>1. CASE \E i \in DOMAIN s : s[i] = n
  <2> DEFINE at == CHOOSE i \in DOMAIN s : s[i] = n
             before == SubSeq(s, 1, at - 1)
             behind == SubSeq(s, at + 1, Len(s))
             d == before \o behind
  <2>1. at \in 1..Len(s) /\ s[at] = n
    BY <1>1
  <2>2. Drop(s, n) = d
    BY <1>1 DEF Drop
  <2> HIDE DEF at
  <2>3. at \in Int /\ at - 1 \in Int /\ at + 1 \in Int /\ Len(s) \in Int
    BY <2>1
  <2>4. \A i \in 1..Len(s) : s[i] \in Node
    OBVIOUS
  <2>5. /\ before \in Seq(Node) /\ Len(before) = at - 1
        /\ \A i \in 1..(at - 1) : before[i] = s[i]
    BY <2>1, <2>3, <2>4, SubSeqProperties
  <2>6. /\ behind \in Seq(Node) /\ Len(behind) = Len(s) - at
        /\ \A i \in 1..(Len(s) - at) : behind[i] = s[at + i]
    <3>1. /\ behind \in Seq(Node) /\ Len(behind) = IF at + 1 <= Len(s) THEN Len(s) - (at + 1) + 1 ELSE 0
          /\ \A i \in 1..(Len(s) - (at + 1) + 1) : behind[i] = s[(at + 1) + i - 1]
      <4>1. \A i \in (at + 1)..Len(s) : s[i] \in Node
        BY <2>1, <2>4
      <4> QED BY <2>3, <4>1, SubSeqProperties
    <3> QED BY <2>1, <3>1
  <2> HIDE DEF before, behind
  <2>7. /\ d \in Seq(Node) /\ Len(d) = Len(s) - 1
        /\ \A i \in 1..Len(d) : d[i] = IF i < at THEN s[i] ELSE s[i + 1]
    <3>1. /\ d \in Seq(Node) /\ Len(d) = Len(before) + Len(behind)
          /\ \A i \in 1..(Len(before) + Len(behind)) : d[i] = IF i <= Len(before) THEN before[i] ELSE behind[i - Len(before)]
      BY <2>5, <2>6, ConcatProperties
    <3>2. Len(d) = Len(s) - 1
      BY <2>1, <2>5, <2>6, <3>1
    <3>3. ASSUME NEW i \in 1..Len(d) PROVE d[i] = IF i < at THEN s[i] ELSE s[i + 1]
      <4>1. CASE i < at
        BY <2>1, <2>5, <2>6, <3>1, <3>3, <4>1
      <4>2. CASE ~(i < at)
        <5>1. d[i] = behind[i - (at - 1)] /\ i - (at - 1) \in 1..(Len(s) - at)
          BY <2>1, <2>5, <2>6, <3>1, <3>2, <4>2
        <5>2. behind[i - (at - 1)] = s[at + (i - (at - 1))] /\ at + (i - (at - 1)) = i + 1
          BY <2>1, <2>6, <5>1
        <5> QED BY <4>2, <5>1, <5>2
      <4> QED BY <4>1, <4>2
    <3> QED BY <3>1, <3>2, <3>3
  <2> HIDE DEF d
  <2>8. Distinct(d)
    BY <2>1, <2>7 DEF Distinct
  <2>9. \A i \in 1..Len(d) : d[i] # n /\ \E j \in 1..Len(s) : s[j] = d[i]
    BY <2>1, <2>7 DEF Distinct
  <2>10. Len(d) <= Len(s)
    BY <2>3, <2>7
  <2> QED BY <2>2, <2>7, <2>8, <2>9, <2>10
<1>2. CASE ~\E i \in DOMAIN s : s[i] = n
  <2>1. Drop(s, n) = s
    BY <1>2 DEF Drop
  <2> QED BY <1>2, <2>1
<1> QED BY <1>1, <1>2

\* Keeping a node puts it last, if it is not there yet.
LEMMA KeepPutsLast ==
    ASSUME NEW s \in Seq(Node), NEW n \in Node, Distinct(s)
    PROVE  /\ Keep(s, n) \in Seq(Node) /\ Distinct(Keep(s, n))
           /\ \A i \in 1..Len(Keep(s, n)) : Keep(s, n)[i] = n \/ \E j \in 1..Len(s) : s[j] = Keep(s, n)[i]
<1>1. CASE Contains(s, n)
  BY <1>1 DEF Keep
<1>2. CASE ~Contains(s, n)
  <2>1. Keep(s, n) = Append(s, n)
    BY <1>2 DEF Keep
  <2>2. /\ Append(s, n) \in Seq(Node) /\ Len(Append(s, n)) = Len(s) + 1
        /\ \A i \in 1..Len(s) : Append(s, n)[i] = s[i]
        /\ Append(s, n)[Len(s) + 1] = n
    BY AppendProperties
  <2>3. \A i \in 1..Len(s) : s[i] # n
    BY <1>2 DEF Contains
  <2>4. Distinct(Append(s, n))
    <3> SUFFICES ASSUME NEW i \in 1..(Len(s) + 1), NEW j \in 1..(Len(s) + 1), Append(s, n)[i] = Append(s, n)[j]
                 PROVE  i = j
      BY <2>2 DEF Distinct
    <3>1. CASE i = Len(s) + 1 \/ j = Len(s) + 1
      BY <2>2, <2>3, <3>1
    <3>2. CASE i \in 1..Len(s) /\ j \in 1..Len(s)
      BY <2>2, <3>2 DEF Distinct
    <3> QED BY <3>1, <3>2
  <2>5. \A i \in 1..Len(Append(s, n)) : Append(s, n)[i] = n \/ \E j \in 1..Len(s) : s[j] = Append(s, n)[i]
    <3> SUFFICES ASSUME NEW i \in 1..(Len(s) + 1) PROVE Append(s, n)[i] = n \/ \E j \in 1..Len(s) : s[j] = Append(s, n)[i]
      BY <2>2
    <3> QED BY <2>2
  <2> QED BY <2>1, <2>2, <2>4, <2>5
<1> QED BY <1>1, <1>2

\* In a flat tree no turn is kept.
LEMMA FlatKeepsNoTurn ==
    ASSUME TypeOK, OfTheTree, ~Shared
    PROVE  nodes = {Root} /\ keptTurns = <<>>
<1>1. nodes = {Root}
  BY DEF OfTheTree, Shared
<1>2. Len(keptTurns) = 0
  <2>1. SUFFICES ASSUME Len(keptTurns) # 0 PROVE FALSE
    OBVIOUS
  <2>2. 1 \in 1..Len(keptTurns)
    BY <2>1 DEF TypeOK
  <2> QED BY <1>1, <2>2 DEF OfTheTree
<1> QED BY <1>1, <1>2 DEF TypeOK

\* No turn that some holder waits on is kept, when there is one no holder works.
LEMMA WaitedTurnFound ==
    ASSUME NEW s \in Seq(Node), AllWait, \E i \in 1..Len(s) : HoldsSome(s[i])
    PROVE  WaitedTurn(s) # None /\ \E i \in 1..Len(s) : s[i] = WaitedTurn(s)
<1> DEFINE I == {i \in 1..Len(s) : HoldsSome(s[i])}
<1>1. I \in SUBSET Nat /\ I # {}
  OBVIOUS
<1>2. PICK i \in I : \A j \in I : ~(j < i)
  BY <1>1, LeastElement
<1>3. i \in DOMAIN s /\ HoldsSome(s[i])
  BY <1>2
<1>4. \A j \in 1..(i - 1) : ~HoldsSome(s[j])
  <2>1. SUFFICES ASSUME NEW j \in 1..(i - 1), HoldsSome(s[j]) PROVE FALSE
    OBVIOUS
  <2>2. j \in I /\ j < i
    BY <2>1, <1>3
  <2> QED BY <2>2, <1>2
<1> DEFINE first == CHOOSE k \in DOMAIN s : HoldsSome(s[k]) /\ \A j \in 1..(k - 1) : ~HoldsSome(s[j])
<1>5. first \in DOMAIN s
  BY <1>3, <1>4, Zenon
<1>6. WaitedTurn(s) = s[first]
  BY <1>3 DEF WaitedTurn
<1> HIDE DEF first
<1>7. s[first] \in Node /\ first \in 1..Len(s)
  BY <1>5
<1> QED BY <1>6, <1>7, NodeAssumption

\* What counts is what is held, in a tree with a child.
LEMMA FullIs ==
    ASSUME SlotInv
    PROVE  /\ Cardinality(holders) \in Nat
           /\ Full => Cardinality(holders) >= Limit
           /\ Shared => Counted = holders /\ (Full <=> Cardinality(holders) >= Limit)
<1>1. Cardinality(holders) \in Nat /\ IsFiniteSet(Counted) /\ Counted \subseteq holders
  BY FS_CardinalityType, FS_Subset DEF SlotInv, Counted
<1>2. Cardinality(Counted) \in Nat /\ Cardinality(Counted) <= Cardinality(holders)
  BY <1>1, FS_CardinalityType, FS_Subset DEF SlotInv
<1> QED BY <1>1, <1>2, LimitAssumption DEF Full, Counted

\* What is let go begins an offer, or the tree is flat.
LEMMA OfferBegins ==
    ASSUME keptTurns' \in Seq(Node), BeginOffer
    PROVE  /\ Quiet' => ~Shared'
           /\ ~Quiet' => Shared' /\ Len(keptTurns') <= turnsLeft'
BY DEF BeginOffer, Quiet, NotOffering

\* The queue of turns stays one of distinct children of the tree.
LEMMA DropStays ==
    ASSUME keptTurns \in Seq(Node), OfTheTree, NEW n \in Node
    PROVE  /\ \A i \in 1..Len(Drop(keptTurns, n)) : Drop(keptTurns, n)[i] \in (nodes \ {Root}) \ {n}
           /\ Distinct(Drop(keptTurns, n))
<1>1. Distinct(keptTurns) /\ \A i \in 1..Len(keptTurns) : keptTurns[i] \in nodes \ {Root}
  BY DEF OfTheTree
<1>2. /\ Distinct(Drop(keptTurns, n))
      /\ \A i \in 1..Len(Drop(keptTurns, n)) :
            Drop(keptTurns, n)[i] # n /\ \E j \in 1..Len(keptTurns) : keptTurns[j] = Drop(keptTurns, n)[i]
  BY <1>1, DropTakesOut
<1> QED BY <1>1, <1>2

(* A node of the tree that is kept joins the queue, which still names each Session of the tree once (keep). *)
LEMMA KeepStays ==
    ASSUME keptTurns \in Seq(Node), OfTheTree, NEW n \in nodes \ {Root}, n \in Node
    PROVE  /\ \A i \in 1..Len(Keep(keptTurns, n)) : Keep(keptTurns, n)[i] \in nodes \ {Root}
           /\ Distinct(Keep(keptTurns, n))
<1>1. Distinct(keptTurns) /\ \A i \in 1..Len(keptTurns) : keptTurns[i] \in nodes \ {Root}
  BY DEF OfTheTree
<1>2. /\ Distinct(Keep(keptTurns, n))
      /\ \A i \in 1..Len(Keep(keptTurns, n)) :
            Keep(keptTurns, n)[i] = n \/ \E j \in 1..Len(keptTurns) : keptTurns[j] = Keep(keptTurns, n)[i]
  BY <1>1, KeepPutsLast
<1> QED BY <1>1, <1>2

(* No step leaves a Session that has gone in a queue, a hold or a question: leaving takes it out of each (leave). *)
LEMMA TreeKept ==
    ASSUME SlotInv, OfTheTree, Next
    PROVE  OfTheTree'
<1> USE DEF SlotInv
<1>0. TypeOK /\ keptTurns \in Seq(Node) /\ Distinct(keptTurns) /\ holders \subseteq Claim /\ Owner \in [Task -> Node]
      /\ Node \cap Task = {} /\ asking \subseteq Task
  BY NodeAssumption, TaskAssumption DEF TypeOK, OfTheTree
<1>1. CASE OfferTurn
  <2> DEFINE n == NextTurn
  <2>1. n \in Node /\ keptTurns' = Drop(keptTurns, n)
    BY <1>1, NextTurnChoice DEF OfferTurn
  <2>2. UNCHANGED <<nodes, ready, asking, unheard>>
    BY <1>1 DEF OfferTurn
  <2>3. holders' \subseteq holders \cup {n} /\ holders \subseteq holders' /\ due' \subseteq due
        /\ (holders' # holders => n \in due)
    BY <1>1 DEF OfferTurn, Grant
  <2>4. (\A i \in 1..Len(keptTurns') : keptTurns'[i] \in nodes \ {Root}) /\ Distinct(keptTurns')
    BY <1>0, <2>1, DropStays
  <2>5. \A c \in holders' : NodeOf(c) \in nodes
    BY <1>0, <2>1, <2>3 DEF OfTheTree, NodeOf
  <2>6. n \notin Task /\ ready \subseteq Task
    BY <1>0, <2>1 DEF TypeOK
  <2> HIDE DEF n
  <2> QED BY <2>2, <2>3, <2>4, <2>5, <2>6 DEF OfTheTree, Distinct, NodeOf
<1>2. CASE EndOfferTurns \/ ResumeOffer
  BY <1>2 DEF EndOfferTurns, ResumeOffer, OfTheTree, Distinct, NodeOf
<1>3. ASSUME NEW n \in Node, Join(n) PROVE OfTheTree'
  BY <1>3 DEF Join, OfTheTree, Distinct, NodeOf
<1>4. ASSUME NEW n \in Node, Leave(n) PROVE OfTheTree'
  <2>1. (\A i \in 1..Len(keptTurns') : keptTurns'[i] \in nodes' \ {Root}) /\ Distinct(keptTurns')
    <3>1. keptTurns' = Drop(keptTurns, n) /\ nodes' = nodes \ {n}
      BY <1>4 DEF Leave
    <3> QED BY <1>0, <3>1, DropStays
  <2>2. nodes' = nodes \ {n} /\ n # Root /\ due' = due \ {n} /\ ready' = {t \in ready : Owner[t] # n}
        /\ (\A c \in holders : NodeOf(c) # n) /\ UNCHANGED <<holders, asking, unheard>>
    BY <1>4 DEF Leave
  <2> QED BY <2>1, <2>2 DEF OfTheTree, Distinct, NodeOf
<1>5. ASSUME NEW n \in Node, TurnDue(n) \/ WithdrawTurn(n) \/ TickEnd(n) PROVE OfTheTree'
  BY <1>5 DEF TurnDue, WithdrawTurn, TickEnd, poolVars, OfTheTree, Distinct, NodeOf
<1>6. ASSUME NEW n \in Node, AskTurn(n) PROVE OfTheTree'
  <2>1. UNCHANGED <<nodes, ready, asking, unheard>> /\ n \in nodes
    BY <1>6 DEF AskTurn, OfTheTree
  <2>2. CASE TurnRefused(n, None)
    <3>1. keptTurns' = Keep(keptTurns, n) /\ n # Root /\ UNCHANGED <<holders, due>>
      BY <1>6, <2>2 DEF AskTurn, TurnRefused
    <3>2. (\A i \in 1..Len(keptTurns') : keptTurns'[i] \in nodes \ {Root}) /\ Distinct(keptTurns')
      BY <1>0, <2>1, <3>1, KeepStays
    <3> QED BY <2>1, <3>1, <3>2 DEF OfTheTree, Distinct, NodeOf
  <2>3. CASE ~TurnRefused(n, None)
    <3>1. keptTurns' = Drop(keptTurns, n) /\ holders' = holders \cup {n} /\ due' = due \ {n}
      BY <1>6, <2>3 DEF AskTurn, Grant
    <3>2. (\A i \in 1..Len(keptTurns') : keptTurns'[i] \in nodes \ {Root}) /\ Distinct(keptTurns')
      BY <1>0, <3>1, DropStays
    <3>3. \A c \in holders' : NodeOf(c) \in nodes
      BY <1>0, <2>1, <3>1 DEF OfTheTree, NodeOf
    <3>4. n \notin Task /\ ready \subseteq Task
      BY <1>0 DEF TypeOK
    <3> QED BY <2>1, <3>1, <3>2, <3>3, <3>4 DEF OfTheTree, Distinct, NodeOf
  <2> QED BY <2>2, <2>3
<1>7. ASSUME NEW n \in Node, EndTurn(n) PROVE OfTheTree'
  <2>1. holders' = holders \ {n} /\ asking' \subseteq asking /\ n \notin asking
        /\ (\A t \in unheard : t \in asking => t \in asking')
        /\ UNCHANGED <<nodes, keptTurns, due, ready, unheard>>
    BY <1>0, <1>7 DEF EndTurn, Free
  <2> QED BY <2>1 DEF OfTheTree, Distinct, NodeOf
<1>8. ASSUME NEW t \in Task, TaskReady(t) PROVE OfTheTree'
  BY <1>8 DEF TaskReady, poolVars, OfTheTree, Distinct, NodeOf
<1>9. ASSUME NEW t \in Task, TickStart(t) PROVE OfTheTree'
  <2>1. t \in ready /\ UNCHANGED <<nodes, keptTurns, due, asking, unheard>>
    BY <1>9 DEF TickStart
  <2>2. \/ UNCHANGED <<holders, ready>>
        \/ holders' = holders \cup {t} /\ ready' = ready \ {t}
    <3>1. CASE StartRefused
      BY <1>9, <3>1 DEF TickStart
    <3>2. CASE ~StartRefused
      BY <1>9, <3>2 DEF TickStart, Grant
    <3> QED BY <3>1, <3>2
  <2>3. \A c \in holders' : NodeOf(c) \in nodes
    BY <1>0, <2>1, <2>2 DEF OfTheTree, NodeOf
  <2> QED BY <2>1, <2>2, <2>3 DEF OfTheTree, Distinct, NodeOf
<1>10. ASSUME NEW t \in Task, EndAttempt(t) PROVE OfTheTree'
  BY <1>10 DEF EndAttempt, Free, OfTheTree, Distinct, NodeOf
<1>11. ASSUME NEW t \in Task, Ask(t) PROVE OfTheTree'
  BY <1>11 DEF Ask, OfTheTree, Distinct, NodeOf
<1>12. ASSUME NEW t \in Task, WakePlanner(t) PROVE OfTheTree'
  BY <1>12 DEF WakePlanner, poolVars, OfTheTree, Distinct, NodeOf
<1> QED BY <1>1, <1>2, <1>3, <1>4, <1>5, <1>6, <1>7, <1>8, <1>9, <1>10, <1>11, <1>12 DEF Next

(* An offer counts as many rounds as turns wait when it begins, and each round takes one of them (offer). *)
LEMMA ReachKept ==
    ASSUME SlotInv, SlotInv', OfTheTree, OfferReaches, Next
    PROVE  OfferReaches'
<1>0. keptTurns \in Seq(Node) /\ keptTurns' \in Seq(Node) /\ Distinct(keptTurns)
  BY DEF SlotInv, TypeOK, OfTheTree
<1>1. CASE OfferTurn
  <2>1. ~Quiet /\ NextTurn \in Node /\ keptTurns' = Drop(keptTurns, NextTurn) /\ turnsLeft' = turnsLeft - 1
        /\ nodes' = nodes /\ turnsLeft \in Nat /\ turnsLeft > 0
    BY <1>1, NextTurnChoice DEF OfferTurn, Quiet, NotOffering, SlotInv, TypeOK
  <2>2. \E i \in 1..Len(keptTurns) : keptTurns[i] = NextTurn
    <3>1. CASE ~Full
      <4>1. NextTurn = Head(keptTurns) /\ keptTurns # <<>>
        BY <1>1, <3>1 DEF OfferTurn, NextTurn
      <4>2. 1 \in 1..Len(keptTurns) /\ keptTurns[1] = NextTurn
        BY <1>0, <4>1
      <4> QED BY <4>2
    <3>2. CASE Full
      <4>1. NextTurn = WaitedTurn(keptTurns) /\ NextTurn # None
        BY <1>1, <3>2 DEF OfferTurn, NextTurn
      <4>2. AllWait /\ \E i \in 1..Len(keptTurns) : HoldsSome(keptTurns[i])
        BY <1>0, <4>1 DEF WaitedTurn
      <4> QED BY <1>0, <4>1, <4>2, WaitedTurnFound
    <3> QED BY <3>1, <3>2
  <2>3. Len(keptTurns') = Len(keptTurns) - 1
    BY <1>0, <2>1, <2>2, DropTakesOut
  <2> QED BY <1>0, <2>1, <2>3 DEF OfferReaches, Shared
<1>2. ASSUME keptTurns' \in Seq(Node), BeginOffer PROVE OfferReaches'
  BY <1>2, OfferBegins DEF OfferReaches
<1>3. ASSUME Quiet, turnsLeft' = turnsLeft PROVE OfferReaches'
  BY <1>3 DEF OfferReaches, Quiet
<1>4. CASE EndOfferTurns
  BY <1>4 DEF EndOfferTurns, OfferReaches, Quiet
<1>5. CASE ResumeOffer
  BY <1>3, <1>5 DEF ResumeOffer
<1>6. ASSUME NEW n \in Node, Join(n) \/ TurnDue(n) \/ WithdrawTurn(n) \/ AskTurn(n) \/ TickEnd(n) PROVE OfferReaches'
  BY <1>3, <1>6 DEF Join, TurnDue, WithdrawTurn, AskTurn, TickEnd, poolVars
<1>7. ASSUME NEW n \in Node, Leave(n) \/ EndTurn(n) PROVE OfferReaches'
  BY <1>0, <1>2, <1>7 DEF Leave, EndTurn, Free
<1>8. ASSUME NEW t \in Task, TaskReady(t) \/ TickStart(t) \/ WakePlanner(t) PROVE OfferReaches'
  BY <1>3, <1>8 DEF TaskReady, TickStart, WakePlanner, poolVars
<1>9. ASSUME NEW t \in Task, EndAttempt(t) \/ Ask(t) PROVE OfferReaches'
  BY <1>0, <1>2, <1>9 DEF EndAttempt, Ask, Free
<1> QED BY <1>1, <1>4, <1>5, <1>6, <1>7, <1>8, <1>9 DEF Next

\* A kept start is ticked, or the offer comes to it.
LEMMA StartsKept ==
    ASSUME SlotInv, SlotInv', OfTheTree, OfTheTree', StartsTick, Next
    PROVE  StartsTick'
<1> DEFINE Big == Cardinality(holders) < Limit
<1>0. /\ keptTurns \in Seq(Node) /\ keptTurns' \in Seq(Node) /\ keptStarts \in Seq(Node)
      /\ IsFiniteSet(holders) /\ IsFiniteSet(holders') /\ Owner \in [Task -> Node] /\ ready \subseteq Task
  BY TaskAssumption DEF SlotInv, TypeOK
<1>1. ASSUME holders \subseteq holders', Big' PROVE Big
  <2>1. Cardinality(holders) <= Cardinality(holders') /\ Cardinality(holders) \in Nat /\ Cardinality(holders') \in Nat
    BY <1>0, <1>1, FS_Subset, FS_CardinalityType
  <2> QED BY <1>1, <2>1, LimitAssumption
<1> USE DEF StartsTick
<1>2. CASE OfferTurn
  <2>1. ~Quiet'
    BY <1>2 DEF OfferTurn, Quiet, NotOffering, SlotInv, TypeOK
  <2> QED BY <2>1
<1>3. CASE EndOfferTurns \/ ResumeOffer
  <2>1. holders' = holders /\ ready' = ready
    BY <1>3 DEF EndOfferTurns, ResumeOffer
  <2>2. CASE offering'
    BY <2>2
  <2>3. CASE ~offering'
    <3>1. keptStarts' = keptStarts /\ (keptStarts = <<>> \/ Full)
      BY <1>3, <2>3 DEF EndOfferTurns, ResumeOffer, OfferStart
    <3>2. Full => ~Big
      BY FullIs, LimitAssumption
    <3>3. keptStarts = <<>> => \A n \in Node : ~Contains(keptStarts, n)
      BY DEF Contains
    <3> QED BY <1>0, <2>1, <3>1, <3>2, <3>3
  <2> QED BY <2>2, <2>3
<1>4. ASSUME Quiet, holders \subseteq holders', keptStarts' = keptStarts, ready' \subseteq ready, offering' = offering,
             ticking \subseteq ticking'
      PROVE  StartsTick'
  BY <1>1, <1>4
<1>5. ASSUME NEW n \in Node, Join(n) \/ TurnDue(n) \/ WithdrawTurn(n) PROVE StartsTick'
  BY <1>4, <1>5 DEF Join, TurnDue, WithdrawTurn, poolVars
<1>6. ASSUME NEW n \in Node, AskTurn(n) PROVE StartsTick'
  <2>1. holders \subseteq holders'
    BY <1>6 DEF AskTurn, Grant
  <2> QED BY <1>4, <1>6, <2>1 DEF AskTurn
<1>7. ASSUME NEW n \in Node, TickEnd(n) PROVE StartsTick'
  BY <1>1, <1>7 DEF TickEnd, TickOver, Quiet
<1>8. ASSUME NEW t \in Task, TaskReady(t) PROVE StartsTick'
  BY <1>1, <1>8 DEF TaskReady, poolVars, Quiet
<1>9. ASSUME NEW t \in Task, WakePlanner(t) PROVE StartsTick'
  BY <1>4, <1>9 DEF WakePlanner, poolVars
<1>10. ASSUME NEW t \in Task, TickStart(t) PROVE StartsTick'
  <2>1. CASE StartRefused
    <3>1. ~Big /\ holders' = holders
      BY <1>10, <2>1, FullIs, LimitAssumption DEF StartRefused, TickStart
    <3> QED BY <3>1
  <2>2. CASE ~StartRefused
    BY <1>4, <1>10, <2>2 DEF TickStart, Grant
  <2> QED BY <2>1, <2>2
<1>11. ASSUME NEW n \in Node, Leave(n) PROVE StartsTick'
  <2>1. UNCHANGED <<holders, offering>> /\ ready' = {t \in ready : Owner[t] # n} /\ ticking' = ticking \ {n}
        /\ Quiet /\ keptStarts' = Drop(keptStarts, n)
    BY <1>11 DEF Leave
  <2>2. \A m \in Node : Contains(keptStarts', m) => Contains(keptStarts, m)
    <3>1. CASE \E i \in DOMAIN keptStarts : keptStarts[i] = n
      <4> DEFINE at == CHOOSE i \in DOMAIN keptStarts : keptStarts[i] = n
                 before == SubSeq(keptStarts, 1, at - 1)
                 behind == SubSeq(keptStarts, at + 1, Len(keptStarts))
      <4>1. at \in 1..Len(keptStarts)
        BY <3>1
      <4>2. keptStarts' = before \o behind
        BY <2>1, <3>1 DEF Drop
      <4> HIDE DEF at
      <4>3. at - 1 \in Int /\ at + 1 \in Int /\ Len(keptStarts) \in Int /\ 1 \in Int /\ at \in Int
        BY <4>1
      <4>4. \A i \in 1..Len(keptStarts) : keptStarts[i] \in Node
        BY <1>0
      <4>5. before \in Seq(Node) /\ (Len(before) = IF 1 <= at - 1 THEN at - 1 - 1 + 1 ELSE 0)
            /\ \A i \in 1..(at - 1 - 1 + 1) : before[i] = keptStarts[1 + i - 1]
        BY <4>1, <4>3, <4>4, SubSeqProperties
      <4>6. behind \in Seq(Node) /\ (Len(behind) = IF at + 1 <= Len(keptStarts) THEN Len(keptStarts) - (at + 1) + 1 ELSE 0)
            /\ \A i \in 1..(Len(keptStarts) - (at + 1) + 1) : behind[i] = keptStarts[at + 1 + i - 1]
        <5>1. \A i \in (at + 1)..Len(keptStarts) : keptStarts[i] \in Node
          BY <4>1, <4>4
        <5> QED BY <4>3, <5>1, SubSeqProperties
      <4> HIDE DEF before, behind
      <4>7. /\ Len(before \o behind) = Len(before) + Len(behind)
            /\ \A i \in 1..(Len(before) + Len(behind)) :
                  (before \o behind)[i] = IF i <= Len(before) THEN before[i] ELSE behind[i - Len(before)]
        BY <4>5, <4>6, ConcatProperties
      <4>8. \A i \in 1..Len(before) : \E j \in 1..Len(keptStarts) : keptStarts[j] = before[i]
        BY <4>1, <4>5
      <4>9. \A i \in 1..Len(behind) : \E j \in 1..Len(keptStarts) : keptStarts[j] = behind[i]
        <5> SUFFICES ASSUME NEW i \in 1..Len(behind) PROVE \E j \in 1..Len(keptStarts) : keptStarts[j] = behind[i]
          OBVIOUS
        <5>1. behind[i] = keptStarts[at + i] /\ at + i \in 1..Len(keptStarts)
          BY <4>1, <4>6
        <5> QED BY <5>1
      <4>10. Len(before) \in Nat /\ Len(behind) \in Nat
        BY <4>5, <4>6
      <4> SUFFICES ASSUME NEW m \in Node, NEW i \in 1..(Len(before) + Len(behind)), (before \o behind)[i] = m
                   PROVE  \E j \in 1..Len(keptStarts) : keptStarts[j] = m
        BY <4>2, <4>7 DEF Contains
      <4>11. CASE i <= Len(before)
        BY <4>7, <4>8, <4>10, <4>11
      <4>12. CASE ~(i <= Len(before))
        <5>1. i - Len(before) \in 1..Len(behind)
          BY <4>10, <4>12
        <5> QED BY <4>7, <4>9, <4>12, <5>1
      <4> QED BY <4>11, <4>12
    <3>2. CASE ~\E i \in DOMAIN keptStarts : keptStarts[i] = n
      BY <2>1, <3>2 DEF Drop
    <3> QED BY <3>1, <3>2
  <2> QED BY <1>0, <2>1, <2>2
<1>12. ASSUME NEW c \in holders, holders' = holders \ {c}, BeginOffer, ticking' = ticking \cup {NodeOf(c)},
              UNCHANGED <<nodes, ready>>
       PROVE  StartsTick'
  <2>1. CASE Shared'
    <3>1. ~Quiet'
      BY <1>0, <1>12, <2>1, OfferBegins
    <3> QED BY <3>1
  <2>2. CASE ~Shared'
    <3>1. nodes = {Root}
      BY <1>12, <2>2 DEF Shared, OfTheTree
    <3>2. NodeOf(c) = Root /\ \A t \in ready : Owner[t] = Root
      BY <3>1 DEF OfTheTree
    <3> QED BY <1>12, <3>2
  <2> QED BY <2>1, <2>2
<1>13. ASSUME NEW n \in Node, EndTurn(n) PROVE StartsTick'
  <2>1. NodeOf(n) = n
    BY TaskAssumption DEF NodeOf
  <2> QED BY <1>12, <1>13, <2>1 DEF EndTurn, Free
<1>14. ASSUME NEW t \in Task, EndAttempt(t) PROVE StartsTick'
  BY <1>12, <1>14 DEF EndAttempt, Free, NodeOf
<1>15. ASSUME NEW t \in Task, Ask(t) PROVE StartsTick'
  BY <1>4, <1>15 DEF Ask
<1> QED BY <1>2, <1>3, <1>5, <1>6, <1>7, <1>8, <1>9, <1>10, <1>11, <1>13, <1>14, <1>15 DEF Next

\* What is said of kept turns between two offers.
TurnsRest == Quiet /\ Shared =>
    /\ ~Full => keptTurns = <<>>
    /\ AllWait /\ passing = None => \A i \in 1..Len(keptTurns) : ~HoldsSome(keptTurns[i])

(* What the queue leaves alone when the pool is at rest is the two properties TLC checks. *)
LEMMA TurnsRestIs ==
    ASSUME SlotInv
    PROVE  TurnsRest <=> NoIdleTurn /\ TreeNeverStalls
BY DEF TurnsRest, NoIdleTurn, TreeNeverStalls, SlotInv, TypeOK

(* Every step that makes room, or sets every holder waiting, begins an offer (free, leave, noteWaiting), so a
   pool at rest has no turn it could have granted. *)
LEMMA TurnsKept ==
    ASSUME SlotInv, SlotInv', OfTheTree, OfTheTree', OfferReaches, TurnsRest, Next
    PROVE  TurnsRest'
<1>0. /\ keptTurns \in Seq(Node) /\ keptTurns' \in Seq(Node) /\ IsFiniteSet(holders) /\ IsFiniteSet(holders')
      /\ TypeOK /\ turnsLeft \in Nat \cup {NotOffering}
  BY DEF SlotInv, TypeOK
<1>1. CASE OfferTurn
  <2>1. ~Quiet'
    BY <1>0, <1>1 DEF OfferTurn, Quiet, NotOffering
  <2> QED BY <2>1 DEF TurnsRest
<1>2. CASE EndOfferTurns
  <2>1. UNCHANGED <<nodes, holders, passing, keptTurns, asking>> /\ ~Quiet /\ (turnsLeft = 0 \/ NextTurn = None)
    BY <1>2 DEF EndOfferTurns
  <2>2. CASE keptTurns = <<>>
    BY <2>1, <2>2 DEF TurnsRest
  <2>3. CASE keptTurns # <<>>
    <3>1. NextTurn = None
      BY <1>0, <2>1, <2>3 DEF OfferReaches
    <3>2. Full
      BY <1>0, <2>3, <3>1, NodeAssumption DEF NextTurn
    <3>3. AllWait /\ passing = None => \A i \in 1..Len(keptTurns) : ~HoldsSome(keptTurns[i])
      BY <1>0, <3>1, <3>2, WaitedTurnFound DEF NextTurn
    <3>4. Full' /\ (AllWait /\ passing = None)' = (AllWait /\ passing = None)
      BY <2>1, <3>2 DEF Full, Counted, Shared, AllWait
    <3>5. \A n : HoldsSome(n)' = HoldsSome(n)
      BY <2>1 DEF HoldsSome, Counted, Shared
    <3> QED BY <2>1, <3>3, <3>4, <3>5 DEF TurnsRest
  <2> QED BY <2>2, <2>3
<1>3. ASSUME Quiet, UNCHANGED <<nodes, holders, passing, keptTurns, asking>> PROVE TurnsRest'
  <2>1. Full' = Full /\ AllWait' = AllWait /\ Shared' = Shared
    BY <1>3 DEF Full, Counted, Shared, AllWait
  <2>2. \A n : HoldsSome(n)' = HoldsSome(n)
    BY <1>3 DEF HoldsSome, Counted, Shared
  <2> QED BY <1>3, <2>1, <2>2 DEF TurnsRest
<1>4. ASSUME BeginOffer PROVE TurnsRest'
  BY <1>0, <1>4, OfferBegins DEF TurnsRest
<1>5. ASSUME NEW n \in Node, Join(n) PROVE TurnsRest'
  <2>1. UNCHANGED <<holders, passing, keptTurns, asking>> /\ Quiet /\ nodes' = nodes \cup {n}
    BY <1>5 DEF Join
  <2>2. CASE Shared
    <3>1. Shared' /\ Counted' = Counted
      BY <2>1, <2>2 DEF Shared, Counted
    <3>2. Full' = Full /\ AllWait' = AllWait
      BY <2>1, <3>1 DEF Full, AllWait
    <3>3. \A m : HoldsSome(m)' = HoldsSome(m)
      BY <3>1 DEF HoldsSome
    <3> QED BY <2>1, <2>2, <3>2, <3>3 DEF TurnsRest
  <2>3. CASE ~Shared
    <3>1. keptTurns' = <<>>
      BY <1>0, <2>1, <2>3, FlatKeepsNoTurn
    <3> QED BY <3>1 DEF TurnsRest
  <2> QED BY <2>2, <2>3
<1>6. ASSUME NEW c \in Claim \ asking, Quiet, holders' = holders \cup {c}, UNCHANGED <<nodes, asking>>,
             ~Full => keptTurns = <<>> \/ ~Shared, keptTurns = <<>> => keptTurns' = <<>>
      PROVE  TurnsRest'
  <2>1. SUFFICES ASSUME Shared' PROVE TurnsRest'
    BY DEF TurnsRest
  <2>2. Shared /\ c \in Counted'
    BY <1>6, <2>1 DEF Shared, Counted
  <2>3. ~AllWait'
    BY <1>6, <2>2 DEF AllWait
  <2>4. Full => Full'
    <3>1. Cardinality(holders) <= Cardinality(holders') /\ Cardinality(holders) \in Nat /\ Cardinality(holders') \in Nat
      BY <1>0, <1>6, FS_Subset, FS_CardinalityType
    <3>2. Counted = holders /\ Counted' = holders'
      BY <2>1, <2>2 DEF Counted
    <3> QED BY <3>1, <3>2, LimitAssumption DEF Full
  <2> QED BY <1>6, <2>2, <2>3, <2>4 DEF TurnsRest
<1>7. ASSUME NEW n \in Node, AskTurn(n) PROVE TurnsRest'
  <2>1. Quiet /\ UNCHANGED <<nodes, asking, turnsLeft>>
    BY <1>7 DEF AskTurn
  <2>2. CASE TurnRefused(n, None)
    <3>1. UNCHANGED <<holders, passing>> /\ keptTurns' = Keep(keptTurns, n) /\ Full
      BY <1>7, <2>2 DEF AskTurn, TurnRefused
    <3>2. Full' /\ (AllWait /\ passing = None)' = (AllWait /\ passing = None) /\ Shared' = Shared
      BY <2>1, <3>1 DEF Full, Counted, Shared, AllWait
    <3>3. \A m : HoldsSome(m)' = HoldsSome(m)
      BY <2>1, <3>1 DEF HoldsSome, Counted, Shared
    <3>4. SUFFICES ASSUME Shared, AllWait, passing = None, NEW i \in 1..Len(keptTurns'), HoldsSome(keptTurns'[i])
                   PROVE  FALSE
      BY <3>2, <3>3 DEF TurnsRest
    <3>5. \A j \in 1..Len(keptTurns) : ~HoldsSome(keptTurns[j])
      BY <2>1, <3>4 DEF TurnsRest
    <3>6. keptTurns'[i] = n \/ \E j \in 1..Len(keptTurns) : keptTurns[j] = keptTurns'[i]
      <4>1. Distinct(keptTurns)
        BY DEF OfTheTree
      <4>2. \A k \in 1..Len(Keep(keptTurns, n)) :
               Keep(keptTurns, n)[k] = n \/ \E j \in 1..Len(keptTurns) : keptTurns[j] = Keep(keptTurns, n)[k]
        BY <1>0, <4>1, KeepPutsLast
      <4> QED BY <3>1, <3>4, <4>2
    <3>7. HoldsSome(n)
      BY <3>4, <3>5, <3>6
    <3>8. /\ Append(keptTurns, n) \in Seq(Node) /\ Len(Append(keptTurns, n)) = Len(keptTurns) + 1
          /\ \A j \in 1..Len(keptTurns) : Append(keptTurns, n)[j] = keptTurns[j]
          /\ Append(keptTurns, n)[Len(keptTurns) + 1] = n
      BY <1>0, AppendProperties
    <3>9. Len(keptTurns) + 1 \in 1..Len(Append(keptTurns, n)) /\ HoldsSome(Append(keptTurns, n)[Len(keptTurns) + 1])
      BY <1>0, <3>7, <3>8
    <3> DEFINE w == WaitedTurn(Append(keptTurns, n))
    <3>10. w # None /\ \E j \in 1..Len(Append(keptTurns, n)) : Append(keptTurns, n)[j] = w
      BY <3>4, <3>8, <3>9, WaitedTurnFound
    <3>11. HoldsSome(w)
      BY <3>8, <3>10, WaitedTurnInQueue
    <3>12. w = n
      <4>1. PICK j \in 1..(Len(keptTurns) + 1) : Append(keptTurns, n)[j] = w
        BY <3>8, <3>10
      <4>2. j \notin 1..Len(keptTurns)
        BY <3>5, <3>8, <3>11, <4>1
      <4> QED BY <1>0, <3>8, <4>1, <4>2
    <3> QED BY <2>2, <3>4, <3>12 DEF TurnRefused, TurnPasses
  <2>3. CASE ~TurnRefused(n, None)
    <3>1. holders' = holders \cup {n} /\ keptTurns' = Drop(keptTurns, n)
      BY <1>7, <2>3 DEF AskTurn, Grant
    <3>2. keptTurns = <<>> => keptTurns' = <<>>
      BY <3>1 DEF Drop
    <3>3. n \in Claim \ asking
      BY <1>0, TaskAssumption DEF Claim, TypeOK
    <3> QED BY <1>6, <2>1, <3>1, <3>2, <3>3 DEF TurnsRest
  <2> QED BY <2>2, <2>3
<1>8. ASSUME NEW t \in Task, TickStart(t) PROVE TurnsRest'
  <2>1. Quiet /\ UNCHANGED <<nodes, asking, keptTurns>> /\ t \in ready
    BY <1>8 DEF TickStart
  <2>2. CASE StartRefused
    BY <1>3, <1>8, <2>2 DEF TickStart
  <2>3. CASE ~StartRefused
    <3>1. holders' = holders \cup {t} /\ t \in Claim \ asking
      BY <1>8, <2>1, <2>3 DEF TickStart, Grant, OfTheTree, Claim
    <3> QED BY <1>6, <2>1, <3>1 DEF TurnsRest
  <2> QED BY <2>2, <2>3
<1>9. CASE ResumeOffer
  BY <1>3, <1>9 DEF ResumeOffer
<1>10. ASSUME NEW n \in Node, TurnDue(n) \/ WithdrawTurn(n) \/ TickEnd(n) PROVE TurnsRest'
  BY <1>3, <1>10 DEF TurnDue, WithdrawTurn, TickEnd, poolVars
<1>11. ASSUME NEW t \in Task, TaskReady(t) \/ WakePlanner(t) PROVE TurnsRest'
  BY <1>3, <1>11 DEF TaskReady, WakePlanner, poolVars
<1>12. ASSUME NEW n \in Node, Leave(n) \/ EndTurn(n) PROVE TurnsRest'
  BY <1>4, <1>12 DEF Leave, EndTurn, Free
<1>13. ASSUME NEW t \in Task, EndAttempt(t) \/ Ask(t) PROVE TurnsRest'
  BY <1>4, <1>13 DEF EndAttempt, Ask, Free
<1> QED BY <1>1, <1>2, <1>5, <1>7, <1>8, <1>9, <1>10, <1>11, <1>12, <1>13 DEF Next

\* All of it is kept together.
LEMMA IdleInvHolds == Spec => []IdleInv
<1>1. Init => IdleInv
  <2> SUFFICES ASSUME Init PROVE IdleInv
    OBVIOUS
  <2>1. Quiet /\ keptTurns = <<>> /\ keptStarts = <<>> /\ ready = {}
    BY DEF Init, Quiet
  <2>2. OfTheTree
    BY <2>1 DEF Init, OfTheTree, Distinct
  <2>3. TreeNeverStalls
    BY <2>1 DEF TreeNeverStalls
  <2> QED BY <2>1, <2>2, <2>3 DEF IdleInv, OfferReaches, NoIdleTurn, StartsTick
<1>2. SlotInv /\ SlotInv' /\ IdleInv /\ [Next]_vars => IdleInv'
  <2>1. ASSUME SlotInv, SlotInv', IdleInv, Next PROVE IdleInv'
    <3>1. OfTheTree' /\ OfferReaches' /\ StartsTick'
      BY <2>1, TreeKept, ReachKept, StartsKept DEF IdleInv
    <3>2. TurnsRest'
      BY <2>1, <3>1, TurnsKept, TurnsRestIs DEF IdleInv
    <3>3. NoIdleTurn'
      BY <3>2 DEF TurnsRest, NoIdleTurn
    <3>4. TreeNeverStalls'
      <4>1. DOMAIN keptTurns' = 1..Len(keptTurns')
        BY <2>1 DEF SlotInv, TypeOK
      <4> QED BY <3>2, <4>1 DEF TurnsRest, TreeNeverStalls
    <3> QED BY <3>1, <3>3, <3>4 DEF IdleInv
  <2>2. ASSUME IdleInv, UNCHANGED vars PROVE IdleInv'
    BY <2>2 DEF vars, poolVars, IdleInv, OfTheTree, Distinct, NodeOf, OfferReaches, Quiet, Shared, NoIdleTurn, Full,
                Counted, StartsTick, TreeNeverStalls, AllWait, HoldsSome
  <2> QED BY <2>1, <2>2
<1> QED BY <1>1, <1>2, SlotInvariant, PTL DEF Spec

\* No slot is free with somebody in line for it, whether a turn or a start, once what freed it is over
\* (SlotPool.offer): for every tree, every limit and any number of attempts.
THEOREM SlotsAreUsed == Spec => []NoIdleSlot
<1>1. SlotInv /\ IdleInv => NoIdleSlot
  BY FullIs, LimitAssumption DEF NoIdleSlot, NoIdleStart, IdleInv, StartsTick
<1> QED BY <1>1, SlotInvariant, IdleInvHolds, PTL

\* When everything that holds a slot waits on its planner and such a planner's turn is kept, some turn is past
\* the limit already (SlotPool.turnPasses).
THEOREM TreeGoesOn == Spec => []TreeNeverStalls
BY IdleInvHolds, PTL DEF IdleInv
=============================================================================
