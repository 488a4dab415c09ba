------------------------ MODULE EmailPipelineProofs ------------------------
(* Theorems about EmailPipeline, for any number of messages and senders. *)
EXTENDS EmailPipeline, TLAPS

-----------------------------------------------------------------------------
(* Type correctness *)

\* Every reachable state is well typed, and a sender has a message in hand
\* exactly while it is between taking it up and recording its outcome.
THEOREM TypeCorrect == Spec => []TypeOK
<1> USE EmailAssumption DEF TypeOK, rowVars, senderVars, histVars
<1>1. Init => TypeOK
  <2> SUFFICES ASSUME Init PROVE TypeOK
    OBVIOUS
  <2>1. 0 \in 0..2 /\ 0 \in 0..MaxHuman
    OBVIOUS
  <2>2. /\ status \in [Emails -> Statuses] /\ hold \in [Emails -> Holds]
        /\ inbound \subseteq Emails /\ triaging \subseteq inbound /\ cancelling \subseteq Emails /\ paused \subseteq Orgs
    BY DEF Init, Statuses, Holds
  <2>3. /\ pc \in [Senders -> Steps] /\ cur \in [Senders -> Emails \cup {Idle}]
        /\ todo \in [Senders -> SUBSET Emails]
        /\ \A s \in Senders : cur[s] = Idle /\ pc[s] = "idle" /\ todo[s] = {}
    BY DEF Init, Steps
  <2>4. /\ delivered \in [Emails -> 0..2] /\ approvals \in [Emails -> 0..2]
        /\ human \in 0..MaxHuman
        /\ withdrawn \subseteq Emails /\ fate \in [Emails -> SUBSET Fates]
    BY <2>1 DEF Init
  <2>5. QED
    BY <2>2, <2>3, <2>4
<1>2. TypeOK /\ [Next]_vars => TypeOK'
  <2> SUFFICES ASSUME TypeOK, [Next]_vars PROVE TypeOK'
    OBVIOUS
  <2> USE DEF Statuses, Holds, Steps, Fates
  <2>0. \A f \in [Emails -> 0..2], e \in Emails : More(f, e) \in [Emails -> 0..2]
    BY DEF More
  <2>1. ASSUME NEW e \in Emails, Draft(e) PROVE TypeOK'
    <3>1. /\ status' \in [Emails -> Statuses] /\ hold' \in [Emails -> Holds]
          /\ approvals' \in [Emails -> 0..2]
      <4>1. UNCHANGED approvals \/ approvals' = More(approvals, e)
        BY <2>1 DEF Draft
      <4>2. approvals' \in [Emails -> 0..2]
        BY <2>0, <4>1
      <4>3. status' \in [Emails -> Statuses] /\ hold' \in [Emails -> Holds]
        BY <2>1 DEF Draft
      <4>4. QED
        BY <4>2, <4>3
    <3>2. QED
      BY <2>1, <3>1 DEF Draft
  <2>2. ASSUME NEW e \in Emails, Receive(e) \/ Triage(e) PROVE TypeOK'
    BY <2>2 DEF Receive, Triage
  <2>3. ASSUME NEW e \in Emails, HoldExpires(e) PROVE TypeOK'
    BY <2>3 DEF HoldExpires
  <2>4. ASSUME NEW e \in Emails, Approve(e) PROVE TypeOK'
    <3>1. /\ status' \in [Emails -> Statuses] /\ hold' \in [Emails -> Holds]
          /\ approvals' \in [Emails -> 0..2] /\ human' \in 0..MaxHuman
      BY <2>0, <2>4 DEF Approve
    <3>2. QED
      BY <2>4, <3>1 DEF Approve
  <2>5. ASSUME NEW e \in Emails, ReadToCancel(e) \/ WriteCancel(e) PROVE TypeOK'
    BY <2>5 DEF ReadToCancel, WriteCancel
  <2>6. ASSUME NEW o \in Orgs, SetPaused(o) PROVE TypeOK'
    BY <2>6 DEF SetPaused
  <2>7. ASSUME NEW s \in Senders, Tick(s) PROVE TypeOK'
    BY <2>7 DEF Tick, Due, Outbound
  <2>8. ASSUME NEW s \in Senders, NEW e \in Emails, CheckPaused(s, e) PROVE TypeOK'
    BY <2>8 DEF CheckPaused, Continue
  <2>9. ASSUME NEW s \in Senders, Send(s) PROVE TypeOK'
    <3>1. cur[s] \in Emails
      BY <2>9 DEF Send
    <3>2. delivered' \in [Emails -> 0..2] /\ fate' \in [Emails -> SUBSET Fates]
      <4>1. UNCHANGED delivered \/ delivered' = More(delivered, cur[s])
        BY <2>9 DEF Send
      <4>2. UNCHANGED fate \/ fate' = Tag(cur[s], "lostReply")
        BY <2>9 DEF Send
      <4>3. delivered' \in [Emails -> 0..2]
        BY <2>0, <3>1, <4>1
      <4>4. fate' \in [Emails -> SUBSET Fates]
        BY <3>1, <4>2 DEF Tag
      <4>5. QED
        BY <4>3, <4>4
    <3>3. QED
      BY <2>9, <3>1, <3>2 DEF Send
  <2>10. ASSUME NEW s \in Senders, Record(s) PROVE TypeOK'
    <3>1. cur[s] \in Emails
      BY <2>10 DEF Record
    <3>2. status' \in [Emails -> Statuses]
      BY <2>10, <3>1 DEF Record
    <3>3. QED
      BY <2>10, <3>2 DEF Record, Continue
  <2>11. ASSUME NEW s \in Senders, TickThrows(s) PROVE TypeOK'
    BY <2>11 DEF TickThrows, Continue, Died
  <2>12. ASSUME Crash PROVE TypeOK'
    BY <2>12 DEF Crash, Died
  <2>13. CASE UNCHANGED vars
    BY <2>13 DEF vars
  <2>14. QED
    BY <2>1, <2>2, <2>3, <2>4, <2>5, <2>6, <2>7, <2>8, <2>9, <2>10, <2>11, <2>12, <2>13
    DEF Next, SenderStep
<1>3. QED
  BY <1>1, <1>2, PTL DEF Spec

-----------------------------------------------------------------------------
(* What a step may do, whoever takes it *)

\* A message comes into a sender's hands only from the query for due messages.
LEMMA OnlyDueIsTaken ==
    ASSUME TypeOK, [Next]_vars, NEW e \in Emails, Held(e)'
    PROVE  Held(e) \/ e \in Due
<1> USE EmailAssumption DEF TypeOK, Held, InHand, senderVars
<1>1. ASSUME UNCHANGED senderVars PROVE Held(e)
  BY <1>1
<1>2. ASSUME NEW s \in Senders, Tick(s) PROVE Held(e) \/ e \in Due
  <2>1. UNCHANGED cur /\ todo'[s] \subseteq Due /\ \A r \in Senders \ {s} : todo'[r] = todo[r]
    BY <1>2 DEF Tick
  <2>2. QED
    BY <2>1
<1>3. ASSUME NEW s \in Senders, NEW f \in Emails, CheckPaused(s, f) PROVE Held(e)
  BY <1>3 DEF CheckPaused, Continue
<1>4. ASSUME NEW s \in Senders, Send(s) \/ Record(s) \/ TickThrows(s) PROVE Held(e)
  <2>1. UNCHANGED <<cur, todo>> \/ Continue(s, todo[s]) \/ Continue(s, {})
    BY <1>4 DEF Send, Record, TickThrows
  <2>2. QED
    BY <2>1 DEF Continue
<1>5. ASSUME Crash PROVE Held(e)
  BY <1>5 DEF Crash
<1>6. QED
  BY <1>1, <1>2, <1>3, <1>4, <1>5
  DEF Next, SenderStep, vars, Draft, Receive, Triage, HoldExpires, Approve, ReadToCancel,
      WriteCancel, SetPaused

\* Only the message a sender has in hand leaves, one copy at a time.
LEMMA OnlyHeldIsSent ==
    ASSUME TypeOK, [Next]_vars
    PROVE  \/ UNCHANGED delivered
           \/ \E s \in Senders, e \in Emails :
                /\ cur[s] = e /\ delivered' = More(delivered, e)
                /\ UNCHANGED <<status, approvals>>
<1>1. ASSUME NEW s \in Senders, Send(s)
      PROVE  UNCHANGED delivered \/ (cur[s] \in Emails /\ delivered' = More(delivered, cur[s]))
  BY <1>1 DEF Send, TypeOK
<1>2. ASSUME NEW s \in Senders, Send(s) PROVE UNCHANGED <<status, approvals>>
  BY <1>2 DEF Send, rowVars
<1>3. ASSUME ~ \E s \in Senders : Send(s) PROVE UNCHANGED delivered
  BY <1>3 DEF Next, SenderStep, vars, Draft, Receive, Triage, HoldExpires, Approve,
     ReadToCancel, WriteCancel, SetPaused, Tick, CheckPaused, Record, TickThrows, Crash
<1>4. QED
  BY <1>1, <1>2, <1>3

\* Approvals are only ever counted up.
LEMMA ApprovalsGrow ==
    ASSUME TypeOK, [Next]_vars
    PROVE  \/ UNCHANGED approvals
           \/ \E e \in Emails : approvals' = More(approvals, e) /\ (Draft(e) \/ Approve(e))
BY DEF Next, SenderStep, vars, histVars, Draft, Receive, Triage, HoldExpires, Approve,
   ReadToCancel, WriteCancel, SetPaused, Tick, CheckPaused, Send, Record, TickThrows, Crash

-----------------------------------------------------------------------------
(* Received messages *)

\* Messages without a row are out of everybody's hands, as received ones are.
OutOfReach ==
    \A e \in Emails : e \in inbound \/ status[e] = "NONE" => delivered[e] = 0 /\ ~Held(e)

\* No received message is ever handed to the mail server, in any interleaving
\* of triage, approvals, cancels, ticks and crashes.
THEOREM InboundNeverSent == Spec => []InboundStaysIn
<1>1. Init => OutOfReach
  BY EmailAssumption DEF Init, OutOfReach, Held, InHand
<1>2. TypeOK /\ OutOfReach /\ [Next]_vars => OutOfReach'
  <2> SUFFICES ASSUME TypeOK, OutOfReach, [Next]_vars, NEW e \in Emails,
                      e \in inbound' \/ status'[e] = "NONE"
               PROVE  delivered'[e] = 0 /\ ~Held(e)'
    BY DEF OutOfReach
  <2>0. e \in inbound \/ status[e] = "NONE"
    BY DEF TypeOK, Next, SenderStep, vars, rowVars, Draft, Receive, Triage, HoldExpires,
       Approve, ReadToCancel, WriteCancel, SetPaused, Tick, CheckPaused, Send, Record,
       TickThrows, Crash
  <2>1. delivered[e] = 0 /\ ~Held(e) /\ e \notin Due
    BY <2>0 DEF OutOfReach, Due, Outbound
  <2>2. ~Held(e)'
    BY <2>1, OnlyDueIsTaken
  <2>3. \A s \in Senders : cur[s] # e
    BY <2>1 DEF Held, InHand
  <2>4. delivered'[e] = 0
    <3>1. \A f \in Emails : f # e /\ delivered' = More(delivered, f) => delivered'[e] = delivered[e]
      BY DEF More, TypeOK
    <3>2. QED
      BY <2>1, <2>3, <3>1, OnlyHeldIsSent
  <2>5. QED
    BY <2>2, <2>4
<1>3. TypeOK /\ OutOfReach => InboundStaysIn
  BY DEF TypeOK, OutOfReach, InboundStaysIn
<1>4. QED
  BY <1>1, <1>2, <1>3, TypeCorrect, PTL DEF Spec

-----------------------------------------------------------------------------
(* The first hold *)

\* As long as a message was approved once and its hold has not expired, no
\* sender has seen it; once it is withdrawn in that time it is out of the
\* queue for good, because only another approval puts it back.
HoldInv ==
    \A e \in Emails :
        /\ status[e] = "NONE" => approvals[e] = 0 /\ e \notin withdrawn /\ e \notin cancelling
        /\ approvals[e] = 0 => hold[e] = "none"
        /\ approvals[e] <= 1 /\ hold[e] # "expired" => delivered[e] = 0 /\ ~Held(e)
        /\ approvals[e] <= 1 /\ e \in withdrawn =>
              delivered[e] = 0 /\ ~Held(e) /\ status[e] \notin {"NONE", "QUEUED"}

\* HoldInv is inductive.
LEMMA HoldStep ==
    ASSUME TypeOK, HoldInv, [Next]_vars
    PROVE  HoldInv'
<1> SUFFICES ASSUME NEW e \in Emails
    PROVE /\ status'[e] = "NONE" => approvals'[e] = 0 /\ e \notin withdrawn' /\ e \notin cancelling'
          /\ approvals'[e] = 0 => hold'[e] = "none"
          /\ approvals'[e] <= 1 /\ hold'[e] # "expired" => delivered'[e] = 0 /\ ~Held(e)'
          /\ approvals'[e] <= 1 /\ e \in withdrawn' =>
                delivered'[e] = 0 /\ ~Held(e)' /\ status'[e] \notin {"NONE", "QUEUED"}
  BY DEF HoldInv
<1> DEFINE Unseen == delivered[e] = 0 /\ ~Held(e)
           Fresh == approvals[e] <= 1 /\ (hold[e] # "expired" \/ e \in withdrawn)
<1>1. Fresh => Unseen
  BY DEF HoldInv
<1>2. Fresh => e \notin Due
  BY DEF HoldInv, Due
<1>3. Fresh => Unseen'
  <2> SUFFICES ASSUME Fresh PROVE Unseen'
    OBVIOUS
  <2>1. ~Held(e)'
    BY <1>1, <1>2, OnlyDueIsTaken
  <2>2. \A s \in Senders : cur[s] # e
    BY <1>1 DEF Held, InHand
  <2>3. delivered'[e] = 0
    BY <1>1, <2>2, OnlyHeldIsSent DEF More, TypeOK
  <2>4. QED
    BY <2>1, <2>3
<1>4. approvals[e] \in 0..2 /\ approvals'[e] \in {approvals[e], approvals[e] + 1, 2}
  BY ApprovalsGrow DEF TypeOK, More
<1> USE DEF TypeOK, rowVars, senderVars, histVars
<1>5. ASSUME NEW f \in Emails, Draft(f) \/ Approve(f)
      PROVE  /\ status'[e] = "NONE" => approvals'[e] = 0 /\ e \notin withdrawn' /\ e \notin cancelling'
             /\ approvals'[e] = 0 => hold'[e] = "none"
             /\ approvals'[e] <= 1 /\ hold'[e] # "expired" => Fresh
             /\ approvals'[e] <= 1 /\ e \in withdrawn' =>
                   Fresh /\ status'[e] \notin {"NONE", "QUEUED"}
  BY <1>5 DEF Draft, Approve, HoldInv, More
<1>6. ASSUME NEW f \in Emails,
             Receive(f) \/ Triage(f) \/ HoldExpires(f) \/ ReadToCancel(f) \/ WriteCancel(f)
      PROVE  /\ status'[e] = "NONE" => approvals'[e] = 0 /\ e \notin withdrawn' /\ e \notin cancelling'
             /\ approvals'[e] = 0 => hold'[e] = "none"
             /\ approvals'[e] <= 1 /\ hold'[e] # "expired" => Fresh
             /\ approvals'[e] <= 1 /\ e \in withdrawn' =>
                   Fresh /\ status'[e] \notin {"NONE", "QUEUED"}
  BY <1>6 DEF Receive, Triage, HoldExpires, ReadToCancel, WriteCancel, HoldInv
<1>7. ASSUME NEW s \in Senders, Record(s)
      PROVE  /\ UNCHANGED <<approvals, hold, withdrawn, cancelling>>
             /\ status'[e] # status[e] => status'[e] \in {"SENT", "FAILED"}
  BY <1>7 DEF Record
<1>8. ASSUME \/ UNCHANGED vars \/ Crash
             \/ \E o \in Orgs : SetPaused(o)
             \/ \E s \in Senders : \/ Tick(s) \/ Send(s) \/ TickThrows(s)
                                    \/ \E f \in Emails : CheckPaused(s, f)
      PROVE  UNCHANGED <<status, approvals, hold, withdrawn>> /\ cancelling' \subseteq cancelling
  BY <1>8 DEF vars, Crash, SetPaused, Tick, Send, TickThrows, CheckPaused
<1>9. QED
  <2>1. CASE \E f \in Emails : Draft(f) \/ Approve(f)
    BY <1>3, <1>5, <2>1
  <2>2. CASE \E f \in Emails :
            Receive(f) \/ Triage(f) \/ HoldExpires(f) \/ ReadToCancel(f) \/ WriteCancel(f)
    BY <1>3, <1>6, <2>2
  <2>3. CASE \E s \in Senders : Record(s)
    BY <1>3, <1>7, <2>3 DEF HoldInv
  <2>4. CASE UNCHANGED <<status, approvals, hold, withdrawn>> /\ cancelling' \subseteq cancelling
    BY <1>3, <2>4 DEF HoldInv
  <2>5. QED
    BY <1>8, <2>1, <2>2, <2>3, <2>4 DEF Next, SenderStep

\* A message approved once and cancelled during its hold never leaves, for any
\* number of messages, senders and crashes.
THEOREM FirstHoldHolds == Spec => []FirstHoldIsCancellable
<1>1. Init => HoldInv
  BY EmailAssumption DEF Init, HoldInv, Held, InHand
<1>2. TypeOK /\ HoldInv => FirstHoldIsCancellable
  BY DEF TypeOK, HoldInv, FirstHoldIsCancellable
<1>3. QED
  BY <1>1, <1>2, HoldStep, TypeCorrect, PTL DEF Spec

-----------------------------------------------------------------------------
(* The pipeline implements the outbox *)

\* What is queued or in a sender's hands was approved, and what is marked SENT,
\* or about to be, has left.
BackedInv ==
    /\ \A e \in Emails :
        /\ status[e] = "QUEUED" \/ Held(e) => approvals[e] > 0
        /\ status[e] = "SENT" => delivered[e] > 0
    /\ \A s \in Senders : pc[s] = "accepted" => delivered[cur[s]] > 0

\* Who writes which status.
LEMMA StatusWriters ==
    ASSUME TypeOK, [Next]_vars, NEW e \in Emails, status'[e] # status[e]
    PROVE  \/ Draft(e) \/ Approve(e)
           \/ status'[e] \in {"RECEIVED", "TRIAGED", "CANCELLED"}
           \/ \E s \in Senders : cur[s] = e /\ Record(s)
<1> USE DEF TypeOK, rowVars, senderVars, histVars
<1>1. ASSUME NEW f \in Emails, Draft(f) \/ Approve(f) PROVE f = e
  BY <1>1 DEF Draft, Approve
<1>2. ASSUME NEW f \in Emails, Receive(f) \/ Triage(f) \/ WriteCancel(f)
      PROVE  status'[e] \in {"RECEIVED", "TRIAGED", "CANCELLED"}
  BY <1>2 DEF Receive, Triage, WriteCancel
<1>3. ASSUME NEW s \in Senders, Record(s) PROVE cur[s] = e
  BY <1>3 DEF Record
<1>4. ASSUME \/ UNCHANGED vars \/ Crash
             \/ \E o \in Orgs : SetPaused(o)
             \/ \E f \in Emails : HoldExpires(f) \/ ReadToCancel(f)
             \/ \E s \in Senders : \/ Tick(s) \/ Send(s) \/ TickThrows(s)
                                    \/ \E f \in Emails : CheckPaused(s, f)
      PROVE  FALSE
  BY <1>4 DEF vars, Crash, SetPaused, HoldExpires, ReadToCancel, Tick, Send, TickThrows, CheckPaused
<1>5. QED
  BY <1>1, <1>2, <1>3, <1>4 DEF Next, SenderStep

\* BackedInv is inductive.
LEMMA BackedStep ==
    ASSUME TypeOK, TypeOK', BackedInv, [Next]_vars
    PROVE  BackedInv'
<1> USE DEF rowVars, senderVars, histVars
<1>1. \A e \in Emails : approvals[e] > 0 => approvals'[e] > 0
  BY ApprovalsGrow DEF TypeOK, More
<1>2. \A e \in Emails : delivered[e] > 0 => delivered'[e] > 0
  BY OnlyHeldIsSent DEF TypeOK, More
<1>3. ASSUME NEW e \in Emails, status'[e] = "QUEUED" PROVE approvals'[e] > 0
  <2>1. CASE status[e] = "QUEUED"
    BY <1>1, <2>1 DEF BackedInv
  <2>2. CASE status[e] # "QUEUED"
    <3>1. Draft(e) \/ Approve(e)
      <4>1. \A s \in Senders : cur[s] = e /\ Record(s) => status'[e] # "QUEUED"
        BY DEF Record, TypeOK
      <4>2. QED
        BY <1>3, <2>2, <4>1, StatusWriters
    <3>2. approvals' = More(approvals, e)
      BY <1>3, <2>2, <3>1 DEF Draft, Approve, TypeOK
    <3>3. QED
      BY <3>2 DEF More, TypeOK
  <2>3. QED
    BY <2>1, <2>2
<1>4. ASSUME NEW e \in Emails, Held(e)' PROVE approvals'[e] > 0
  BY <1>1, <1>4, OnlyDueIsTaken DEF BackedInv, Due
<1>5. ASSUME NEW e \in Emails, status'[e] = "SENT" PROVE delivered'[e] > 0
  <2>1. status[e] = "SENT" \/ \E s \in Senders : cur[s] = e /\ pc[s] = "accepted"
    <3>1. \A s \in Senders : cur[s] = e /\ Record(s) /\ status'[e] = "SENT" => pc[s] = "accepted"
      BY DEF Record, TypeOK
    <3>2. Draft(e) \/ Approve(e) => status'[e] # "SENT"
      BY DEF Draft, Approve, TypeOK
    <3>3. QED
      BY <1>5, <3>1, <3>2, StatusWriters
  <2>2. QED
    BY <1>2, <2>1 DEF BackedInv
<1>6. ASSUME NEW s \in Senders, pc'[s] = "accepted" PROVE delivered'[cur'[s]] > 0
  <2>1. CASE pc[s] = "accepted" /\ cur'[s] = cur[s]
    <3>1. cur[s] \in Emails
      BY <2>1 DEF TypeOK
    <3>2. QED
      BY <1>2, <2>1, <3>1 DEF BackedInv
  <2>2. CASE Send(s)
    <3>1. cur[s] \in Emails /\ cur'[s] = cur[s] /\ delivered' = More(delivered, cur[s])
      BY <1>6, <2>2 DEF Send, TypeOK
    <3>2. QED
      BY <3>1 DEF More, TypeOK
  <2>3. CASE UNCHANGED senderVars
    BY <1>6, <2>1, <2>3
  <2>4. CASE ~Send(s) /\ \E r \in Senders : Tick(r) \/ SenderStep(r)
    <3>1. PICK r \in Senders : Tick(r) \/ SenderStep(r)
      BY <2>4
    <3>2. r # s \/ pc'[s] # "accepted"
      BY <2>4, <3>1 DEF SenderStep, Tick, CheckPaused, Record, TickThrows, Continue, TypeOK
    <3>3. pc'[s] = pc[s] /\ cur'[s] = cur[s]
      BY <1>6, <3>1, <3>2 DEF SenderStep, Tick, CheckPaused, Send, Record, TickThrows, Continue, TypeOK
    <3>4. QED
      BY <1>6, <2>1, <3>3
  <2>5. CASE Crash
    BY <1>6, <2>5 DEF Crash
  <2>6. QED
    BY <2>2, <2>3, <2>4, <2>5 DEF Next, vars, Draft, Receive, Triage, HoldExpires, Approve,
       ReadToCancel, WriteCancel, SetPaused
<1>7. QED
  BY <1>3, <1>4, <1>5, <1>6 DEF BackedInv

\* Every step is a step of the outbox, or none of its business.
LEMMA OutboxStep ==
    ASSUME TypeOK, TypeOK', BackedInv, [Next]_vars
    PROVE  [PromisedOutbox!Next]_(PromisedOutbox!vars)
<1> DEFINE Released == {e \in Emails : approvals[e] > 0}
           Reported == {e \in Emails : status[e] = "SENT"}
           Goal == \/ UNCHANGED <<Released, delivered, Reported>>
                   \/ \E e \in Emails : \/ PromisedOutbox!Release(e) \/ PromisedOutbox!Transmit(e)
                                       \/ PromisedOutbox!Report(e) \/ PromisedOutbox!Retract(e)
<1> SUFFICES Goal
  BY DEF PromisedOutbox!Next, PromisedOutbox!vars
<1> USE DEF TypeOK, rowVars, senderVars, histVars
<1>1. ASSUME NEW e \in Emails, Draft(e)
      PROVE  UNCHANGED <<Released, delivered, Reported>> \/ PromisedOutbox!Release(e)
  <2>1. UNCHANGED <<delivered, Reported>>
    BY <1>1 DEF Draft
  <2>2. UNCHANGED Released \/ Released' = Released \cup {e}
    <3>1. UNCHANGED approvals \/ approvals' = More(approvals, e)
      BY <1>1 DEF Draft
    <3>2. approvals' = More(approvals, e) => Released' = Released \cup {e}
      BY DEF More
    <3>3. QED
      BY <3>1, <3>2
  <2>3. QED
    BY <2>1, <2>2 DEF PromisedOutbox!Release
<1>2. ASSUME NEW e \in Emails, Approve(e) PROVE PromisedOutbox!Release(e)
  <2>1. UNCHANGED delivered /\ Reported' = Reported \ {e}
    BY <1>2 DEF Approve
  <2>2. Released' = Released \cup {e}
    BY <1>2 DEF Approve, More
  <2>3. QED
    BY <2>1, <2>2 DEF PromisedOutbox!Release
<1>3. ASSUME NEW e \in Emails, Receive(e) \/ Triage(e) \/ WriteCancel(e)
      PROVE  PromisedOutbox!Retract(e)
  <2>1. /\ UNCHANGED <<approvals, delivered>> /\ status'[e] # "SENT"
        /\ \A f \in Emails \ {e} : status'[f] = status[f]
    BY <1>3 DEF Receive, Triage, WriteCancel
  <2>2. QED
    BY <2>1 DEF PromisedOutbox!Retract
<1>4. ASSUME NEW s \in Senders, NEW e \in Emails, e = cur[s], Send(s)
      PROVE  UNCHANGED <<Released, delivered, Reported>> \/ PromisedOutbox!Transmit(e)
  <2>1. e \in Released
    BY <1>4 DEF BackedInv, Held, InHand
  <2>2. UNCHANGED delivered \/ delivered' = [delivered EXCEPT ![e] = IF @ = 0 THEN 1 ELSE 2]
    BY <1>4 DEF Send, More
  <2>3. UNCHANGED <<Released, Reported>>
    BY <1>4 DEF Send
  <2>4. QED
    BY <2>1, <2>2, <2>3 DEF PromisedOutbox!Transmit
<1>5. ASSUME NEW s \in Senders, NEW e \in Emails, e = cur[s], Record(s)
      PROVE  PromisedOutbox!Report(e) \/ PromisedOutbox!Retract(e)
  <2>1. UNCHANGED <<Released, delivered>>
    BY <1>5 DEF Record
  <2>2. CASE pc[s] = "accepted"
    <3>1. Reported' = Reported \cup {e} /\ delivered[e] > 0
      BY <1>5, <2>2 DEF Record, BackedInv
    <3>2. QED
      BY <2>1, <3>1 DEF PromisedOutbox!Report
  <2>3. CASE pc[s] # "accepted"
    <3>1. Reported' = Reported \ {e}
      BY <1>5, <2>3 DEF Record
    <3>2. QED
      BY <2>1, <3>1 DEF PromisedOutbox!Retract
  <2>4. QED
    BY <2>2, <2>3
<1>6. ASSUME \/ UNCHANGED vars \/ Crash
             \/ \E o \in Orgs : SetPaused(o)
             \/ \E e \in Emails : HoldExpires(e) \/ ReadToCancel(e)
             \/ \E s \in Senders : \/ Tick(s) \/ TickThrows(s)
                                    \/ \E e \in Emails : CheckPaused(s, e)
      PROVE  UNCHANGED <<approvals, delivered, status>>
  BY <1>6 DEF vars, Crash, SetPaused, HoldExpires, ReadToCancel, Tick, TickThrows, CheckPaused
<1>7. CASE UNCHANGED <<approvals, delivered, status>>
  BY <1>7
<1>8. CASE \E e \in Emails : Draft(e) \/ Approve(e) \/ Receive(e) \/ Triage(e) \/ WriteCancel(e)
  BY <1>1, <1>2, <1>3, <1>8
<1>9. ASSUME NEW s \in Senders, Send(s) \/ Record(s) PROVE Goal
  <2>1. PICK e \in Emails : e = cur[s]
    BY <1>9 DEF Send, Record
  <2>2. \/ UNCHANGED <<Released, delivered, Reported>> \/ PromisedOutbox!Transmit(e)
        \/ PromisedOutbox!Report(e) \/ PromisedOutbox!Retract(e)
    BY <1>4, <1>5, <1>9, <2>1
  <2>3. QED
    BY <2>2, Zenon
<1>10. QED
  BY <1>6, <1>7, <1>8, <1>9 DEF Next, SenderStep

\* The pipeline sends only what was approved and marks as SENT only what it
\* sent, for any number of messages and senders: it implements the outbox.
THEOREM EmailImplementsOutbox == Spec => ImplementsOutbox
<1>1. Init => BackedInv
  BY EmailAssumption DEF Init, BackedInv, Held, InHand
<1>2. Init => PromisedOutbox!Init
  BY DEF Init, PromisedOutbox!Init
<1>3. QED
  BY <1>1, <1>2, BackedStep, OutboxStep, TypeCorrect, PTL
  DEF Spec, ImplementsOutbox, PromisedOutbox!Spec

-----------------------------------------------------------------------------
(* Duplicates *)

\* The message was approved once at most, no two ticks had it at the same time,
\* and no sender died with its outcome still to record.
FirstTry(e) == approvals[e] <= 1 /\ fate[e] \cap {"overlap", "died"} = {}

\* Such a message is in the hands of one sender, in one place. Its row stays
\* QUEUED while it is handed over, so what keeps the next tick from it once it
\* has left is that sender, which has its outcome still to record.
OnceInv ==
    \A e \in Emails :
        /\ delivered[e] > 0 => approvals[e] > 0
        /\ FirstTry(e) =>
            /\ \A s, r \in Senders : e \in InHand(s) /\ e \in InHand(r) => s = r
            /\ \A s \in Senders : e \in todo[s] => cur[s] # e
            /\ delivered[e] <= 1
            /\ delivered[e] > 0 =>
                /\ status[e] = "QUEUED" => Held(e)
                /\ \A s \in Senders : e \in InHand(s) => cur[s] = e /\ pc[s] \in {"accepted", "rejected"}

\* What happened to a message is never forgotten.
LEMMA FirstTryStep ==
    ASSUME TypeOK, [Next]_vars, NEW e \in Emails, FirstTry(e)'
    PROVE  FirstTry(e)
<1>1. approvals[e] <= 1
  <2>1. approvals'[e] \in {approvals[e], 1, 2} /\ (approvals[e] = 2 => approvals'[e] = 2)
    BY ApprovalsGrow DEF TypeOK, More
  <2>2. QED
    BY <2>1 DEF FirstTry, TypeOK
<1>2. fate[e] \subseteq fate'[e]
  <2>1. ASSUME NEW s \in Senders, Tick(s) PROVE fate[e] \subseteq fate'[e]
    BY <2>1 DEF Tick
  <2>2. ASSUME Crash \/ \E s \in Senders : TickThrows(s) PROVE fate[e] \subseteq fate'[e]
    <3>1. \E ss : fate' = Died(ss)
      BY <2>2 DEF Crash, TickThrows
    <3>2. QED
      BY <3>1 DEF Died
  <2>3. ASSUME NEW s \in Senders, Send(s) PROVE fate[e] \subseteq fate'[e]
    BY <2>3 DEF Send, Tag, TypeOK
  <2>4. ASSUME ~Crash, \A s \in Senders : ~(TickThrows(s) \/ Tick(s) \/ Send(s)) PROVE UNCHANGED fate
    BY <2>4 DEF Next, SenderStep, vars, histVars, Draft, Receive, Triage, HoldExpires, Approve,
       ReadToCancel, WriteCancel, SetPaused, CheckPaused, Record
  <2>5. QED
    BY <2>1, <2>2, <2>3, <2>4
<1>3. QED
  BY <1>1, <1>2 DEF FirstTry

\* OnceInv is inductive.
LEMMA OnceStep ==
    ASSUME TypeOK, TypeOK', BackedInv, OnceInv, [Next]_vars
    PROVE  OnceInv'
<1> DEFINE Once(e) ==
        /\ \A s, r \in Senders : e \in InHand(s) /\ e \in InHand(r) => s = r
        /\ \A s \in Senders : e \in todo[s] => cur[s] # e
        /\ delivered[e] <= 1
        /\ delivered[e] > 0 =>
            /\ status[e] = "QUEUED" => Held(e)
            /\ \A s \in Senders : e \in InHand(s) => cur[s] = e /\ pc[s] \in {"accepted", "rejected"}
<1> SUFFICES ASSUME NEW e \in Emails
             PROVE  (delivered'[e] > 0 => approvals'[e] > 0) /\ (FirstTry(e)' => Once(e)')
  BY DEF OnceInv
<1>t. /\ delivered \in [Emails -> 0..2] /\ approvals \in [Emails -> 0..2] /\ status \in [Emails -> Statuses]
      /\ pc \in [Senders -> Steps] /\ todo \in [Senders -> SUBSET Emails]
      /\ cur \in [Senders -> Emails \cup {Idle}] /\ Idle \notin Emails
      /\ fate \in [Emails -> SUBSET Fates]
      /\ \A s \in Senders : /\ cur[s] = Idle <=> pc[s] \in {"idle", "loop"}
                            /\ pc[s] = "idle" => todo[s] = {}
  BY EmailAssumption DEF TypeOK
<1>h. Held(e) => approvals[e] > 0
  BY DEF BackedInv
<1>1. delivered'[e] > 0 => approvals'[e] > 0
  <2>1. approvals[e] > 0 => approvals'[e] > 0
    BY <1>t, ApprovalsGrow DEF More
  <2>2. delivered'[e] = delivered[e] \/ \E s \in Senders : cur[s] = e
    BY <1>t, OnlyHeldIsSent DEF More
  <2>3. QED
    BY <1>h, <2>1, <2>2 DEF OnceInv, Held, InHand
<1> SUFFICES ASSUME FirstTry(e)' PROVE Once(e)'
  BY <1>1
<1>0. FirstTry(e) /\ Once(e)
  BY FirstTryStep DEF OnceInv
<1> USE <1>t DEF InHand, rowVars, senderVars, histVars
<1>2. ASSUME Draft(e) \/ Approve(e) PROVE Once(e)'
  <2>1. UNCHANGED <<pc, cur, todo, delivered>>
    BY <1>2 DEF Draft, Approve
  <2>2. CASE UNCHANGED approvals
    <3>1. status'[e] = "DRAFTED"
      <4>1. approvals' # More(approvals, e)
        BY <1>0, <2>2 DEF FirstTry, More
      <4>2. QED
        BY <1>2, <4>1 DEF Draft, Approve
    <3>2. QED
      BY <1>0, <2>1, <3>1
  <2>3. CASE approvals' = More(approvals, e)
    <3>1. approvals[e] = 0
      BY <2>3 DEF FirstTry, More
    <3>2. delivered[e] = 0
      BY <3>1 DEF OnceInv
    <3>3. QED
      BY <1>0, <2>1, <3>2
  <2>4. QED
    BY <1>2, <2>2, <2>3 DEF Draft, Approve
<1>3. ASSUME \/ \E f \in Emails : \/ f # e /\ (Draft(f) \/ Approve(f))
                                  \/ Receive(f) \/ Triage(f) \/ HoldExpires(f)
                                  \/ ReadToCancel(f) \/ WriteCancel(f)
             \/ \E o \in Orgs : SetPaused(o)
             \/ UNCHANGED vars
      PROVE  Once(e)'
  <2>1. UNCHANGED <<pc, cur, todo, delivered>>
    BY <1>3 DEF Draft, Approve, Receive, Triage, HoldExpires, ReadToCancel, WriteCancel, SetPaused, vars
  <2>2. status'[e] = "QUEUED" => status[e] = "QUEUED"
    BY <1>3 DEF Draft, Approve, Receive, Triage, HoldExpires, ReadToCancel, WriteCancel, SetPaused, vars
  <2>3. Held(e)' <=> Held(e)
    BY <2>1 DEF Held
  <2>4. QED
    BY <1>0, <2>1, <2>2, <2>3
<1>4. ASSUME NEW s \in Senders, Tick(s) PROVE Once(e)'
  <2>1. /\ UNCHANGED <<status, cur, delivered>> /\ cur[s] = Idle /\ todo[s] = {}
        /\ \A r \in Senders \ {s} : pc'[r] = pc[r] /\ todo'[r] = todo[r]
    BY <1>4 DEF Tick
  <2>2. e \in todo'[s] => status[e] = "QUEUED" /\ ~Held(e)
    <3>1. e \in todo'[s] => e \in Due /\ (Held(e) => "overlap" \in fate'[e])
      BY <1>4 DEF Tick
    <3>2. QED
      BY <3>1 DEF Due, FirstTry
  <2>3. Held(e) => Held(e)'
    BY <2>1 DEF Held
  <2>4. QED
    BY <1>0, <2>1, <2>2, <2>3 DEF Held
<1>5. ASSUME NEW s \in Senders, NEW f \in Emails, CheckPaused(s, f) PROVE Once(e)'
  <2>1. /\ UNCHANGED <<status, delivered>> /\ cur[s] = Idle /\ pc[s] = "loop" /\ f \in todo[s]
        /\ cur'[s] \in {Idle, f} /\ todo'[s] = todo[s] \ {f}
        /\ \A r \in Senders \ {s} : pc'[r] = pc[r] /\ todo'[r] = todo[r] /\ cur'[r] = cur[r]
    BY <1>5 DEF CheckPaused, Continue
  <2>2. \A r \in Senders : InHand(r)' \subseteq InHand(r)
    BY <2>1
  <2>3. delivered[e] > 0 => e \notin InHand(s)
    BY <1>0, <2>1
  <2>4. delivered[e] > 0 /\ Held(e) => Held(e)'
    BY <2>1, <2>3 DEF Held
  <2>5. QED
    BY <1>0, <2>1, <2>2, <2>3, <2>4
<1>6. ASSUME NEW s \in Senders, Send(s) PROVE Once(e)'
  <2>1. /\ UNCHANGED <<status, cur, todo>> /\ pc[s] = "send" /\ cur[s] \in Emails
        /\ pc'[s] \in {"accepted", "rejected"}
        /\ \A r \in Senders \ {s} : pc'[r] = pc[r]
        /\ UNCHANGED delivered \/ delivered' = More(delivered, cur[s])
    BY <1>6 DEF Send
  <2>2. (\A r \in Senders : InHand(r)' = InHand(r)) /\ (Held(e)' <=> Held(e))
    BY <2>1 DEF Held
  <2>3. CASE cur[s] = e
    <3>1. e \in InHand(s)
      BY <2>3
    <3>2. delivered[e] = 0 /\ \A r \in Senders : e \in InHand(r) => r = s
      BY <1>0, <2>1, <3>1
    <3>3. delivered'[e] \in {0, 1} /\ Held(e)
      BY <2>1, <2>3, <3>1, <3>2 DEF More, Held
    <3>4. QED
      BY <1>0, <2>1, <2>2, <2>3, <3>2, <3>3
  <2>4. CASE cur[s] # e
    <3>1. delivered'[e] = delivered[e]
      BY <2>1, <2>4 DEF More
    <3>2. QED
      BY <1>0, <2>1, <2>2, <2>4, <3>1
  <2>5. QED
    BY <2>3, <2>4
<1>7. ASSUME NEW s \in Senders, Record(s) PROVE Once(e)'
  <2>1. /\ UNCHANGED <<todo, delivered>> /\ cur[s] \in Emails /\ cur'[s] = Idle
        /\ \A r \in Senders \ {s} : pc'[r] = pc[r] /\ cur'[r] = cur[r]
    BY <1>7 DEF Record, Continue
  <2>2. IF cur[s] = e THEN status'[e] \in {"SENT", "FAILED"} ELSE status'[e] = status[e]
    BY <1>7 DEF Record
  <2>3. cur[s] # e /\ Held(e) => Held(e)'
    BY <2>1 DEF Held
  <2>4. QED
    BY <1>0, <2>1, <2>2, <2>3
<1>8. ASSUME NEW s \in Senders, TickThrows(s) PROVE Once(e)'
  <2>1. /\ UNCHANGED <<status, delivered>> /\ cur'[s] = Idle /\ todo'[s] = {}
        /\ \A r \in Senders \ {s} : pc'[r] = pc[r] /\ todo'[r] = todo[r] /\ cur'[r] = cur[r]
    BY <1>8 DEF TickThrows, Continue
  <2>2. ~(cur[s] = e /\ pc[s] \in {"accepted", "rejected"})
    <3>1. cur[s] = e /\ pc[s] \in {"accepted", "rejected"} => "died" \in fate'[e]
      BY <1>8 DEF TickThrows, Died
    <3>2. QED
      BY <3>1 DEF FirstTry
  <2>3. delivered[e] > 0 => e \notin InHand(s)
    BY <1>0, <2>2
  <2>4. delivered[e] > 0 /\ Held(e) => Held(e)'
    BY <2>1, <2>3 DEF Held
  <2>5. QED
    BY <1>0, <2>1, <2>4
<1>9. ASSUME Crash PROVE Once(e)'
  <2>1. /\ UNCHANGED <<status, delivered>>
        /\ \A s \in Senders : cur'[s] = Idle /\ todo'[s] = {}
    BY <1>9 DEF Crash
  <2>2. \A s \in Senders : ~(cur[s] = e /\ pc[s] \in {"accepted", "rejected"})
    <3>1. \A s \in Senders : cur[s] = e /\ pc[s] \in {"accepted", "rejected"} => "died" \in fate'[e]
      BY <1>9 DEF Crash, Died
    <3>2. QED
      BY <3>1 DEF FirstTry
  <2>3. delivered[e] > 0 => ~Held(e)
    BY <1>0, <2>2 DEF Held
  <2>4. QED
    BY <1>0, <2>1, <2>3
<1>10. QED
  BY <1>2, <1>3, <1>4, <1>5, <1>6, <1>7, <1>8, <1>9 DEF Next, SenderStep

\* Two copies of a message leave only when ticks overlapped, a person approved it
\* again, or a sender died between the hand-over and the record: for any number
\* of messages and senders, and whatever answers of the mail server are lost.
THEOREM DuplicatesExplained == Spec => []DuplicateHasCause
<1>1. Init => BackedInv /\ OnceInv
  BY EmailAssumption DEF Init, BackedInv, OnceInv, InHand, Held
<1>2. TypeOK /\ OnceInv => DuplicateHasCause
  <2> SUFFICES ASSUME TypeOK, OnceInv, NEW e \in Emails, delivered[e] = 2, ~FirstTry(e)
               PROVE  fate[e] \cap {"overlap", "died"} # {} \/ approvals[e] = 2
    BY DEF DuplicateHasCause, OnceInv
  <2>1. approvals[e] \in 0..2
    BY DEF TypeOK
  <2>2. QED
    BY <2>1 DEF FirstTry
<1>3. QED
  BY <1>1, <1>2, BackedStep, OnceStep, TypeCorrect, PTL DEF Spec

=============================================================================
