--------------------------- MODULE EmailPipeline ---------------------------
(***************************************************************************)
(* The e-mail pipeline of orchestrator.service.ts: agents draft, people    *)
(* approve or cancel, and sendQueuedEmails releases, every minute, the     *)
(* queued messages whose hold-buffer has expired. A sender is one          *)
(* execution of that cron job; a tick does not wait for the previous one.  *)
(* cancelEmail reads the row and writes it in two steps. Unlike content,   *)
(* a message is not marked before it is handed to the SMTP adapter.        *)
(***************************************************************************)
EXTENDS Naturals, FiniteSets

CONSTANTS
    Emails,             \* messages
    Orgs, OrgOf,        \* organizations, and whose message it is
    Senders,            \* executions of sendQueuedEmails in flight
    TickSize,           \* "take: 10"
    MaxHuman,           \* bound: approve, cancel and pause calls
    Events,             \* which of EventKinds the environment may produce
    Idle                \* "no message", the cur of a sender between messages

EventKinds == {"crash", "dbError", "lostReply", "pause"}

ASSUME EmailAssumption ==
    /\ IsFiniteSet(Emails) /\ IsFiniteSet(Senders)
    /\ OrgOf \in [Emails -> Orgs]
    /\ TickSize \in Nat /\ MaxHuman \in Nat
    /\ Events \subseteq EventKinds
    /\ Idle \notin Emails

VARIABLES
    status,     \* EmailMessage.status; NONE before the row exists
    inbound,    \* messages whose direction is INBOUND
    hold,       \* holdUntil: null, in the future, or past
    triaging,   \* inbound messages whose triage run has not returned
    cancelling, \* cancelEmail calls between their read and their write
    paused,     \* organizations with EMAIL paused or the kill-switch set
    pc, cur, todo,  \* each sender: step, message in hand, rest of its batch
    delivered,  \* external: copies handed to the mail server (2 = two or more)
    human,      \* bound counter of human calls
    approvals,  \* history: times approved or queued by auto-send (2 = two or more)
    withdrawn,  \* history: messages cancelled while their hold was running
    fate        \* history: what happened to each message

rowVars == <<status, inbound, hold>>
senderVars == <<pc, cur, todo>>
histVars == <<approvals, withdrawn, fate>>
vars == <<rowVars, triaging, cancelling, paused, senderVars, delivered, human, histVars>>

Statuses == {"NONE", "RECEIVED", "TRIAGED", "DRAFTED", "QUEUED", "SENT", "FAILED", "CANCELLED"}
Holds == {"none", "running", "expired"}
Steps == {"idle", "loop", "send", "accepted", "rejected"}
Fates == {"overlap", "lostReply", "died"}
TypeOK ==
    /\ status \in [Emails -> Statuses]
    /\ hold \in [Emails -> Holds]
    /\ inbound \subseteq Emails /\ triaging \subseteq inbound
    /\ cancelling \subseteq Emails
    /\ paused \subseteq Orgs
    /\ pc \in [Senders -> Steps]
    /\ cur \in [Senders -> Emails \cup {Idle}]
    /\ todo \in [Senders -> SUBSET Emails]
    /\ \A s \in Senders :
        /\ cur[s] = Idle <=> pc[s] \in {"idle", "loop"}
        /\ pc[s] = "idle" => todo[s] = {}
    /\ delivered \in [Emails -> 0..2]
    /\ human \in 0..MaxHuman
    /\ approvals \in [Emails -> 0..2]
    /\ withdrawn \subseteq Emails
    /\ fate \in [Emails -> SUBSET Fates]

Init ==
    /\ status = [e \in Emails |-> "NONE"]
    /\ hold = [e \in Emails |-> "none"]
    /\ inbound = {} /\ triaging = {} /\ cancelling = {} /\ paused = {}
    /\ pc = [s \in Senders |-> "idle"]
    /\ cur = [s \in Senders |-> Idle]
    /\ todo = [s \in Senders |-> {}]
    /\ delivered = [e \in Emails |-> 0]
    /\ human = 0
    /\ approvals = [e \in Emails |-> 0]
    /\ withdrawn = {}
    /\ fate = [e \in Emails |-> {}]

Outbound == {e \in Emails : e \notin inbound}

InHand(s) == todo[s] \cup ({cur[s]} \cap Emails)

Held(e) == \E s \in Senders : e \in InHand(s)

\* 0, 1, "two or more": nothing tells larger counts apart.
More(f, e) == [f EXCEPT ![e] = IF @ = 0 THEN 1 ELSE 2]

Tag(e, f) == [fate EXCEPT ![e] = @ \cup {f}]

-----------------------------------------------------------------------------
(* Messages come into being *)

\* The draft_email tool: waits for approval, or is queued with a hold when the
\* organization has auto-send on and an allowlist.
Draft(e) ==
    /\ status[e] = "NONE"
    /\ \/ /\ status' = [status EXCEPT ![e] = "DRAFTED"]
          /\ UNCHANGED <<hold, approvals>>
       \/ /\ status' = [status EXCEPT ![e] = "QUEUED"]
          /\ hold' = [hold EXCEPT ![e] = "running"]
          /\ approvals' = More(approvals, e)
    /\ UNCHANGED <<inbound, triaging, cancelling, paused, senderVars, delivered, human, withdrawn, fate>>

\* handleInboundEmail stores the message and starts the triage run ...
Receive(e) ==
    /\ status[e] = "NONE"
    /\ status' = [status EXCEPT ![e] = "RECEIVED"]
    /\ inbound' = inbound \cup {e}
    /\ triaging' = triaging \cup {e}
    /\ UNCHANGED <<hold, cancelling, paused, senderVars, delivered, human, histVars>>

\* ... and marks it when the run returns, whatever the row says by then.
Triage(e) ==
    /\ e \in triaging
    /\ status' = [status EXCEPT ![e] = "TRIAGED"]
    /\ triaging' = triaging \ {e}
    /\ UNCHANGED <<inbound, hold, cancelling, paused, senderVars, delivered, human, histVars>>

-----------------------------------------------------------------------------
(* Human calls *)

\* approveEmail looks only at the existence of the row.
Approve(e) ==
    /\ human < MaxHuman /\ status[e] # "NONE"
    /\ status' = [status EXCEPT ![e] = "QUEUED"]
    /\ hold' = [hold EXCEPT ![e] = "running"]
    /\ human' = human + 1
    /\ approvals' = More(approvals, e)
    /\ withdrawn' = withdrawn \ {e}
    /\ UNCHANGED <<inbound, triaging, cancelling, paused, senderVars, delivered, fate>>

\* cancelEmail reads the row and returns it unchanged when it says SENT ...
ReadToCancel(e) ==
    /\ human < MaxHuman
    /\ status[e] \notin {"NONE", "SENT"}
    /\ e \notin cancelling
    /\ cancelling' = cancelling \cup {e}
    /\ human' = human + 1
    /\ UNCHANGED <<rowVars, triaging, paused, senderVars, delivered, histVars>>

\* ... and otherwise writes CANCELLED, without looking again.
WriteCancel(e) ==
    /\ e \in cancelling
    /\ cancelling' = cancelling \ {e}
    /\ status' = [status EXCEPT ![e] = "CANCELLED"]
    /\ withdrawn' = IF hold[e] # "expired" THEN withdrawn \cup {e} ELSE withdrawn
    /\ UNCHANGED <<inbound, hold, triaging, paused, senderVars, delivered, human, approvals, fate>>

SetPaused(o) ==
    /\ "pause" \in Events /\ human < MaxHuman
    /\ paused' = IF o \in paused THEN paused \ {o} ELSE paused \cup {o}
    /\ human' = human + 1
    /\ UNCHANGED <<rowVars, triaging, cancelling, senderVars, delivered, histVars>>

\* The clock passes holdUntil.
HoldExpires(e) ==
    /\ hold[e] = "running"
    /\ hold' = [hold EXCEPT ![e] = "expired"]
    /\ UNCHANGED <<inbound, status, triaging, cancelling, paused, senderVars, delivered, human, histVars>>

-----------------------------------------------------------------------------
(* sendQueuedEmails *)

\* Mutant: messages are picked up while their hold is still running.
Due_IgnoresHold == {e \in Outbound : status[e] = "QUEUED"}

\* Mutant: the direction is left out of the query.
Due_AnyDirection == {e \in Emails : status[e] = "QUEUED" /\ hold[e] = "expired"}

Due == {e \in Outbound : status[e] = "QUEUED" /\ hold[e] = "expired"}

\* findMany without an order: any full batch of the due messages.
Tick(s) ==
    /\ pc[s] = "idle"
    /\ \E batch \in SUBSET Due :
        /\ batch # {}
        /\ Cardinality(batch) <= TickSize
        /\ Cardinality(batch) = TickSize \/ batch = Due
        /\ todo' = [todo EXCEPT ![s] = batch]
        /\ fate' = [e \in Emails |-> IF e \in batch /\ Held(e) THEN fate[e] \cup {"overlap"}
                                                               ELSE fate[e]]
    /\ pc' = [pc EXCEPT ![s] = "loop"]
    /\ UNCHANGED <<rowVars, triaging, cancelling, paused, cur, delivered, human, approvals, withdrawn>>

\* Mutant: an execution that ends keeps its last message.
Continue_KeepsMessage(s, rest) ==
    /\ pc' = [pc EXCEPT ![s] = IF rest = {} THEN "idle" ELSE "loop"]
    /\ todo' = [todo EXCEPT ![s] = rest]
    /\ UNCHANGED cur

\* Done with a message that leaves rest to do.
Continue(s, rest) ==
    /\ pc' = [pc EXCEPT ![s] = IF rest = {} THEN "idle" ELSE "loop"]
    /\ cur' = [cur EXCEPT ![s] = Idle]
    /\ todo' = [todo EXCEPT ![s] = rest]

\* isChannelPaused skips the message, which stays QUEUED.
CheckPaused(s, e) ==
    /\ pc[s] = "loop" /\ e \in todo[s]
    /\ IF OrgOf[e] \in paused
       THEN Continue(s, todo[s] \ {e})
       ELSE /\ pc' = [pc EXCEPT ![s] = "send"]
            /\ cur' = [cur EXCEPT ![s] = e]
            /\ todo' = [todo EXCEPT ![s] = @ \ {e}]
    /\ UNCHANGED <<rowVars, triaging, cancelling, paused, delivered, human, histVars>>

\* channelsService.publish reads the credentials and calls the adapter, which
\* turns every SMTP error into a failure, the ones after the server took the
\* message included.
Send(s) ==
    /\ pc[s] = "send"
    /\ \/ /\ delivered' = More(delivered, cur[s])
          /\ pc' = [pc EXCEPT ![s] = "accepted"]
          /\ UNCHANGED fate
       \/ /\ pc' = [pc EXCEPT ![s] = "rejected"]
          /\ UNCHANGED <<delivered, fate>>
       \/ /\ "lostReply" \in Events
          /\ delivered' = More(delivered, cur[s])
          /\ pc' = [pc EXCEPT ![s] = "rejected"]
          /\ fate' = Tag(cur[s], "lostReply")
    /\ UNCHANGED <<rowVars, triaging, cancelling, paused, cur, todo, human, approvals, withdrawn>>

\* Mutant: the outcome of the adapter is ignored.
Record_AlwaysSent(s) ==
    /\ pc[s] \in {"accepted", "rejected"}
    /\ status' = [status EXCEPT ![cur[s]] = "SENT"]
    /\ Continue(s, todo[s])
    /\ UNCHANGED <<inbound, hold, triaging, cancelling, paused, delivered, human, histVars>>

\* Mutant: a sent message stays queued.
Record_LeavesQueued(s) ==
    /\ pc[s] \in {"accepted", "rejected"}
    /\ status' = IF pc[s] = "accepted" THEN status ELSE [status EXCEPT ![cur[s]] = "FAILED"]
    /\ Continue(s, todo[s])
    /\ UNCHANGED <<inbound, hold, triaging, cancelling, paused, delivered, human, histVars>>

\* The outcome is written over whatever the row says by now.
Record(s) ==
    /\ pc[s] \in {"accepted", "rejected"}
    /\ status' = [status EXCEPT ![cur[s]] = IF pc[s] = "accepted" THEN "SENT" ELSE "FAILED"]
    /\ Continue(s, todo[s])
    /\ UNCHANGED <<inbound, hold, triaging, cancelling, paused, delivered, human, histVars>>

\* Messages that were sent, or were about to be, when their sender went away.
Died(ss) == [e \in Emails |->
    IF \E s \in ss : cur[s] = e /\ pc[s] \in {"accepted", "rejected"}
    THEN fate[e] \cup {"died"} ELSE fate[e]]

\* Nothing in the loop catches: a query that fails, or credentials that do not
\* decrypt, end the tick, and the rest of the batch waits for another one.
TickThrows(s) ==
    /\ "dbError" \in Events /\ pc[s] # "idle"
    /\ fate' = Died({s})
    /\ Continue(s, {})
    /\ UNCHANGED <<rowVars, triaging, cancelling, paused, delivered, human, approvals, withdrawn>>

Crash ==
    /\ "crash" \in Events
    /\ (\E s \in Senders : pc[s] # "idle") \/ triaging # {} \/ cancelling # {}
    /\ fate' = Died(Senders)
    /\ pc' = [s \in Senders |-> "idle"]
    /\ cur' = [s \in Senders |-> Idle]
    /\ todo' = [s \in Senders |-> {}]
    /\ triaging' = {} /\ cancelling' = {}
    /\ UNCHANGED <<rowVars, paused, delivered, human, approvals, withdrawn>>

-----------------------------------------------------------------------------
SenderStep(s) ==
    \/ \E e \in Emails : CheckPaused(s, e)
    \/ Send(s) \/ Record(s) \/ TickThrows(s)

Next ==
    \/ \E e \in Emails :
        \/ Draft(e) \/ Receive(e) \/ Triage(e) \/ HoldExpires(e)
        \/ Approve(e) \/ ReadToCancel(e) \/ WriteCancel(e)
    \/ \E o \in Orgs : SetPaused(o)
    \/ \E s \in Senders : Tick(s) \/ SenderStep(s)
    \/ Crash

Spec == Init /\ [][Next]_vars

\* The clock, the cron, and the awaits of a running handler make progress.
Fairness ==
    /\ \A e \in Emails : WF_vars(HoldExpires(e)) /\ WF_vars(Triage(e)) /\ WF_vars(WriteCancel(e))
    /\ \A s \in Senders : WF_vars(Tick(s)) /\ WF_vars(SenderStep(s))

FairSpec == Spec /\ Fairness

-----------------------------------------------------------------------------
(* Properties *)

\* The pipeline keeps the promise of an outbox: what leaves was drafted under
\* auto-send or approved, and what is marked SENT has left.
PromisedOutbox == INSTANCE Outbox WITH
    Messages <- Emails,
    released <- {e \in Emails : approvals[e] > 0},
    copies   <- delivered,
    reported <- {e \in Emails : status[e] = "SENT"}

ImplementsOutbox == PromisedOutbox!Spec

\* A received message is never sent out, even when somebody approves it.
InboundStaysIn ==
    \A e \in inbound : delivered[e] = 0 /\ ~Held(e)

\* The row of a message handed over by the sender is not marked first, so two
\* copies have one of these causes: overlapping ticks, a second approval, or a
\* sender that died between the hand-over and the record.
DuplicateHasCause ==
    \A e \in Emails : delivered[e] = 2 =>
        fate[e] \cap {"overlap", "died"} # {} \/ approvals[e] = 2

\* A message cancelled while its hold was still running, and approved only
\* once, never leaves: no tick can have it in hand.
FirstHoldIsCancellable ==
    \A e \in withdrawn : approvals[e] <= 1 => delivered[e] = 0 /\ ~Held(e)

\* Once crashes and failing queries stop, every queued message whose hold
\* expires leaves the queue, as long as its organization is not paused.
QueueDrains ==
    <>[][~Crash /\ \A s \in Senders : ~TickThrows(s)]_vars =>
        \A e \in Emails : status[e] = "QUEUED" /\ e \in Outbound
                            ~> status[e] # "QUEUED" \/ OrgOf[e] \in paused

=============================================================================
