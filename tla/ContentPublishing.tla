------------------------- MODULE ContentPublishing -------------------------
(***************************************************************************)
(* Publication of content items (content.service.ts): the per-minute       *)
(* scheduler publishDueItems, the "publish now" endpoint, and the human    *)
(* operations that race with them (create, update, cancel).                *)
(*                                                                         *)
(* A publisher is one execution of publishDueItems or of publishNow.       *)
(* Nothing in the code makes a tick wait for the previous one, so several  *)
(* publishers run at once; each await is a separate step of its publisher. *)
(* The daily rails of AgentSettingsService (kill-switch, paused channels,  *)
(* post cap) are read by every publisher before each item.                 *)
(***************************************************************************)
EXTENDS Naturals, FiniteSets

CONSTANTS
    Items,          \* content items of one organization
    Publishers,     \* executions of publishDueItems / publishNow in flight
    Channels,       \* publish channels
    ChannelOf,      \* the channel each item is created for
    Exempt,         \* channels the daily cap does not apply to (EMAIL)
    MaxPostsPerDay, \* AgentSettings.maxPostsPerDay
    MaxAttempts,    \* MAX_PUBLISH_ATTEMPTS
    TickSize,       \* "take: 10", the items one tick picks up at most
    MaxHuman,       \* bound: update / cancel / publishNow calls, all together
    Events,         \* which of EventKinds the environment may produce
    Idle            \* "no item", the cur of a publisher between items

EventKinds == {"crash", "dbError", "lostReply", "killSwitch", "pause", "midnight"}

ASSUME PublishingAssumption ==
    /\ IsFiniteSet(Items) /\ IsFiniteSet(Publishers) /\ Publishers # {}
    /\ ChannelOf \in [Items -> Channels]
    /\ Exempt \subseteq Channels
    /\ MaxPostsPerDay \in Nat /\ MaxAttempts \in Nat
    /\ TickSize \in Nat /\ MaxHuman \in Nat
    /\ Events \subseteq EventKinds
    /\ Idle \notin Items

VARIABLES
    status,     \* ContentItem.status; NONE before the row exists
    channel,    \* ContentItem.channel
    due,        \* scheduledFor <= now
    attempts,   \* ContentItem.attempts
    today,      \* items whose publishedAt is not before startOfDay
    killSwitch, \* AgentSettings.killSwitch
    paused,     \* AgentSettings.pausedChannels
    pc,         \* where each publisher stands in executePublish
    cur,        \* the item it is working on
    todo,       \* the rest of its findMany result
    seen, route,    \* attempts and channels as its (possibly stale) snapshot has them
    posted,     \* external: copies of the item the platform shows
    human,      \* bound counter of human calls
    fate,       \* history: what has happened to each item
    late        \* history: posts of each publisher since the switch was set

itemVars == <<status, channel, due, attempts, today>>
railVars == <<killSwitch, paused>>
pubVars  == <<pc, cur, todo, seen, route>>
vars == <<itemVars, railVars, pubVars, posted, human, fate, late>>

Statuses == {"NONE", "DRAFT", "SCHEDULED", "PUBLISHING", "PUBLISHED", "FAILED", "CANCELLED"}
Steps == {"idle", "loop", "count", "block", "mark", "send", "accepted", "rejected"}
Fates == {"scheduled", "moved", "overlap", "lostReply", "human", "died"}

TypeOK ==
    /\ status \in [Items -> Statuses]
    /\ channel \in [Items -> Channels]
    /\ due \in [Items -> BOOLEAN]
    /\ attempts \in [Items -> 0..MaxAttempts]
    /\ today \subseteq Items
    /\ killSwitch \in BOOLEAN
    /\ paused \subseteq Channels
    /\ pc \in [Publishers -> Steps]
    /\ cur \in [Publishers -> Items \cup {Idle}]
    /\ todo \in [Publishers -> SUBSET Items]
    /\ \A p \in Publishers :
        /\ cur[p] = Idle <=> pc[p] \in {"idle", "loop"}
        /\ pc[p] = "idle" => todo[p] = {}
    /\ seen \in [Publishers -> [Items -> 0..MaxAttempts]]
    /\ route \in [Publishers -> [Items -> Channels]]
    /\ posted \in [Items -> 0..2]
    /\ human \in 0..MaxHuman
    /\ fate \in [Items -> SUBSET Fates]
    /\ late \in [Publishers -> 0..2]

Init ==
    /\ status = [i \in Items |-> "NONE"]
    /\ channel = ChannelOf
    /\ due = [i \in Items |-> FALSE]
    /\ attempts = [i \in Items |-> 0]
    /\ today = {}
    /\ killSwitch = FALSE
    /\ paused = {}
    /\ pc = [p \in Publishers |-> "idle"]
    /\ cur = [p \in Publishers |-> Idle]
    /\ todo = [p \in Publishers |-> {}]
    /\ seen = [p \in Publishers |-> [i \in Items |-> 0]]
    /\ route = [p \in Publishers |-> ChannelOf]
    /\ posted = [i \in Items |-> 0]
    /\ human = 0
    /\ fate = [i \in Items |-> {}]
    /\ late = [p \in Publishers |-> 0]

-----------------------------------------------------------------------------
(* Operators on the state *)

\* The items publisher p has in hand: the one it works on and those to come.
InHand(p) == todo[p] \cup ({cur[p]} \cap Items)

Held(i) == \E p \in Publishers : i \in InHand(p)

\* postsPublishedToday: the rows a count query finds for the channel.
PublishedToday(c) == {i \in today : status[i] = "PUBLISHED" /\ channel[i] = c}

\* Mutant: the cap is off by one for every publisher.
CapReached_OffByOne(c) == c \notin Exempt /\ Cardinality(PublishedToday(c)) > MaxPostsPerDay

CapReached(c) == c \notin Exempt /\ Cardinality(PublishedToday(c)) >= MaxPostsPerDay

\* Mutant: the kill-switch is not looked at.
Halted_PausesOnly(c) == c \in paused

\* The first two tests of canPublish, on the settings row just read.
Halted(c) == killSwitch \/ c \in paused

\* Counters stop where nothing tells their values apart any more: attempts at
\* MAX_PUBLISH_ATTEMPTS, copies and late posts at "two or more".
Saturated(n, bound) == IF n > bound THEN bound ELSE n

Tag(i, f) == [fate EXCEPT ![i] = @ \cup {f}]

-----------------------------------------------------------------------------
(* Human operations *)

\* create, and the row that generate ends with.
Create(i) ==
    /\ status[i] = "NONE"
    /\ \/ status' = [status EXCEPT ![i] = "DRAFT"] /\ UNCHANGED <<due, fate>>
       \/ /\ status' = [status EXCEPT ![i] = "SCHEDULED"]
          /\ \E b \in BOOLEAN : due' = [due EXCEPT ![i] = b]
          /\ fate' = Tag(i, "scheduled")
    /\ UNCHANGED <<channel, attempts, today, railVars, pubVars, posted, human, late>>

\* update with a scheduledFor: whatever the status was, it becomes SCHEDULED.
Reschedule(i) ==
    /\ human < MaxHuman /\ status[i] # "NONE"
    /\ status' = [status EXCEPT ![i] = "SCHEDULED"]
    /\ \E b \in BOOLEAN : due' = [due EXCEPT ![i] = b]
    /\ human' = human + 1
    /\ fate' = Tag(i, "human")
    /\ UNCHANGED <<channel, attempts, today, railVars, pubVars, posted, late>>

\* update with another channel, whatever the status is.
Move(i, c) ==
    /\ human < MaxHuman /\ status[i] # "NONE" /\ c # channel[i]
    /\ channel' = [channel EXCEPT ![i] = c]
    /\ human' = human + 1
    /\ fate' = Tag(i, "moved")
    /\ UNCHANGED <<status, due, attempts, today, railVars, pubVars, posted, late>>

Cancel(i) ==
    /\ human < MaxHuman /\ status[i] # "NONE"
    /\ status' = [status EXCEPT ![i] = "CANCELLED"]
    /\ human' = human + 1
    /\ UNCHANGED <<channel, due, attempts, today, railVars, pubVars, posted, fate, late>>

\* publishNow reads the row, then runs executePublish on what it read.
PublishNow(p, i) ==
    /\ human < MaxHuman /\ pc[p] = "idle" /\ status[i] # "NONE"
    /\ pc' = [pc EXCEPT ![p] = "loop"]
    /\ todo' = [todo EXCEPT ![p] = {i}]
    /\ seen' = [seen EXCEPT ![p][i] = attempts[i]]
    /\ route' = [route EXCEPT ![p][i] = channel[i]]
    /\ human' = human + 1
    /\ fate' = Tag(i, "human")
    /\ UNCHANGED <<itemVars, railVars, cur, posted, late>>

SetKillSwitch ==
    /\ "killSwitch" \in Events
    /\ killSwitch' = ~killSwitch
    /\ late' = [p \in Publishers |-> 0]
    /\ UNCHANGED <<itemVars, paused, pubVars, posted, human, fate>>

SetPaused(c) ==
    /\ "pause" \in Events
    /\ paused' = IF c \in paused THEN paused \ {c} ELSE paused \cup {c}
    /\ UNCHANGED <<itemVars, killSwitch, pubVars, posted, human, fate, late>>

-----------------------------------------------------------------------------
(* The clock *)

\* The scheduledFor of an item passes.
FallsDue(i) ==
    /\ status[i] # "NONE" /\ ~due[i]
    /\ due' = [due EXCEPT ![i] = TRUE]
    /\ UNCHANGED <<channel, status, attempts, today, railVars, pubVars, posted, human, fate, late>>

\* Midnight: startOfDay moves past every publishedAt.
NewDay ==
    /\ "midnight" \in Events /\ today # {}
    /\ today' = {}
    /\ UNCHANGED <<channel, status, due, attempts, railVars, pubVars, posted, human, fate, late>>

-----------------------------------------------------------------------------
(* publishDueItems and executePublish *)

\* Mutant: the status is left out of the query.
DueItems_AnyStatus == {i \in Items : status[i] # "NONE" /\ due[i]}

\* Mutant: drafts are picked up as well.
DueItems_Drafts == {i \in Items : status[i] \in {"DRAFT", "SCHEDULED"} /\ due[i]}

DueItems == {i \in Items : status[i] = "SCHEDULED" /\ due[i]}

\* findMany with no orderBy: any full batch of the due items.
Tick(p) ==
    /\ pc[p] = "idle"
    /\ \E batch \in SUBSET DueItems :
        /\ batch # {}
        /\ Cardinality(batch) <= TickSize
        /\ Cardinality(batch) = TickSize \/ batch = DueItems
        /\ todo' = [todo EXCEPT ![p] = batch]
        /\ seen' = [seen EXCEPT ![p] = [i \in Items |-> IF i \in batch THEN attempts[i] ELSE 0]]
        /\ route' = [route EXCEPT ![p] = [i \in Items |-> IF i \in batch THEN channel[i] ELSE ChannelOf[i]]]
        /\ fate' = [i \in Items |-> IF i \in batch /\ Held(i) THEN fate[i] \cup {"overlap"}
                                                              ELSE fate[i]]
    /\ pc' = [pc EXCEPT ![p] = "loop"]
    /\ UNCHANGED <<itemVars, railVars, cur, posted, human, late>>

\* Next iteration of the loop: canPublish reads the settings row.
ReadSettings(p, i) ==
    /\ pc[p] = "loop" /\ i \in todo[p]
    /\ cur' = [cur EXCEPT ![p] = i]
    /\ todo' = [todo EXCEPT ![p] = @ \ {i}]
    /\ pc' = [pc EXCEPT ![p] = IF Halted(route[p][i]) THEN "block" ELSE "count"]
    /\ UNCHANGED <<itemVars, railVars, seen, route, posted, human, fate, late>>

\* canPublish counts today's posts and compares with the cap.
CountPosts(p) ==
    /\ pc[p] = "count"
    /\ pc' = [pc EXCEPT ![p] = IF CapReached(route[p][cur[p]]) THEN "block" ELSE "mark"]
    /\ UNCHANGED <<itemVars, railVars, cur, todo, seen, route, posted, human, fate, late>>

\* Mutant: an execution that ends keeps its last item.
Continue_KeepsItem(p) ==
    /\ pc' = [pc EXCEPT ![p] = IF todo[p] = {} THEN "idle" ELSE "loop"]
    /\ seen' = [seen EXCEPT ![p] = [i \in Items |-> IF i \in todo[p] THEN seen[p][i] ELSE 0]]
    /\ route' = [route EXCEPT ![p] = [i \in Items |-> IF i \in todo[p] THEN route[p][i] ELSE ChannelOf[i]]]
    /\ UNCHANGED <<cur, todo>>

\* Done with cur[p]: on to the next item, or the execution ends.
Continue(p) ==
    /\ pc' = [pc EXCEPT ![p] = IF todo[p] = {} THEN "idle" ELSE "loop"]
    /\ cur' = [cur EXCEPT ![p] = Idle]
    /\ seen' = [seen EXCEPT ![p] = [i \in Items |-> IF i \in todo[p] THEN seen[p][i] ELSE 0]]
    /\ route' = [route EXCEPT ![p] = [i \in Items |-> IF i \in todo[p] THEN route[p][i] ELSE ChannelOf[i]]]
    /\ UNCHANGED todo

\* The gate refused: the item is FAILED for good.
Block(p) ==
    /\ pc[p] = "block"
    /\ status' = [status EXCEPT ![cur[p]] = "FAILED"]
    /\ Continue(p)
    /\ UNCHANGED <<channel, due, attempts, today, railVars, posted, human, fate, late>>

\* Mutant: the attempt is not counted.
Mark_NoIncrement(p) ==
    /\ pc[p] = "mark"
    /\ status' = [status EXCEPT ![cur[p]] = "PUBLISHING"]
    /\ pc' = [pc EXCEPT ![p] = "send"]
    /\ UNCHANGED <<channel, due, attempts, today, railVars, cur, todo, seen, route, posted, human, fate, late>>

Mark(p) ==
    /\ pc[p] = "mark"
    /\ status' = [status EXCEPT ![cur[p]] = "PUBLISHING"]
    /\ attempts' = [attempts EXCEPT ![cur[p]] = Saturated(@ + 1, MaxAttempts)]
    /\ pc' = [pc EXCEPT ![p] = "send"]
    /\ UNCHANGED <<channel, due, today, railVars, cur, todo, seen, route, posted, human, fate, late>>

\* The post is public: for Instagram its container has been published, which is
\* the second of two calls.
Post(p) ==
    /\ posted' = [posted EXCEPT ![cur[p]] = Saturated(@ + 1, 2)]
    /\ late' = [late EXCEPT ![p] = IF killSwitch THEN Saturated(@ + 1, 2) ELSE @]

\* The platform takes the post and says so.
Taken(p) ==
    /\ Post(p)
    /\ pc' = [pc EXCEPT ![p] = "accepted"]
    /\ UNCHANGED fate

\* Without an account, a picture or a container nothing is published; nor is it
\* when the platform refuses or was not reached.
Refused(p) ==
    /\ pc' = [pc EXCEPT ![p] = "rejected"]
    /\ UNCHANGED <<posted, late, fate>>

\* The platform takes the post while the answer is lost (the 15 s abort), which
\* the adapter reports as a failure.
AnswerLost(p) ==
    /\ "lostReply" \in Events
    /\ Post(p)
    /\ pc' = [pc EXCEPT ![p] = "rejected"]
    /\ fate' = Tag(cur[p], "lostReply")

Send(p) ==
    /\ pc[p] = "send"
    /\ Taken(p) \/ Refused(p) \/ AnswerLost(p)
    /\ UNCHANGED <<itemVars, railVars, cur, todo, seen, route, human>>

\* Mutant: the row goes back to SCHEDULED.
RecordSuccess_Reschedules(p) ==
    /\ pc[p] = "accepted"
    /\ status' = [status EXCEPT ![cur[p]] = "SCHEDULED"]
    /\ Continue(p)
    /\ UNCHANGED <<channel, due, attempts, today, railVars, posted, human, fate, late>>

RecordSuccess(p) ==
    /\ pc[p] = "accepted"
    /\ status' = [status EXCEPT ![cur[p]] = "PUBLISHED"]
    /\ today' = today \cup {cur[p]}
    /\ Continue(p)
    /\ UNCHANGED <<channel, due, attempts, railVars, posted, human, fate, late>>

\* The last attempt is recognised from the snapshot, not from the row.
LastAttempt(p) == seen[p][cur[p]] + 1 >= MaxAttempts

\* Mutant: a refused post is recorded as a success.
RecordFailure_AsSuccess(p) ==
    /\ pc[p] = "rejected"
    /\ status' = [status EXCEPT ![cur[p]] = "PUBLISHED"]
    /\ today' = today \cup {cur[p]}
    /\ Continue(p)
    /\ UNCHANGED <<channel, due, attempts, railVars, posted, human, fate, late>>

\* Mutant: a refused post that was cancelled meanwhile is left as it is.
RecordFailure_LeavesRow(p) ==
    /\ pc[p] = "rejected"
    /\ Continue(p)
    /\ UNCHANGED <<itemVars, railVars, posted, human, fate, late>>

RecordFailure(p) ==
    /\ pc[p] = "rejected"
    /\ IF LastAttempt(p)
       THEN status' = [status EXCEPT ![cur[p]] = "FAILED"] /\ UNCHANGED due
       ELSE /\ status' = [status EXCEPT ![cur[p]] = "SCHEDULED"]
            /\ due' = [due EXCEPT ![cur[p]] = FALSE]
    /\ Continue(p)
    /\ UNCHANGED <<channel, attempts, today, railVars, posted, human, fate, late>>

-----------------------------------------------------------------------------
(* Faults *)

Died(ps) == [i \in Items |->
    IF \E p \in ps : cur[p] = i /\ pc[p] \in {"send", "accepted", "rejected"}
    THEN fate[i] \cup {"died"} ELSE fate[i]]

\* A query of executePublish throws; the tick logs it and goes on.
DbError(p) ==
    /\ "dbError" \in Events
    /\ pc[p] \notin {"idle", "loop"}
    /\ fate' = Died({p})
    /\ Continue(p)
    /\ UNCHANGED <<itemVars, railVars, posted, human, late>>

\* The process stops; no start-up code looks at the rows it left behind.
Crash ==
    /\ "crash" \in Events
    /\ \E p \in Publishers : pc[p] # "idle"
    /\ fate' = Died(Publishers)
    /\ pc' = [p \in Publishers |-> "idle"]
    /\ cur' = [p \in Publishers |-> Idle]
    /\ todo' = [p \in Publishers |-> {}]
    /\ seen' = [p \in Publishers |-> [i \in Items |-> 0]]
    /\ route' = [p \in Publishers |-> ChannelOf]
    /\ UNCHANGED <<itemVars, railVars, posted, human, late>>

-----------------------------------------------------------------------------
PublisherStep(p) ==
    \/ \E i \in Items : ReadSettings(p, i)
    \/ CountPosts(p) \/ Block(p) \/ Mark(p) \/ Send(p)
    \/ RecordSuccess(p) \/ RecordFailure(p)

Next ==
    \/ \E i \in Items : Create(i) \/ Reschedule(i) \/ Cancel(i) \/ FallsDue(i)
    \/ \E i \in Items, c \in Channels : Move(i, c)
    \/ \E p \in Publishers, i \in Items : PublishNow(p, i)
    \/ SetKillSwitch \/ NewDay \/ Crash
    \/ \E c \in Channels : SetPaused(c)
    \/ \E p \in Publishers : Tick(p) \/ PublisherStep(p) \/ DbError(p)

Spec == Init /\ [][Next]_vars

\* The clock advances, the cron fires every minute, and every awaited call
\* returns (the adapters abort after 15 s), so these are weakly fair. People
\* and faults are not.
Fairness ==
    /\ \A i \in Items : WF_vars(FallsDue(i))
    /\ \A p \in Publishers : WF_vars(Tick(p)) /\ WF_vars(PublisherStep(p))

FairSpec == Spec /\ Fairness

-----------------------------------------------------------------------------
(* Properties *)

\* A row reads PUBLISHED only if the platform has at least one copy: neither
\* stale snapshots, lost answers, crashes nor concurrent publishers make
\* executePublish report a post that never went out.
PublishedWasPosted ==
    \A i \in Items : status[i] = "PUBLISHED" => posted[i] > 0

\* Posts that count for channel c and were made there: update may move an item
\* to another channel after it was published, and its count with it.
Counted(c) == {i \in PublishedToday(c) : "moved" \notin fate[i]}

\* canPublish counts and executePublish posts later, so concurrent publishers
\* may all pass the gate on the same count. The daily cap is then missed, but
\* by less than the number of publishers in flight.
CapOvershootBounded ==
    \A c \in Channels \ Exempt :
        Cardinality(Counted(c)) < MaxPostsPerDay + Cardinality(Publishers)

\* A row stays in PUBLISHING only while a publisher that marked it is still
\* running, or because that publisher died: no ordering of concurrent
\* publishers, cancels and reschedules leaves one behind by itself.
PublishingHasOwner ==
    \A i \in Items : status[i] = "PUBLISHING" =>
        \/ \E p \in Publishers : cur[p] = i /\ pc[p] \in {"send", "accepted", "rejected"}
        \/ "died" \in fate[i]

\* The status of a row is true: a PUBLISHED one was posted and a PUBLISHING one
\* is being posted, or its publisher died.
OutcomeIsTrue == PublishedWasPosted /\ PublishingHasOwner

\* The kill-switch is read again before every item, so after it is set each
\* execution posts at most the one item that had already passed the gate,
\* whatever is left of its batch.
HaltWithinOnePost ==
    killSwitch => \A p \in Publishers : late[p] <= 1

\* The platform shows an item twice only if two publishers had it in hand at
\* once, an accepted post was reported as failed, or a human asked again. A
\* crash or a database error alone never duplicates a post.
DuplicateHasCause ==
    \A i \in Items : posted[i] >= 2 =>
        fate[i] \cap {"overlap", "lostReply", "human"} # {}

\* The scheduler keeps the promise of an outbox: only items somebody scheduled
\* or asked for are posted, and what reads PUBLISHED has been posted.
PromisedOutbox == INSTANCE Outbox WITH
    Messages <- Items,
    released <- {i \in Items : fate[i] \cap {"scheduled", "human"} # {}},
    copies   <- posted,
    reported <- {i \in Items : status[i] = "PUBLISHED"}

ImplementsOutbox == PromisedOutbox!Spec

\* A cancelled item that no publisher has in hand is out of the scheduler's
\* reach: only a human call puts it back in a publisher's hands.
CancelledStaysCancelled ==
    [][\A i \in Items : (status[i] = "CANCELLED" /\ ~Held(i)) =>
            (~Held(i)' /\ status'[i] = "CANCELLED") \/ human' = human + 1]_vars

\* Every scheduled item, and every item a publisher took up, reaches a final
\* status: the retries end and no batch starves an item.
EveryItemSettles ==
    \A i \in Items : status[i] \in {"SCHEDULED", "PUBLISHING"}
                        ~> status[i] \in {"PUBLISHED", "FAILED", "CANCELLED"}

=============================================================================
