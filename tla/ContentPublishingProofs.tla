---------------------- MODULE ContentPublishingProofs ----------------------
(* Theorems about ContentPublishing, for any number of items and publishers. *)
EXTENDS ContentPublishing, FiniteSetTheorems, TLAPS

\* The operator stays within its bound.
LEMMA SaturatedInRange ==
    ASSUME NEW b \in Nat, NEW n \in 0..b
    PROVE  Saturated(n + 1, b) \in 0..b
BY DEF Saturated

\* A tag is added to what has happened to the item.
LEMMA TagAdds ==
    ASSUME fate \in [Items -> SUBSET Fates], NEW i \in Items, NEW f \in Fates
    PROVE  /\ Tag(i, f) \in [Items -> SUBSET Fates]
           /\ \A j \in Items : fate[j] \subseteq Tag(i, f)[j]
BY DEF Tag

\* A post adds a copy of the item.
LEMMA PostAdds ==
    ASSUME posted \in [Items -> 0..2], NEW p \in Publishers, cur[p] \in Items, Post(p)
    PROVE  /\ \A i \in Items : posted[i] > 0 => posted'[i] > 0
           /\ posted'[cur[p]] > 0
BY DEF Post, Saturated

-----------------------------------------------------------------------------
(* Type correctness *)

\* Every reachable state is well typed, and a publisher holds an item exactly
\* while it is inside executePublish.
THEOREM TypeCorrect == Spec => []TypeOK
<1> USE PublishingAssumption DEF TypeOK
<1>1. Init => TypeOK
  <2> SUFFICES ASSUME Init PROVE TypeOK
    OBVIOUS
  <2>1. 0 \in 0..MaxAttempts /\ 0 \in 0..MaxHuman /\ 0 \in 0..2
    OBVIOUS
  <2>2. /\ status \in [Items -> Statuses] /\ channel \in [Items -> Channels] /\ due \in [Items -> BOOLEAN]
        /\ attempts \in [Items -> 0..MaxAttempts] /\ today \subseteq Items
        /\ killSwitch \in BOOLEAN /\ paused \subseteq Channels
    BY <2>1 DEF Init, Statuses
  <2>3. /\ pc \in [Publishers -> Steps] /\ cur \in [Publishers -> Items \cup {Idle}]
        /\ todo \in [Publishers -> SUBSET Items]
        /\ \A p \in Publishers : cur[p] = Idle /\ pc[p] = "idle" /\ todo[p] = {}
    BY DEF Init, Steps
  <2>4. /\ seen \in [Publishers -> [Items -> 0..MaxAttempts]]
        /\ posted \in [Items -> 0..2] /\ human \in 0..MaxHuman
        /\ fate \in [Items -> SUBSET Fates] /\ late \in [Publishers -> 0..2]
        /\ route \in [Publishers -> [Items -> Channels]]
    BY <2>1 DEF Init
  <2>5. QED
    BY <2>2, <2>3, <2>4
<1>2. TypeOK /\ [Next]_vars => TypeOK'
  <2> SUFFICES ASSUME TypeOK, [Next]_vars PROVE TypeOK'
    OBVIOUS
  <2> USE DEF itemVars, railVars, pubVars, Statuses, Steps, Fates
  <2>1. ASSUME NEW i \in Items, Create(i) PROVE TypeOK'
    <3>1. status' \in [Items -> Statuses] /\ due' \in [Items -> BOOLEAN]
      <4>1. CASE UNCHANGED <<due, fate>>
        BY <2>1, <4>1 DEF Create
      <4>2. CASE \E b \in BOOLEAN : due' = [due EXCEPT ![i] = b]
        BY <2>1, <4>2 DEF Create
      <4>3. QED
        BY <2>1, <4>1, <4>2 DEF Create
    <3>2. fate' \in [Items -> SUBSET Fates]
      <4>1. UNCHANGED fate \/ fate' = Tag(i, "scheduled")
        BY <2>1 DEF Create
      <4>2. QED
        BY <4>1, TagAdds
    <3>3. QED
      BY <2>1, <3>1, <3>2 DEF Create
  <2>2. ASSUME NEW i \in Items, Reschedule(i) PROVE TypeOK'
    <3>1. fate' \in [Items -> SUBSET Fates]
      BY <2>2, TagAdds DEF Reschedule
    <3>2. status' \in [Items -> Statuses] /\ due' \in [Items -> BOOLEAN]
      BY <2>2 DEF Reschedule
    <3>3. QED
      BY <2>2, <3>1, <3>2 DEF Reschedule
  <2>3. ASSUME NEW i \in Items, Cancel(i) \/ \E c \in Channels : Move(i, c) PROVE TypeOK'
    <3>1. CASE Cancel(i)
      BY <3>1 DEF Cancel
    <3>2. CASE \E c \in Channels : Move(i, c)
      <4>1. fate' \in [Items -> SUBSET Fates]
        BY <3>2, TagAdds DEF Move
      <4>2. channel' \in [Items -> Channels]
        BY <3>2 DEF Move
      <4>3. QED
        BY <3>2, <4>1, <4>2 DEF Move
    <3>3. QED
      BY <2>3, <3>1, <3>2
  <2>4. ASSUME NEW i \in Items, FallsDue(i) PROVE TypeOK'
    BY <2>4 DEF FallsDue
  <2>5. ASSUME NEW p \in Publishers, NEW i \in Items, PublishNow(p, i) PROVE TypeOK'
    <3>1. fate' \in [Items -> SUBSET Fates]
      BY <2>5, TagAdds DEF PublishNow
    <3>2. /\ seen' \in [Publishers -> [Items -> 0..MaxAttempts]]
          /\ route' \in [Publishers -> [Items -> Channels]]
      BY <2>5 DEF PublishNow
    <3>3. QED
      BY <2>5, <3>1, <3>2 DEF PublishNow
  <2>6. ASSUME SetKillSwitch PROVE TypeOK'
    BY <2>6 DEF SetKillSwitch
  <2>7. ASSUME NewDay PROVE TypeOK'
    BY <2>7 DEF NewDay
  <2>8. ASSUME Crash PROVE TypeOK'
    BY <2>8 DEF Crash, Died
  <2>9. ASSUME NEW c \in Channels, SetPaused(c) PROVE TypeOK'
    BY <2>9 DEF SetPaused
  <2>10. ASSUME NEW p \in Publishers, Tick(p) PROVE TypeOK'
    BY <2>10 DEF Tick, DueItems
  <2>11. ASSUME NEW p \in Publishers, NEW i \in Items, ReadSettings(p, i) PROVE TypeOK'
    BY <2>11 DEF ReadSettings
  <2>12. ASSUME NEW p \in Publishers, CountPosts(p) PROVE TypeOK'
    BY <2>12 DEF CountPosts
  <2>13. ASSUME NEW p \in Publishers, Block(p) PROVE TypeOK'
    <3>1. cur[p] \in Items
      BY <2>13 DEF Block
    <3>2. status' \in [Items -> Statuses]
      BY <2>13, <3>1 DEF Block
    <3>3. QED
      BY <2>13, <3>2 DEF Block, Continue
  <2>14. ASSUME NEW p \in Publishers, Mark(p) PROVE TypeOK'
    <3>1. cur[p] \in Items
      BY <2>14 DEF Mark
    <3>2. Saturated(attempts[cur[p]] + 1, MaxAttempts) \in 0..MaxAttempts
      <4>1. attempts[cur[p]] \in 0..MaxAttempts
        BY <3>1
      <4>2. QED
        BY <4>1, SaturatedInRange
    <3>3. attempts' \in [Items -> 0..MaxAttempts] /\ status' \in [Items -> Statuses]
      BY <2>14, <3>2 DEF Mark
    <3>4. QED
      BY <2>14, <3>1, <3>3 DEF Mark
  <2>15. ASSUME NEW p \in Publishers, Send(p) PROVE TypeOK'
    <3>1. cur[p] \in Items
      BY <2>15 DEF Send, Taken, Refused, AnswerLost
    <3>2. /\ Saturated(posted[cur[p]] + 1, 2) \in 0..2
          /\ Saturated(late[p] + 1, 2) \in 0..2
      <4>1. posted[cur[p]] \in 0..2 /\ late[p] \in 0..2
        BY <3>1
      <4>2. QED
        BY <4>1, SaturatedInRange
    <3>3. posted' \in [Items -> 0..2] /\ late' \in [Publishers -> 0..2]
      <4>1. CASE Post(p)
        BY <3>2, <4>1 DEF Post
      <4>2. CASE UNCHANGED <<posted, late>>
        BY <4>2
      <4>3. QED
        BY <2>15, <4>1, <4>2 DEF Send, Taken, Refused, AnswerLost
    <3>4. fate' \in [Items -> SUBSET Fates]
      BY <2>15, <3>1, TagAdds DEF Send, Taken, Refused, AnswerLost
    <3>5. QED
      BY <2>15, <3>1, <3>3, <3>4 DEF Send, Taken, Refused, AnswerLost
  <2>16. ASSUME NEW p \in Publishers, RecordSuccess(p) PROVE TypeOK'
    <3>1. cur[p] \in Items
      BY <2>16 DEF RecordSuccess
    <3>2. status' \in [Items -> Statuses] /\ today' \subseteq Items
      BY <2>16, <3>1 DEF RecordSuccess
    <3>3. QED
      BY <2>16, <3>2 DEF RecordSuccess, Continue
  <2>17. ASSUME NEW p \in Publishers, RecordFailure(p) PROVE TypeOK'
    <3>1. cur[p] \in Items
      BY <2>17 DEF RecordFailure
    <3>2. /\ status' \in [Items -> Statuses]
          /\ due' \in [Items -> BOOLEAN]
      BY <2>17, <3>1 DEF RecordFailure
    <3>3. QED
      BY <2>17, <3>2 DEF RecordFailure, Continue
  <2>18. ASSUME NEW p \in Publishers, DbError(p) PROVE TypeOK'
    BY <2>18 DEF DbError, Continue, Died
  <2>19. CASE UNCHANGED vars
    BY <2>19 DEF vars
  <2>20. QED
    BY <2>1, <2>2, <2>3, <2>4, <2>5, <2>6, <2>7, <2>8, <2>9, <2>10, <2>11, <2>12,
       <2>13, <2>14, <2>15, <2>16, <2>17, <2>18, <2>19 DEF Next, PublisherStep
<1>3. QED
  BY <1>1, <1>2, PTL DEF Spec

\* What has happened to an item is never forgotten.
LEMMA FateKept ==
    ASSUME TypeOK, [Next]_vars
    PROVE  \A i \in Items : fate[i] \subseteq fate'[i]
<1>1. ASSUME NEW i \in Items, NEW f \in Fates, fate' = Tag(i, f)
      PROVE  \A j \in Items : fate[j] \subseteq fate'[j]
  BY <1>1, TagAdds DEF TypeOK
<1>2. ASSUME NEW p \in Publishers, Tick(p) PROVE \A j \in Items : fate[j] \subseteq fate'[j]
  BY <1>2 DEF Tick, TypeOK
<1>3. ASSUME Crash \/ \E p \in Publishers : DbError(p)
      PROVE  \A j \in Items : fate[j] \subseteq fate'[j]
  <2>1. \E ps : fate' = Died(ps)
    BY <1>3 DEF Crash, DbError
  <2>2. QED
    BY <2>1 DEF Died
<1>4. ASSUME NEW p \in Publishers, Send(p) PROVE \A j \in Items : fate[j] \subseteq fate'[j]
  <2>1. cur[p] \in Items /\ (UNCHANGED fate \/ fate' = Tag(cur[p], "lostReply"))
    BY <1>4 DEF Send, Taken, Refused, AnswerLost, TypeOK
  <2>2. QED
    BY <2>1, TagAdds DEF TypeOK, Fates
<1>5. ASSUME NEW i \in Items,
             \/ Create(i) \/ Reschedule(i) \/ \E c \in Channels : Move(i, c)
             \/ \E p \in Publishers : PublishNow(p, i)
      PROVE  UNCHANGED fate \/ \E f \in Fates : fate' = Tag(i, f)
  BY <1>5 DEF Create, Reschedule, Move, PublishNow, Fates
<1>6. ASSUME \/ UNCHANGED vars \/ SetKillSwitch \/ NewDay
             \/ \E i \in Items : Cancel(i) \/ FallsDue(i)
             \/ \E c \in Channels : SetPaused(c)
             \/ \E p \in Publishers : \/ \E i \in Items : ReadSettings(p, i)
                                      \/ CountPosts(p) \/ Block(p) \/ Mark(p)
                                      \/ RecordSuccess(p) \/ RecordFailure(p)
      PROVE  UNCHANGED fate
  BY <1>6 DEF vars, SetKillSwitch, NewDay, Cancel, FallsDue, SetPaused, ReadSettings,
              CountPosts, Block, Mark, RecordSuccess, RecordFailure
<1>7. QED
  BY <1>1, <1>2, <1>3, <1>4, <1>5, <1>6 DEF Next, PublisherStep

-----------------------------------------------------------------------------
(* The daily cap *)

\* Publishers that passed the gate for channel c and have not recorded the
\* outcome yet: each may still add one post to today's count.
PastGate(c) == {p \in Publishers :
                    /\ pc[p] \in {"mark", "send", "accepted"}
                    /\ route[p][cur[p]] = c}

\* CapOvershootBounded is not inductive, a publisher past the gate adds to the
\* count without looking at it again. Counting those publishers in makes it so.
CapInv ==
    \A c \in Channels \ Exempt :
        Cardinality(Counted(c)) + Cardinality(PastGate(c))
            < MaxPostsPerDay + Cardinality(Publishers)

\* An item nobody moved is where it was created, in every snapshot too.
RouteInv ==
    \A i \in Items : "moved" \notin fate[i] =>
        channel[i] = ChannelOf[i] /\ \A p \in Publishers : route[p][i] = ChannelOf[i]

\* RouteInv is inductive.
LEMMA RouteStep ==
    ASSUME TypeOK, RouteInv, [Next]_vars
    PROVE  RouteInv'
<1> SUFFICES ASSUME NEW i \in Items, "moved" \notin fate'[i]
             PROVE  channel'[i] = ChannelOf[i] /\ \A p \in Publishers : route'[p][i] = ChannelOf[i]
  BY DEF RouteInv
<1>0. channel[i] = ChannelOf[i] /\ \A p \in Publishers : route[p][i] = ChannelOf[i]
  BY FateKept DEF RouteInv
<1> USE DEF TypeOK, itemVars, railVars, pubVars
<1>1. channel'[i] = channel[i]
  <2>1. ASSUME NEW j \in Items, NEW c \in Channels, Move(j, c) PROVE channel'[i] = channel[i]
    <3>1. "moved" \in fate'[j] /\ channel' = [channel EXCEPT ![j] = c]
      BY <2>1 DEF Move, Tag
    <3>2. QED
      BY <3>1
  <2>2. QED
    BY <2>1 DEF Next, PublisherStep, vars, Create, Reschedule, Cancel, FallsDue, SetKillSwitch, NewDay,
       Crash, SetPaused, PublishNow, Tick, ReadSettings, CountPosts, Block, Mark, Send, Taken, Refused, AnswerLost,
       RecordSuccess, RecordFailure, DbError
<1>2. ASSUME NEW p \in Publishers, \/ Tick(p) \/ Continue(p) \/ \E j \in Items : PublishNow(p, j)
      PROVE  \A q \in Publishers : route'[q][i] = ChannelOf[i]
  <2>1. CASE Tick(p)
    BY <1>0, <2>1 DEF Tick
  <2>2. CASE Continue(p)
    BY <1>0, <2>2 DEF Continue
  <2>3. CASE \E j \in Items : PublishNow(p, j)
    BY <1>0, <2>3 DEF PublishNow
  <2>4. QED
    BY <1>2, <2>1, <2>2, <2>3
<1>3. ASSUME Crash PROVE \A q \in Publishers : route'[q][i] = ChannelOf[i]
  BY <1>3 DEF Crash
<1>4. ASSUME \/ UNCHANGED vars \/ SetKillSwitch \/ NewDay
             \/ \E j \in Items : \/ Create(j) \/ Reschedule(j) \/ Cancel(j) \/ FallsDue(j)
                                 \/ \E c \in Channels : Move(j, c)
             \/ \E c \in Channels : SetPaused(c)
             \/ \E p \in Publishers : \/ \E j \in Items : ReadSettings(p, j)
                                      \/ CountPosts(p) \/ Mark(p) \/ Send(p)
      PROVE  UNCHANGED route
  BY <1>4 DEF vars, SetKillSwitch, NewDay, Create, Reschedule, Cancel, FallsDue, Move, SetPaused,
              ReadSettings, CountPosts, Mark, Send, Taken, Refused, AnswerLost
<1>5. \/ UNCHANGED route \/ Crash
      \/ \E p \in Publishers : Tick(p) \/ Continue(p) \/ \E j \in Items : PublishNow(p, j)
  BY <1>4 DEF Next, PublisherStep, Block, RecordSuccess, RecordFailure, DbError
<1>6. QED
  BY <1>0, <1>1, <1>2, <1>3, <1>5

\* The counted sets are finite, so that their sizes are numbers.
LEMMA CountedSetsFinite ==
    ASSUME TypeOK, NEW c
    PROVE  /\ IsFiniteSet(Counted(c)) /\ Cardinality(Counted(c)) \in Nat
           /\ IsFiniteSet(PastGate(c)) /\ Cardinality(PastGate(c)) \in Nat
           /\ Cardinality(PastGate(c)) <= Cardinality(Publishers)
           /\ Cardinality(Publishers) \in Nat
           /\ Cardinality(PublishedToday(c)) \in Nat
           /\ Cardinality(Counted(c)) <= Cardinality(PublishedToday(c))
<1>1. PublishedToday(c) \in SUBSET Items /\ Counted(c) \in SUBSET PublishedToday(c)
  BY DEF TypeOK, PublishedToday, Counted
<1>2. PastGate(c) \in SUBSET Publishers
  BY DEF PastGate
<1>3. IsFiniteSet(PublishedToday(c)) /\ Cardinality(PublishedToday(c)) \in Nat
  BY <1>1, FS_Subset, FS_CardinalityType, PublishingAssumption
<1>4. QED
  BY <1>1, <1>2, <1>3, FS_Subset, FS_CardinalityType, PublishingAssumption

\* A step that adds to neither set keeps the bound.
LEMMA CapKeptByShrinking ==
    ASSUME TypeOK, CapInv, NEW c \in Channels \ Exempt,
           Counted(c)' \subseteq Counted(c),
           PastGate(c)' \subseteq PastGate(c)
    PROVE  Cardinality(Counted(c)') + Cardinality(PastGate(c)')
              < MaxPostsPerDay + Cardinality(Publishers)
<1> DEFINE P == Counted(c)
           G == PastGate(c)
<1>1. /\ Cardinality(P') \in Nat /\ Cardinality(P') <= Cardinality(P)
      /\ Cardinality(G') \in Nat /\ Cardinality(G') <= Cardinality(G)
  BY CountedSetsFinite, FS_Subset, FS_CardinalityType
<1>2. Cardinality(P) + Cardinality(G) < MaxPostsPerDay + Cardinality(Publishers)
  BY DEF CapInv
<1>3. QED
  BY <1>1, <1>2, CountedSetsFinite, PublishingAssumption

\* Only an item whose post is recorded in this step can come to be counted.
LEMMA CountedGrowth ==
    ASSUME TypeOK, RouteInv, RouteInv', [Next]_vars, NEW c, NEW i \in Counted(c)', i \notin Counted(c)
    PROVE  /\ i \in Items /\ ChannelOf[i] = c
           /\ \E p \in Publishers : RecordSuccess(p) /\ cur[p] = i /\ route[p][i] = c
<1> USE DEF TypeOK, itemVars, railVars, pubVars
<1>1. i \in today' /\ status'[i] = "PUBLISHED" /\ channel'[i] = c /\ "moved" \notin fate'[i]
  BY DEF Counted, PublishedToday
<1>2. ASSUME \A p \in Publishers : ~RecordSuccess(p)
      PROVE  i \in today /\ status[i] = "PUBLISHED"
  <2>1. today' \subseteq today
    BY <1>2 DEF Next, PublisherStep, vars, Create, Reschedule, Move, Cancel, FallsDue, SetKillSwitch, NewDay,
       Crash, SetPaused, PublishNow, Tick, ReadSettings, CountPosts, Block, Mark, Send, Taken, Refused, AnswerLost,
       RecordFailure, DbError
  <2>2. i \in Items
    BY <1>1, <2>1
  <2>3. ASSUME NEW j \in Items, Create(j) \/ Reschedule(j) \/ Cancel(j) PROVE status[i] = "PUBLISHED"
    BY <1>1, <2>2, <2>3 DEF Create, Reschedule, Cancel
  <2>4. ASSUME NEW p \in Publishers, Block(p) \/ Mark(p) \/ RecordFailure(p) PROVE status[i] = "PUBLISHED"
    BY <1>1, <2>2, <2>4 DEF Block, Mark, RecordFailure
  <2>5. ASSUME \/ UNCHANGED vars \/ SetKillSwitch \/ NewDay \/ Crash
               \/ \E j \in Items : FallsDue(j) \/ \E d \in Channels : Move(j, d)
               \/ \E d \in Channels : SetPaused(d)
               \/ \E p \in Publishers : \/ \E j \in Items : ReadSettings(p, j) \/ PublishNow(p, j)
                                        \/ Tick(p) \/ CountPosts(p) \/ Send(p) \/ DbError(p)
        PROVE  UNCHANGED status
    BY <2>5 DEF vars, SetKillSwitch, NewDay, Crash, FallsDue, Move, SetPaused, ReadSettings,
                PublishNow, Tick, CountPosts, Send, Taken, Refused, AnswerLost, DbError
  <2>6. QED
    BY <1>1, <1>2, <2>1, <2>3, <2>4, <2>5 DEF Next, PublisherStep
<1>3. ASSUME NEW p \in Publishers, RecordSuccess(p), i # cur[p]
      PROVE  i \in today /\ status[i] = "PUBLISHED"
  BY <1>1, <1>3 DEF RecordSuccess
<1>4. i \in Items
  <2>1. \A p \in Publishers : RecordSuccess(p) => cur[p] \in Items
    BY DEF RecordSuccess
  <2>2. QED
    BY <1>2, <1>3, <2>1
<1>5. "moved" \notin fate[i] /\ channel[i] = ChannelOf[i] /\ channel'[i] = ChannelOf[i]
  BY <1>1, <1>4, FateKept DEF RouteInv
<1>6. ~(i \in today /\ status[i] = "PUBLISHED")
  BY <1>1, <1>4, <1>5 DEF Counted, PublishedToday
<1>7. PICK p \in Publishers : RecordSuccess(p) /\ cur[p] = i
  BY <1>2, <1>3, <1>6
<1>8. QED
  BY <1>1, <1>4, <1>5, <1>7 DEF RouteInv

\* CapInv is inductive relative to TypeOK and RouteInv.
LEMMA CapStep ==
    ASSUME TypeOK, TypeOK', RouteInv, RouteInv', CapInv, [Next]_vars
    PROVE  CapInv'
<1> USE PublishingAssumption
<1> SUFFICES ASSUME NEW c \in Channels \ Exempt
             PROVE  Cardinality(Counted(c)') + Cardinality(PastGate(c)')
                       < MaxPostsPerDay + Cardinality(Publishers)
  BY DEF CapInv
<1>1. ASSUME NEW p \in Publishers, CountPosts(p), p \in PastGate(c)', p \notin PastGate(c)
      PROVE  Cardinality(Counted(c)') + Cardinality(PastGate(c)')
                < MaxPostsPerDay + Cardinality(Publishers)
  <2>1. Counted(c)' = Counted(c)
    BY <1>1 DEF CountPosts, Counted, PublishedToday, itemVars
  <2>2. route[p][cur[p]] = c /\ ~CapReached(c)
    <3>1. pc'[p] = "mark" /\ route[p][cur[p]] = c
      BY <1>1 DEF CountPosts, PastGate, TypeOK
    <3>2. QED
      BY <1>1, <3>1 DEF CountPosts, TypeOK
  <2>3. Cardinality(Counted(c)) < MaxPostsPerDay
    BY <2>2, CountedSetsFinite DEF CapReached
  <2>4. /\ Cardinality(PastGate(c)') \in Nat
        /\ Cardinality(PastGate(c)') <= Cardinality(Publishers)
    <3>1. PastGate(c)' \in SUBSET Publishers
      BY DEF PastGate
    <3>2. QED
      BY <3>1, FS_Subset, FS_CardinalityType
  <2>5. QED
    BY <2>1, <2>3, <2>4, CountedSetsFinite
<1>2. ASSUME NEW p \in Publishers, NEW i \in Items, i = cur[p], RecordSuccess(p), route[p][i] = c
      PROVE  Cardinality(Counted(c)') + Cardinality(PastGate(c)')
                < MaxPostsPerDay + Cardinality(Publishers)
  <2>1. /\ Counted(c)' \subseteq Counted(c) \cup {i}
        /\ PastGate(c)' \subseteq PastGate(c) \ {p}
        /\ p \in PastGate(c)
    <3>1. \A q \in Publishers : RecordSuccess(q) => q = p
      <4>1. \A q \in Publishers : RecordSuccess(q) => pc[q] = "accepted" /\ pc'[q] # "accepted"
        BY DEF RecordSuccess, Continue, TypeOK
      <4>2. \A q \in Publishers \ {p} : pc'[q] = pc[q]
        BY <1>2 DEF RecordSuccess, Continue, TypeOK
      <4>3. QED
        BY <4>1, <4>2
    <3>2. Counted(c)' \subseteq Counted(c) \cup {i}
      BY <1>2, <3>1, CountedGrowth
    <3>3. PastGate(c)' \subseteq PastGate(c) \ {p}
      BY <1>2 DEF RecordSuccess, Continue, PastGate, TypeOK
    <3>4. p \in PastGate(c)
      BY <1>2 DEF RecordSuccess, PastGate
    <3>5. QED
      BY <3>2, <3>3, <3>4
  <2>2. /\ IsFiniteSet(Counted(c) \cup {i})
        /\ Cardinality(Counted(c) \cup {i}) \in Nat
        /\ Cardinality(Counted(c) \cup {i}) <= Cardinality(Counted(c)) + 1
    <3>1. IsFiniteSet(Counted(c)) /\ Cardinality(Counted(c)) \in Nat
      BY CountedSetsFinite
    <3>2. /\ IsFiniteSet(Counted(c) \cup {i})
          /\ \/ Cardinality(Counted(c) \cup {i}) = Cardinality(Counted(c))
             \/ Cardinality(Counted(c) \cup {i}) = Cardinality(Counted(c)) + 1
      BY <3>1, FS_AddElement, Zenon
    <3>3. QED
      BY <3>1, <3>2
  <2>3. /\ IsFiniteSet(PastGate(c) \ {p})
        /\ Cardinality(PastGate(c) \ {p}) = Cardinality(PastGate(c)) - 1
    BY <2>1, CountedSetsFinite, FS_RemoveElement
  <2>4. /\ Cardinality(Counted(c)') \in Nat
        /\ Cardinality(Counted(c)') <= Cardinality(Counted(c) \cup {i})
    BY <2>1, <2>2, FS_Subset, FS_CardinalityType
  <2>5. /\ Cardinality(PastGate(c)') \in Nat
        /\ Cardinality(PastGate(c)') <= Cardinality(PastGate(c) \ {p})
    BY <2>1, <2>3, FS_Subset, FS_CardinalityType
  <2>6. Cardinality(Counted(c)) + Cardinality(PastGate(c)) < MaxPostsPerDay + Cardinality(Publishers)
    BY DEF CapInv
  <2>7. QED
    BY <2>2, <2>3, <2>4, <2>5, <2>6, CountedSetsFinite
<1>3. ASSUME NEW p \in Publishers, p \in PastGate(c)', p \notin PastGate(c)
      PROVE  CountPosts(p)
  <2> USE DEF TypeOK, PastGate, pubVars
  <2>1. pc'[p] # pc[p] \/ cur'[p] # cur[p] \/ route'[p] # route[p]
    BY <1>3
  <2>2. ASSUME UNCHANGED pubVars PROVE FALSE
    BY <2>1, <2>2
  <2>3. ASSUME Crash PROVE FALSE
    BY <1>3, <2>3 DEF Crash
  <2>4. ASSUME NEW q \in Publishers,
               \/ Tick(q) \/ Continue(q)
               \/ \E i \in Items : PublishNow(q, i) \/ ReadSettings(q, i)
        PROVE  FALSE
    <3>1. pc'[q] \in {"idle", "loop", "count", "block"}
          /\ \A r \in Publishers \ {q} : pc'[r] = pc[r] /\ cur'[r] = cur[r] /\ route'[r] = route[r]
      BY <2>4 DEF Tick, Continue, PublishNow, ReadSettings
    <3>2. QED
      BY <1>3, <2>1, <3>1
  <2>5. ASSUME NEW q \in Publishers, Mark(q) \/ Send(q) PROVE FALSE
    <3>1. /\ UNCHANGED <<cur, route>> /\ pc[q] \in {"mark", "send"}
          /\ \A r \in Publishers \ {q} : pc'[r] = pc[r]
      BY <2>5 DEF Mark, Send, Taken, Refused, AnswerLost
    <3>2. QED
      BY <1>3, <3>1
  <2>6. ASSUME NEW q \in Publishers, CountPosts(q) PROVE CountPosts(p)
    <3>1. UNCHANGED <<cur, route>> /\ \A r \in Publishers \ {q} : pc'[r] = pc[r]
      BY <2>6 DEF CountPosts
    <3>2. p = q
      BY <2>1, <3>1
    <3>3. QED
      BY <2>6, <3>2
  <2>7. QED
    BY <2>2, <2>3, <2>4, <2>5, <2>6 DEF Next, PublisherStep, vars, Create, Reschedule, Move, Cancel,
       FallsDue, SetKillSwitch, NewDay, SetPaused, Block, RecordSuccess, RecordFailure, DbError
<1>4. CASE ~(Counted(c)' \subseteq Counted(c))
  <2>1. PICK i \in Counted(c)' : i \notin Counted(c)
    BY <1>4
  <2>2. QED
    BY <2>1, <1>2, CountedGrowth
<1>5. CASE ~(PastGate(c)' \subseteq PastGate(c))
  <2>1. PICK p \in PastGate(c)' : p \notin PastGate(c)
    BY <1>5
  <2>2. p \in Publishers
    BY <2>1 DEF PastGate
  <2>3. QED
    BY <2>1, <2>2, <1>1, <1>3
<1>6. QED
  BY <1>4, <1>5, CapKeptByShrinking

\* The daily cap is missed by less than the number of publishers in flight,
\* for any number of items, channels and publishers.
THEOREM CapOvershoot == Spec => []CapOvershootBounded
<1>1. Init => RouteInv
  BY DEF Init, RouteInv
<1>2. Init => CapInv
  <2> SUFFICES ASSUME Init, NEW c \in Channels
               PROVE  Cardinality(Counted(c)) + Cardinality(PastGate(c))
                         < MaxPostsPerDay + Cardinality(Publishers)
    BY DEF CapInv
  <2>1. Counted(c) = {} /\ PastGate(c) = {}
    BY DEF Init, Counted, PublishedToday, PastGate
  <2>2. Cardinality(Publishers) \in Nat /\ Cardinality(Publishers) # 0
    BY PublishingAssumption, FS_CardinalityType, FS_EmptySet
  <2>3. QED
    BY <2>1, <2>2, FS_EmptySet, PublishingAssumption
<1>3. TypeOK /\ CapInv => CapOvershootBounded
  BY CountedSetsFinite, PublishingAssumption DEF CapInv, CapOvershootBounded
<1>4. QED
  BY <1>1, <1>2, <1>3, RouteStep, CapStep, TypeCorrect, PTL DEF Spec

-----------------------------------------------------------------------------
(* Reports are backed by posts *)

\* PublishedWasPosted rests on what a publisher knows while it holds an
\* accepted answer.
PostedInv ==
    /\ PublishedWasPosted
    /\ \A p \in Publishers : pc[p] = "accepted" => posted[cur[p]] > 0

\* PostedInv is inductive.
LEMMA PostedStep ==
    ASSUME TypeOK, PostedInv, [Next]_vars
    PROVE  PostedInv'
<1> USE PublishingAssumption DEF TypeOK, PostedInv, PublishedWasPosted, itemVars, railVars, pubVars
<1>1. ASSUME \/ \E i \in Items : Create(i) \/ Reschedule(i) \/ Cancel(i) \/ FallsDue(i) \/ \E d \in Channels : Move(i, d)
             \/ SetKillSwitch \/ NewDay
             \/ \E c \in Channels : SetPaused(c)
             \/ UNCHANGED vars
      PROVE  PostedInv'
  BY <1>1 DEF Create, Reschedule, Move, Cancel, FallsDue, SetKillSwitch, NewDay, SetPaused, vars
<1>2. ASSUME Crash PROVE PostedInv'
  BY <1>2 DEF Crash
<1>3. ASSUME NEW p \in Publishers, NEW i \in Items, PublishNow(p, i) \/ ReadSettings(p, i)
      PROVE  PostedInv'
  BY <1>3 DEF PublishNow, ReadSettings
<1>4. ASSUME NEW p \in Publishers, Tick(p) \/ CountPosts(p) PROVE PostedInv'
  BY <1>4 DEF Tick, CountPosts
<1>5. ASSUME NEW p \in Publishers, Mark(p) PROVE PostedInv'
  BY <1>5 DEF Mark
<1>6. ASSUME NEW p \in Publishers, Send(p) PROVE PostedInv'
  <2>1. cur[p] \in Items
    BY <1>6 DEF Send, Taken, Refused, AnswerLost
  <2>2. Post(p) \/ UNCHANGED posted
    BY <1>6 DEF Send, Taken, Refused, AnswerLost
  <2>3. pc'[p] = "accepted" => posted'[cur[p]] > 0
    <3>1. Post(p) => posted'[cur[p]] > 0
      BY <2>1, PostAdds
    <3>2. QED
      BY <1>6, <3>1 DEF Send, Taken, Refused, AnswerLost
  <2>4. UNCHANGED <<status, cur>> /\ \A q \in Publishers \ {p} : pc'[q] = pc[q]
    BY <1>6 DEF Send, Taken, Refused, AnswerLost
  <2>5. \A i \in Items : posted[i] > 0 => posted'[i] > 0
    <3>1. CASE Post(p)
      BY <2>1, <3>1, PostAdds
    <3>2. QED
      BY <2>2, <3>1
  <2>6. PublishedWasPosted'
    BY <2>4, <2>5
  <2>7. ASSUME NEW q \in Publishers, pc'[q] = "accepted" PROVE posted'[cur'[q]] > 0
    <3>1. CASE q = p
      BY <2>3, <2>4, <2>7, <3>1
    <3>2. CASE q # p
      <4>1. pc[q] = "accepted" /\ cur'[q] = cur[q]
        BY <2>4, <2>7, <3>2
      <4>2. cur[q] \in Items /\ posted[cur[q]] > 0
        BY <4>1
      <4>3. QED
        BY <2>5, <4>1, <4>2
    <3>3. QED
      BY <3>1, <3>2
  <2>8. QED
    BY <2>6, <2>7
<1>7. ASSUME NEW p \in Publishers,
             Block(p) \/ RecordSuccess(p) \/ RecordFailure(p) \/ DbError(p)
      PROVE  PostedInv'
  <2>1. Continue(p) /\ UNCHANGED posted
    BY <1>7 DEF Block, RecordSuccess, RecordFailure, DbError
  <2>2. \A i \in Items : status'[i] = "PUBLISHED" =>
            status[i] = "PUBLISHED" \/ (pc[p] = "accepted" /\ i = cur[p])
    BY <1>7 DEF Block, RecordSuccess, RecordFailure, DbError
  <2>3. PublishedWasPosted'
    BY <2>1, <2>2
  <2>4. \A q \in Publishers : pc'[q] = "accepted" => pc[q] = "accepted" /\ cur'[q] = cur[q]
    BY <2>1 DEF Continue
  <2>5. QED
    BY <2>1, <2>3, <2>4
<1>8. QED
  BY <1>1, <1>2, <1>3, <1>4, <1>5, <1>6, <1>7 DEF Next, PublisherStep

\* An item reported as published has been posted, for any number of items
\* and publishers and whatever faults happen.
THEOREM PublishedPosted == Spec => []PublishedWasPosted
<1>1. Init => PostedInv
  BY DEF Init, PostedInv, PublishedWasPosted
<1>3. PostedInv => PublishedWasPosted
  BY DEF PostedInv
<1>4. QED
  BY <1>1, <1>3, PostedStep, TypeCorrect, PTL DEF Spec

-----------------------------------------------------------------------------
(* The kill-switch *)

\* While the switch is set, a publisher that is past the settings read and has
\* not posted yet must have read the settings before.
HaltInv ==
    /\ ~killSwitch => \A p \in Publishers : late[p] = 0
    /\ killSwitch => \A p \in Publishers :
          /\ late[p] <= 1
          /\ pc[p] \in {"count", "mark", "send"} => late[p] = 0

\* Each execution posts at most one item after the kill-switch is set.
THEOREM HaltHolds == Spec => []HaltWithinOnePost
<1>1. Init => HaltInv
  BY DEF Init, HaltInv
<1>2. TypeOK /\ HaltInv /\ [Next]_vars => HaltInv'
  <2> SUFFICES ASSUME TypeOK, HaltInv, [Next]_vars PROVE HaltInv'
    OBVIOUS
  <2> USE PublishingAssumption DEF TypeOK, HaltInv, itemVars, railVars, pubVars
  <2>1. ASSUME \/ \E i \in Items : Create(i) \/ Reschedule(i) \/ Cancel(i) \/ FallsDue(i) \/ \E d \in Channels : Move(i, d)
               \/ SetKillSwitch \/ NewDay
               \/ \E c \in Channels : SetPaused(c)
               \/ UNCHANGED vars
        PROVE  HaltInv'
    BY <2>1 DEF Create, Reschedule, Move, Cancel, FallsDue, SetKillSwitch, NewDay, SetPaused, vars
  <2>2. ASSUME Crash PROVE HaltInv'
    BY <2>2 DEF Crash
  <2>3. ASSUME NEW p \in Publishers, NEW i \in Items, PublishNow(p, i) \/ ReadSettings(p, i)
        PROVE  HaltInv'
    BY <2>3 DEF PublishNow, ReadSettings, Halted
  <2>4. ASSUME NEW p \in Publishers, Tick(p) \/ CountPosts(p) \/ Mark(p) PROVE HaltInv'
    BY <2>4 DEF Tick, CountPosts, Mark
  <2>5. ASSUME NEW p \in Publishers, Send(p) PROVE HaltInv'
    <3>1. CASE Post(p) /\ killSwitch
      <4>1. late'[p] = 1 /\ \A q \in Publishers \ {p} : late'[q] = late[q]
        BY <2>5, <3>1 DEF Send, Taken, Refused, AnswerLost, Post, Saturated
      <4>2. /\ UNCHANGED killSwitch
            /\ pc'[p] \in {"accepted", "rejected"}
            /\ \A q \in Publishers \ {p} : pc'[q] = pc[q]
        BY <2>5 DEF Send, Taken, Refused, AnswerLost
      <4>3. QED
        BY <3>1, <4>1, <4>2
    <3>2. CASE UNCHANGED late
      BY <2>5, <3>2 DEF Send, Taken, Refused, AnswerLost
    <3>3. QED
      BY <2>5, <3>1, <3>2 DEF Send, Taken, Refused, AnswerLost, Post
  <2>6. ASSUME NEW p \in Publishers,
               Block(p) \/ RecordSuccess(p) \/ RecordFailure(p) \/ DbError(p)
        PROVE  HaltInv'
    <3>1. Continue(p) /\ UNCHANGED <<late, killSwitch>>
      BY <2>6 DEF Block, RecordSuccess, RecordFailure, DbError
    <3>2. QED
      BY <3>1 DEF Continue
  <2>7. QED
    BY <2>1, <2>2, <2>3, <2>4, <2>5, <2>6 DEF Next, PublisherStep
<1>3. HaltInv => HaltWithinOnePost
  BY DEF HaltInv, HaltWithinOnePost
<1>4. QED
  BY <1>1, <1>2, <1>3, TypeCorrect, PTL DEF Spec

-----------------------------------------------------------------------------
(* Ownership of rows in PUBLISHING *)

Owners(i) == {p \in Publishers : cur[p] = i /\ pc[p] \in {"send", "accepted", "rejected"}}

\* Only the death of its publisher leaves a row in PUBLISHING.
THEOREM PublishingOwned == Spec => []PublishingHasOwner
<1>1. Init => PublishingHasOwner
  BY DEF Init, PublishingHasOwner
<1>2. TypeOK /\ PublishingHasOwner /\ [Next]_vars => PublishingHasOwner'
  <2> SUFFICES ASSUME TypeOK, PublishingHasOwner, [Next]_vars, NEW i \in Items,
                      status'[i] = "PUBLISHING"
               PROVE  Owners(i)' # {} \/ "died" \in fate'[i]
    BY DEF PublishingHasOwner, Owners
  <2> USE PublishingAssumption DEF TypeOK, PublishingHasOwner, Owners, itemVars, railVars, pubVars
  <2> DEFINE Kept == /\ status[i] = "PUBLISHING"
                     /\ Owners(i) \subseteq Owners(i)'
                     /\ fate[i] \subseteq fate'[i]
  <2>0. /\ Kept => Owners(i)' # {} \/ "died" \in fate'[i]
        /\ fate[i] \subseteq fate'[i]
    BY FateKept
  <2>1. ASSUME \/ \E j \in Items : Create(j) \/ Reschedule(j) \/ Cancel(j) \/ FallsDue(j) \/ \E d \in Channels : Move(j, d)
               \/ SetKillSwitch \/ NewDay
               \/ \E c \in Channels : SetPaused(c)
               \/ UNCHANGED vars
        PROVE  Kept
    BY <2>0, <2>1 DEF Create, Reschedule, Move, Cancel, FallsDue, SetKillSwitch, NewDay, SetPaused, vars
  <2>2. ASSUME Crash PROVE "died" \in fate'[i]
    BY <2>2 DEF Crash, Died
  <2>3. ASSUME NEW p \in Publishers, NEW j \in Items, PublishNow(p, j) \/ ReadSettings(p, j)
        PROVE  Kept
    BY <2>0, <2>3 DEF PublishNow, ReadSettings
  <2>4. ASSUME NEW p \in Publishers, Tick(p) \/ CountPosts(p)
        PROVE  Kept
    <3>1. CASE CountPosts(p)
      BY <3>1 DEF CountPosts
    <3>2. CASE Tick(p)
      <4>1. UNCHANGED <<status, cur>> /\ pc[p] = "idle" /\ pc' = [pc EXCEPT ![p] = "loop"]
        BY <3>2 DEF Tick
      <4>2. fate[i] \subseteq fate'[i]
        BY <3>2 DEF Tick
      <4>3. QED
        BY <4>1, <4>2
    <3>3. QED
      BY <2>4, <3>1, <3>2
  <2>5. ASSUME NEW p \in Publishers, Mark(p)
        PROVE  Kept \/ p \in Owners(i)'
    BY <2>5 DEF Mark
  <2>6. ASSUME NEW p \in Publishers, Send(p) PROVE Kept
    BY <2>6 DEF Send, Taken, Refused, AnswerLost, Tag
  <2>7. ASSUME NEW p \in Publishers, Block(p) \/ RecordSuccess(p) \/ RecordFailure(p)
        PROVE  Kept
    <3>1. Continue(p) /\ UNCHANGED fate /\ cur[p] \in Items /\ cur[p] # i
      BY <2>7 DEF Block, RecordSuccess, RecordFailure
    <3>2. status'[i] = status[i]
      BY <2>7, <3>1 DEF Block, RecordSuccess, RecordFailure
    <3>3. Owners(i) \subseteq Owners(i)'
      BY <3>1 DEF Continue
    <3>4. QED
      BY <3>1, <3>2, <3>3
  <2>8. ASSUME NEW p \in Publishers, DbError(p)
        PROVE  Kept \/ "died" \in fate'[i]
    <3>1. Continue(p) /\ status'[i] = status[i] /\ fate' = Died({p})
      BY <2>8 DEF DbError
    <3>2. CASE p \in Owners(i)
      BY <3>1, <3>2 DEF Died
    <3>3. CASE p \notin Owners(i)
      <4>1. Owners(i) \subseteq Owners(i)'
        BY <3>1, <3>3 DEF Continue
      <4>2. fate[i] \subseteq fate'[i]
        BY <3>1 DEF Died
      <4>3. QED
        BY <3>1, <4>1, <4>2
    <3>4. QED
      BY <3>2, <3>3
  <2>9. QED
    BY <2>0, <2>1, <2>2, <2>3, <2>4, <2>5, <2>6, <2>7, <2>8 DEF Next, PublisherStep
<1>3. QED
  BY <1>1, <1>2, TypeCorrect, PTL DEF Spec

-----------------------------------------------------------------------------
(* The scheduler implements the outbox *)

Released == {i \in Items : fate[i] \cap {"scheduled", "human"} # {}}

\* Whatever a publisher has in hand, or a tick may pick up, somebody released.
ReleasedInv ==
    /\ \A i \in Items : status[i] = "SCHEDULED" => i \in Released
    /\ \A p \in Publishers : InHand(p) \subseteq Released

\* Scheduling an item or asking for it releases it, and nothing else.
LEMMA TagReleases ==
    ASSUME TypeOK, NEW i \in Items, NEW f \in {"scheduled", "human"}, fate' = Tag(i, f)
    PROVE  Released' = Released \cup {i}
<1>1. /\ f \in fate'[i]
      /\ \A j \in Items \ {i} : fate'[j] = fate[j]
  BY DEF TypeOK, Tag
<1>2. QED
  BY <1>1 DEF Released

\* Nothing is taken back, and only people release.
LEMMA OnlyPeopleRelease ==
    ASSUME TypeOK, [Next]_vars
    PROVE  /\ Released \subseteq Released'
           /\ \/ Released' = Released
              \/ \E i \in Items, p \in Publishers :
                    Create(i) \/ Reschedule(i) \/ PublishNow(p, i)
<1> USE DEF TypeOK, Released
<1>1. ASSUME NEW i \in Items, Create(i) \/ Reschedule(i) \/ \E p \in Publishers : PublishNow(p, i)
      PROVE  Released \subseteq Released'
  BY <1>1, ZenonT(30) DEF Create, Reschedule, PublishNow, Tag
<1>2. ASSUME NEW p \in Publishers, Tick(p) PROVE Released' = Released
  BY <1>2, ZenonT(30) DEF Tick
<1>3. ASSUME NEW p \in Publishers, Send(p) PROVE Released' = Released
  <2>1. CASE UNCHANGED fate
    BY <2>1
  <2>2. CASE fate' = Tag(cur[p], "lostReply")
    BY <2>2 DEF Tag
  <2>3. QED
    BY <1>3, <2>1, <2>2 DEF Send, Taken, Refused, AnswerLost
<1>4. ASSUME Crash \/ \E p \in Publishers : DbError(p) PROVE Released' = Released
  <2>1. PICK ps : fate' = Died(ps)
    BY <1>4 DEF Crash, DbError
  <2>2. \A i \in Items : fate'[i] = fate[i] \/ fate'[i] = fate[i] \cup {"died"}
    BY <2>1 DEF Died
  <2>3. QED
    BY <2>2
<1>5. ASSUME \/ UNCHANGED vars \/ SetKillSwitch \/ NewDay
             \/ \E i \in Items : Cancel(i) \/ FallsDue(i)
             \/ \E c \in Channels : SetPaused(c)
             \/ \E p \in Publishers : \/ \E i \in Items : ReadSettings(p, i)
                                      \/ CountPosts(p) \/ Block(p) \/ Mark(p)
                                      \/ RecordSuccess(p) \/ RecordFailure(p)
      PROVE  UNCHANGED fate
  BY <1>5 DEF vars, SetKillSwitch, NewDay, Cancel, FallsDue, SetPaused, ReadSettings,
              CountPosts, Block, Mark, RecordSuccess, RecordFailure
<1>6. ASSUME NEW i \in Items, NEW c \in Channels, Move(i, c) PROVE Released' = Released
  BY <1>6 DEF Move, Tag
<1>7. QED
  BY <1>1, <1>2, <1>3, <1>4, <1>5, <1>6, PublishingAssumption DEF Next, PublisherStep

\* ReleasedInv is inductive.
LEMMA ReleasedStep ==
    ASSUME TypeOK, TypeOK', ReleasedInv, [Next]_vars
    PROVE  ReleasedInv'
<1> USE DEF TypeOK, ReleasedInv, InHand, itemVars, railVars, pubVars
<1>0. Released \subseteq Released'
  BY OnlyPeopleRelease
<1>1. ASSUME NEW i \in Items, Create(i) \/ Reschedule(i) PROVE ReleasedInv'
  <2>1. UNCHANGED pubVars /\ \A j \in Items \ {i} : status'[j] = status[j]
    BY <1>1 DEF Create, Reschedule
  <2>2. status'[i] = "SCHEDULED" => i \in Released'
    <3>1. status'[i] = "SCHEDULED" => fate' = Tag(i, "scheduled") \/ fate' = Tag(i, "human")
      BY <1>1 DEF Create, Reschedule
    <3>2. QED
      BY <3>1, TagReleases
  <2>3. QED
    BY <1>0, <2>1, <2>2
<1>2. ASSUME NEW p \in Publishers, NEW i \in Items, PublishNow(p, i) PROVE ReleasedInv'
  <2>1. i \in Released'
    BY <1>2, TagReleases DEF PublishNow
  <2>2. QED
    BY <1>0, <1>2, <2>1 DEF PublishNow
<1>3. ASSUME NEW p \in Publishers, Tick(p) PROVE ReleasedInv'
  <2>1. UNCHANGED <<status, cur>> /\ todo'[p] \subseteq DueItems
    BY <1>3 DEF Tick
  <2>2. \A q \in Publishers \ {p} : todo'[q] = todo[q]
    BY <1>3 DEF Tick
  <2>3. QED
    BY <1>0, <2>1, <2>2 DEF DueItems
<1>4. ASSUME NEW p \in Publishers, NEW i \in Items, ReadSettings(p, i) PROVE ReleasedInv'
  BY <1>0, <1>4 DEF ReadSettings
<1>5. ASSUME NEW p \in Publishers, CountPosts(p) \/ Mark(p) \/ Send(p) PROVE ReleasedInv'
  <2>1. UNCHANGED <<cur, todo>> /\ \A i \in Items : status'[i] # status[i] => status'[i] = "PUBLISHING"
    BY <1>5 DEF CountPosts, Mark, Send, Taken, Refused, AnswerLost
  <2>2. QED
    BY <1>0, <2>1
<1>6. ASSUME NEW p \in Publishers,
             Block(p) \/ RecordSuccess(p) \/ RecordFailure(p) \/ DbError(p)
      PROVE  ReleasedInv'
  <2>1. Continue(p)
    BY <1>6 DEF Block, RecordSuccess, RecordFailure, DbError
  <2>2. \A i \in Items : status'[i] = "SCHEDULED" => status[i] = "SCHEDULED" \/ i = cur[p]
    BY <1>6 DEF Block, RecordSuccess, RecordFailure, DbError
  <2>3. \A q \in Publishers : InHand(q)' \subseteq InHand(q)
    BY <2>1, PublishingAssumption DEF Continue
  <2>4. QED
    BY <1>0, <2>2, <2>3
<1>7. ASSUME Crash PROVE ReleasedInv'
  BY <1>0, <1>7, PublishingAssumption DEF Crash
<1>8. ASSUME \/ UNCHANGED vars \/ SetKillSwitch \/ NewDay
             \/ \E i \in Items : Cancel(i) \/ FallsDue(i) \/ \E d \in Channels : Move(i, d)
             \/ \E c \in Channels : SetPaused(c)
      PROVE  ReleasedInv'
  BY <1>0, <1>8 DEF vars, SetKillSwitch, NewDay, Cancel, Move, FallsDue, SetPaused
<1>9. QED
  BY <1>1, <1>2, <1>3, <1>4, <1>5, <1>6, <1>7, <1>8 DEF Next, PublisherStep

\* Every step is a step of the outbox, or none of its business.
LEMMA OutboxStep ==
    ASSUME TypeOK, TypeOK', PostedInv, ReleasedInv, [Next]_vars
    PROVE  [PromisedOutbox!Next]_(PromisedOutbox!vars)
<1> DEFINE Reported == {i \in Items : status[i] = "PUBLISHED"}
<1> USE DEF TypeOK, itemVars, railVars, pubVars
<1> SUFFICES \/ UNCHANGED <<Released, posted, Reported>>
             \/ \E i \in Items : \/ PromisedOutbox!Release(i) \/ PromisedOutbox!Transmit(i)
                                 \/ PromisedOutbox!Report(i) \/ PromisedOutbox!Retract(i)
  BY DEF PromisedOutbox!Next, PromisedOutbox!vars, Released
<1>1. ASSUME NEW i \in Items, Create(i)
      PROVE  UNCHANGED <<Released, posted, Reported>> \/ PromisedOutbox!Release(i)
  <2>1. UNCHANGED <<posted, Reported>>
    BY <1>1 DEF Create
  <2>2. UNCHANGED fate \/ fate' = Tag(i, "scheduled")
    BY <1>1 DEF Create
  <2>3. UNCHANGED Released \/ Released' = Released \cup {i}
    BY <2>2, TagReleases DEF Released
  <2>4. QED
    BY <2>1, <2>3 DEF PromisedOutbox!Release, Released
<1>2. ASSUME NEW i \in Items, Reschedule(i) PROVE PromisedOutbox!Release(i)
  <2>1. UNCHANGED posted /\ Reported' = Reported \ {i}
    BY <1>2 DEF Reschedule
  <2>2. Released' = Released \cup {i}
    BY <1>2, TagReleases DEF Reschedule
  <2>3. QED
    BY <2>1, <2>2 DEF PromisedOutbox!Release, Released
<1>3. ASSUME NEW p \in Publishers, NEW i \in Items, PublishNow(p, i)
      PROVE  PromisedOutbox!Release(i)
  <2>1. UNCHANGED <<posted, Reported>>
    BY <1>3 DEF PublishNow
  <2>2. Released' = Released \cup {i}
    BY <1>3, TagReleases DEF PublishNow
  <2>3. QED
    BY <2>1, <2>2 DEF PromisedOutbox!Release, Released
<1>4. ASSUME \A i \in Items, p \in Publishers : ~(Create(i) \/ Reschedule(i) \/ PublishNow(p, i))
      PROVE  Released' = Released
  BY <1>4, OnlyPeopleRelease
<1>5. ASSUME NEW i \in Items, Cancel(i) PROVE PromisedOutbox!Retract(i)
  BY <1>5 DEF Cancel, PromisedOutbox!Retract
<1>6. ASSUME NEW p \in Publishers, NEW i \in Items, i = cur[p], Block(p) \/ Mark(p) \/ RecordFailure(p)
      PROVE  PromisedOutbox!Retract(i)
  <2>1. /\ UNCHANGED <<fate, posted>>
        /\ status'[i] # "PUBLISHED"
        /\ \A j \in Items \ {i} : status'[j] = status[j]
    BY <1>6 DEF Block, Mark, RecordFailure
  <2>2. QED
    BY <2>1 DEF PromisedOutbox!Retract
<1>7. ASSUME NEW p \in Publishers, NEW i \in Items, i = cur[p], RecordSuccess(p) PROVE PromisedOutbox!Report(i)
  <2>1. posted[i] > 0
    BY <1>7 DEF RecordSuccess, PostedInv
  <2>2. /\ UNCHANGED <<fate, posted>>
        /\ status' = [status EXCEPT ![i] = "PUBLISHED"]
    BY <1>7 DEF RecordSuccess
  <2>3. QED
    BY <2>1, <2>2 DEF PromisedOutbox!Report
<1>8. ASSUME NEW p \in Publishers, NEW i \in Items, i = cur[p], Send(p), Released' = Released
      PROVE  UNCHANGED <<Released, posted, Reported>> \/ PromisedOutbox!Transmit(i)
  <2>1. i \in Released
    BY <1>8 DEF Send, Taken, Refused, AnswerLost, ReleasedInv, InHand
  <2>2. UNCHANGED posted \/ posted' = [posted EXCEPT ![i] = IF @ = 0 THEN 1 ELSE 2]
    BY <1>8, <2>1 DEF Send, Taken, Refused, AnswerLost, Post, Saturated
  <2>3. UNCHANGED Reported
    BY <1>8 DEF Send, Taken, Refused, AnswerLost
  <2>4. QED
    BY <1>8, <2>1, <2>2, <2>3 DEF PromisedOutbox!Transmit, Released
<1>9. ASSUME \/ UNCHANGED vars \/ SetKillSwitch \/ NewDay \/ Crash
             \/ \E i \in Items : FallsDue(i) \/ \E d \in Channels : Move(i, d)
             \/ \E c \in Channels : SetPaused(c)
             \/ \E p \in Publishers : \/ Tick(p) \/ CountPosts(p) \/ DbError(p)
                                      \/ \E i \in Items : ReadSettings(p, i)
      PROVE  UNCHANGED <<posted, status>>
  BY <1>9 DEF vars, SetKillSwitch, NewDay, Crash, FallsDue, Move, SetPaused, Tick, CountPosts,
              DbError, ReadSettings
<1>10. CASE \E i \in Items, p \in Publishers : Create(i) \/ Reschedule(i) \/ PublishNow(p, i)
  BY <1>1, <1>2, <1>3, <1>10
<1> DEFINE Goal == \/ UNCHANGED <<Released, posted, Reported>>
                   \/ \E i \in Items : \/ PromisedOutbox!Release(i) \/ PromisedOutbox!Transmit(i)
                                       \/ PromisedOutbox!Report(i) \/ PromisedOutbox!Retract(i)
<1>11. ASSUME \A i \in Items, p \in Publishers : ~(Create(i) \/ Reschedule(i) \/ PublishNow(p, i))
       PROVE  Goal
  <2>1. Released' = Released
    BY <1>4, <1>11
  <2>2. ASSUME UNCHANGED <<posted, status>> PROVE Goal
    BY <2>1, <2>2
  <2>3. ASSUME \E i \in Items : Cancel(i) PROVE Goal
    BY <2>3, <1>5
  <2>4. ASSUME NEW p \in Publishers, Block(p) \/ Mark(p) \/ RecordFailure(p) \/ RecordSuccess(p) \/ Send(p)
        PROVE  Goal
    <3>1. cur[p] \in Items
      BY <2>4 DEF Block, Mark, RecordFailure, RecordSuccess, Send, Taken, Refused, AnswerLost
    <3>2. PICK i \in Items : i = cur[p]
      BY <3>1
    <3>3. \/ UNCHANGED <<Released, posted, Reported>> \/ PromisedOutbox!Transmit(i)
          \/ PromisedOutbox!Report(i) \/ PromisedOutbox!Retract(i)
      <4>1. CASE Send(p)
        BY <2>1, <3>2, <4>1, <1>8
      <4>2. CASE RecordSuccess(p)
        BY <3>2, <4>2, <1>7
      <4>3. CASE Block(p) \/ Mark(p) \/ RecordFailure(p)
        BY <3>2, <4>3, <1>6
      <4>4. QED
        BY <2>4, <4>1, <4>2, <4>3
    <3>4. QED
      BY <3>3, Zenon
  <2>5. QED
    BY <1>9, <1>11, <2>2, <2>3, <2>4, PublishingAssumption DEF Next, PublisherStep
<1>12. QED
  BY <1>10, <1>11

\* The status of every row is true, for any number of items and publishers: the
\* two theorems about PUBLISHED and PUBLISHING rows together.
THEOREM OutcomesTrue == Spec => []OutcomeIsTrue
BY PublishedPosted, PublishingOwned, PTL DEF OutcomeIsTrue

\* The scheduler posts only what was scheduled or asked for and reports only
\* what it posted, for any number of items and publishers: it implements the
\* outbox.
THEOREM ContentImplementsOutbox == Spec => ImplementsOutbox
<1>1. Init => PostedInv /\ ReleasedInv
  BY PublishingAssumption DEF Init, PostedInv, PublishedWasPosted, ReleasedInv, InHand
<1>2. Init => PromisedOutbox!Init
  BY DEF Init, PromisedOutbox!Init
<1>3. TypeOK /\ PostedInv /\ [Next]_vars => PostedInv'
  BY PostedStep
<1>4. QED
  BY <1>1, <1>2, <1>3, ReleasedStep, OutboxStep, TypeCorrect, PTL
  DEF Spec, ImplementsOutbox, PromisedOutbox!Spec

-----------------------------------------------------------------------------
(* Duplicates and cancelled items *)

\* Nothing that may double a post has happened to the item.
Clean(i) == fate[i] \cap {"overlap", "lostReply", "human"} = {}

\* Such an item is in the hands of one publisher, in one place, and its only
\* copy belongs to a row the scheduler does not look at: the publisher that sent
\* it has the outcome still to record, or nobody has it in hand. A row that is
\* being sent was marked, and the scheduler does not look at it either.
OnceInv ==
    \A i \in Items : Clean(i) =>
        /\ \A p, q \in Publishers : i \in InHand(p) /\ i \in InHand(q) => p = q
        /\ \A p \in Publishers : i \in todo[p] => cur[p] # i
        /\ \A p \in Publishers : cur[p] = i /\ pc[p] \in {"send", "accepted", "rejected"}
                => status[i] \notin {"NONE", "SCHEDULED"}
        /\ posted[i] <= 1
        /\ posted[i] > 0 =>
            /\ status[i] \notin {"NONE", "SCHEDULED"}
            /\ \A p \in Publishers : i \in InHand(p) => cur[p] = i /\ pc[p] = "accepted"

\* OnceInv is inductive.
LEMMA OnceStep ==
    ASSUME TypeOK, OnceInv, [Next]_vars
    PROVE  OnceInv'
<1> DEFINE Once(i) ==
        /\ \A p, q \in Publishers : i \in InHand(p) /\ i \in InHand(q) => p = q
        /\ \A p \in Publishers : i \in todo[p] => cur[p] # i
        /\ \A p \in Publishers : cur[p] = i /\ pc[p] \in {"send", "accepted", "rejected"}
                => status[i] \notin {"NONE", "SCHEDULED"}
        /\ posted[i] <= 1
        /\ posted[i] > 0 =>
            /\ status[i] \notin {"NONE", "SCHEDULED"}
            /\ \A p \in Publishers : i \in InHand(p) => cur[p] = i /\ pc[p] = "accepted"
<1> SUFFICES ASSUME NEW i \in Items, Clean(i)' PROVE Once(i)'
  BY DEF OnceInv
<1>0. Clean(i) /\ Once(i)
  BY FateKept DEF OnceInv, Clean
<1>t. /\ posted[i] \in Nat /\ posted \in [Items -> 0..2] /\ status \in [Items -> Statuses]
      /\ pc \in [Publishers -> Steps] /\ todo \in [Publishers -> SUBSET Items]
      /\ cur \in [Publishers -> Items \cup {Idle}] /\ Idle \notin Items
      /\ \A p \in Publishers : /\ cur[p] = Idle <=> pc[p] \in {"idle", "loop"}
                               /\ pc[p] = "idle" => todo[p] = {}
      /\ fate \in [Items -> SUBSET Fates]
  BY PublishingAssumption DEF TypeOK
<1> USE <1>t DEF InHand, itemVars, railVars, pubVars
<1>1. ASSUME \/ \E j \in Items : Create(j) \/ Cancel(j) \/ FallsDue(j) \/ \E d \in Channels : Move(j, d)
             \/ SetKillSwitch \/ NewDay \/ UNCHANGED vars
             \/ \E c \in Channels : SetPaused(c)
      PROVE  Once(i)'
  <2>1. UNCHANGED <<pc, cur, todo, posted>>
    BY <1>1 DEF Create, Cancel, FallsDue, Move, SetKillSwitch, NewDay, SetPaused, vars
  <2>2. status'[i] = status[i] \/ status'[i] = "CANCELLED" \/ status[i] = "NONE"
    BY <1>1 DEF Create, Cancel, FallsDue, Move, SetKillSwitch, NewDay, SetPaused, vars
  <2>3. QED
    BY <1>0, <2>1, <2>2
<1>2. ASSUME NEW j \in Items, Reschedule(j) PROVE Once(i)'
  <2>1. j # i
    BY <1>2 DEF Reschedule, Tag, Clean
  <2>2. UNCHANGED <<pc, cur, todo, posted>> /\ status'[i] = status[i]
    BY <1>2, <2>1 DEF Reschedule
  <2>3. QED
    BY <1>0, <2>2
<1>3. ASSUME NEW p \in Publishers, NEW j \in Items, PublishNow(p, j) PROVE Once(i)'
  <2>1. j # i
    BY <1>3 DEF PublishNow, Tag, Clean
  <2>2. UNCHANGED <<status, cur, posted>> /\ i \notin todo'[p] /\ cur[p] = Idle
    BY <1>3, <2>1 DEF PublishNow
  <2>3. \A q \in Publishers \ {p} : pc'[q] = pc[q] /\ todo'[q] = todo[q]
    BY <1>3 DEF PublishNow
  <2>4. i \notin InHand(p)' /\ \A q \in Publishers \ {p} : InHand(q)' = InHand(q)
    BY <2>2, <2>3
  <2>5. QED
    BY <1>0, <2>2, <2>3, <2>4
<1>4. ASSUME NEW p \in Publishers, Tick(p) PROVE Once(i)'
  <2>1. /\ UNCHANGED <<status, cur, posted>> /\ cur[p] = Idle
        /\ \A q \in Publishers \ {p} : pc'[q] = pc[q] /\ todo'[q] = todo[q]
    BY <1>4 DEF Tick
  <2>2. i \in todo'[p] => status[i] = "SCHEDULED" /\ ~Held(i)
    <3>1. i \in todo'[p] => i \in DueItems /\ (Held(i) => "overlap" \in fate'[i])
      BY <1>4 DEF Tick
    <3>2. QED
      BY <3>1 DEF DueItems, Clean
  <2>3. QED
    BY <1>0, <2>1, <2>2 DEF Held
<1>5. ASSUME NEW p \in Publishers, NEW j \in Items, ReadSettings(p, j) PROVE Once(i)'
  <2>1. /\ UNCHANGED <<status, posted>> /\ cur[p] = Idle /\ pc[p] = "loop" /\ j \in todo[p]
        /\ cur'[p] = j /\ todo'[p] = todo[p] \ {j} /\ pc'[p] \in {"block", "count"}
        /\ \A q \in Publishers \ {p} : pc'[q] = pc[q] /\ todo'[q] = todo[q] /\ cur'[q] = cur[q]
    BY <1>5 DEF ReadSettings
  <2>2. \A q \in Publishers : InHand(q)' = InHand(q)
    BY <2>1
  <2>3. i \in InHand(p) => posted[i] = 0
    BY <1>0, <2>1
  <2>4. /\ \A q, r \in Publishers : i \in InHand(q)' /\ i \in InHand(r)' => q = r
        /\ \A q \in Publishers : i \in todo'[q] => cur'[q] # i
    BY <1>0, <2>1, <2>2
  <2>5. QED
    BY <1>0, <2>1, <2>2, <2>3, <2>4
<1>6. ASSUME NEW p \in Publishers, CountPosts(p) \/ Mark(p) PROVE Once(i)'
  <2>1. /\ UNCHANGED <<cur, todo, posted>> /\ pc[p] # "accepted" /\ cur[p] \in Items
        /\ \A q \in Publishers \ {p} : pc'[q] = pc[q]
    BY <1>6 DEF CountPosts, Mark
  <2>2. \/ status'[i] = status[i] /\ (cur[p] = i => pc'[p] \in {"block", "mark"})
        \/ status'[i] = "PUBLISHING"
    BY <1>6 DEF CountPosts, Mark
  <2>3. /\ \A q \in Publishers : InHand(q)' = InHand(q)
        /\ posted[i] > 0 => \A q \in Publishers : i \in InHand(q) => q # p
    BY <1>0, <2>1
  <2>4. QED
    BY <1>0, <2>1, <2>2, <2>3
<1>7. ASSUME NEW p \in Publishers, Send(p) PROVE Once(i)'
  <2>1. /\ UNCHANGED <<status, cur, todo>> /\ pc[p] = "send" /\ cur[p] \in Items
        /\ \A q \in Publishers \ {p} : pc'[q] = pc[q]
    BY <1>7 DEF Send, Taken, Refused, AnswerLost
  <2>2. CASE cur[p] = i
    <3>1. posted[i] = 0 /\ \A q \in Publishers : i \in InHand(q) => q = p
      <4>1. i \in InHand(p)
        BY <2>2
      <4>2. QED
        BY <1>0, <2>1, <4>1
    <3>2. UNCHANGED posted \/ (posted'[i] = 1 /\ pc'[p] = "accepted" /\ status[i] \notin {"NONE", "SCHEDULED"})
      <4>1. ~AnswerLost(p)
        <5>1. AnswerLost(p) => "lostReply" \in fate'[i]
          BY <2>2 DEF AnswerLost, Tag
        <5>2. QED
          BY <5>1 DEF Clean
      <4>2. status[i] \notin {"NONE", "SCHEDULED"}
        BY <1>0, <2>1, <2>2
      <4>3. QED
        BY <1>7, <2>2, <3>1, <4>1, <4>2 DEF Send, Taken, Refused, Post, Saturated
    <3>3. \A q \in Publishers : InHand(q)' = InHand(q)
      BY <2>1
    <3>4. posted'[i] <= 1 /\ (posted'[i] > 0 =>
              /\ status'[i] \notin {"NONE", "SCHEDULED"}
              /\ \A q \in Publishers : i \in InHand(q)' => cur'[q] = i /\ pc'[q] = "accepted")
      BY <2>1, <2>2, <3>1, <3>2, <3>3
    <3>5. QED
      BY <1>0, <2>1, <3>3, <3>4
  <2>3. CASE cur[p] # i
    <3>1. posted'[i] = posted[i]
      BY <1>7, <2>3 DEF Send, Taken, Refused, AnswerLost, Post
    <3>2. QED
      BY <1>0, <2>1, <2>3, <3>1
  <2>4. QED
    BY <2>2, <2>3
<1>8. ASSUME NEW p \in Publishers, Block(p) \/ RecordSuccess(p) \/ RecordFailure(p) \/ DbError(p)
      PROVE  Once(i)'
  <2>1. Continue(p) /\ cur[p] \in Items /\ UNCHANGED posted
    BY <1>8 DEF Block, RecordSuccess, RecordFailure, DbError
  <2>2. /\ UNCHANGED todo /\ cur'[p] = Idle
        /\ \A q \in Publishers \ {p} : pc'[q] = pc[q] /\ cur'[q] = cur[q]
    BY <2>1 DEF Continue
  <2>3. \/ status'[i] = status[i]
        \/ cur[p] = i /\ status'[i] \in {"FAILED", "PUBLISHED"}
        \/ cur[p] = i /\ pc[p] = "rejected" /\ status'[i] = "SCHEDULED"
    BY <1>8 DEF Block, RecordSuccess, RecordFailure, DbError
  <2>4. QED
    BY <1>0, <2>1, <2>2, <2>3
<1>9. ASSUME Crash PROVE Once(i)'
  BY <1>0, <1>9 DEF Crash
<1>10. QED
  BY <1>1, <1>2, <1>3, <1>4, <1>5, <1>6, <1>7, <1>8, <1>9 DEF Next, PublisherStep

\* No item is on the platform twice unless two publishers had it at once, an
\* accepted post was reported as failed, or a person asked again: for any number
\* of items and publishers, and whatever the crashes and database errors.
THEOREM DuplicatesExplained == Spec => []DuplicateHasCause
<1>1. Init => OnceInv
  BY PublishingAssumption DEF Init, OnceInv, InHand
<1>2. TypeOK /\ OnceInv => DuplicateHasCause
  <2> SUFFICES ASSUME TypeOK, OnceInv, NEW i \in Items, Clean(i) PROVE ~(posted[i] >= 2)
    BY DEF DuplicateHasCause, Clean
  <2>1. posted[i] \in 0..2 /\ posted[i] <= 1
    BY DEF TypeOK, OnceInv
  <2>2. QED
    BY <2>1
<1>3. QED
  BY <1>1, <1>2, OnceStep, TypeCorrect, PTL DEF Spec

\* A cancelled item no publisher has in hand stays cancelled and out of their
\* hands, for any number of items and publishers, unless a person acts.
THEOREM CancelledIsSafe == Spec => CancelledStaysCancelled
<1>1. ASSUME TypeOK, [Next]_vars, NEW i \in Items, status[i] = "CANCELLED", ~Held(i), human' # human + 1
      PROVE  ~Held(i)' /\ status'[i] = "CANCELLED"
  <2>t. /\ status \in [Items -> Statuses]
        /\ pc \in [Publishers -> Steps] /\ todo \in [Publishers -> SUBSET Items]
        /\ cur \in [Publishers -> Items \cup {Idle}] /\ Idle \notin Items /\ human \in Nat
        /\ \A p \in Publishers : cur[p] = Idle <=> pc[p] \in {"idle", "loop"}
    BY <1>1, PublishingAssumption DEF TypeOK
  <2>0. status[i] = "CANCELLED" /\ ~Held(i) /\ human' # human + 1
    BY <1>1
  <2> USE <2>t, <2>0 DEF Held, InHand, itemVars, railVars, pubVars
  <2>1. ASSUME \/ \E j \in Items : Create(j) \/ Reschedule(j) \/ Cancel(j) \/ FallsDue(j)
                                   \/ \E d \in Channels : Move(j, d)
               \/ SetKillSwitch \/ NewDay \/ UNCHANGED vars \/ \E c \in Channels : SetPaused(c)
        PROVE  ~Held(i)' /\ status'[i] = "CANCELLED"
    <3>1. UNCHANGED <<cur, todo>> /\ status'[i] = status[i]
      BY <2>1 DEF Create, Reschedule, Cancel, FallsDue, Move, SetKillSwitch, NewDay, SetPaused, vars
    <3>2. QED
      BY <3>1
  <2>2. ASSUME NEW p \in Publishers, \E j \in Items : PublishNow(p, j) \/ ReadSettings(p, j)
        PROVE  ~Held(i)' /\ status'[i] = "CANCELLED"
    BY <2>2 DEF PublishNow, ReadSettings
  <2>3. ASSUME NEW p \in Publishers, Tick(p) PROVE ~Held(i)' /\ status'[i] = "CANCELLED"
    <3>1. UNCHANGED <<status, cur>> /\ i \notin todo'[p] /\ \A q \in Publishers \ {p} : todo'[q] = todo[q]
      BY <2>3 DEF Tick, DueItems
    <3>2. QED
      BY <3>1
  <2>4. ASSUME NEW p \in Publishers, CountPosts(p) \/ Mark(p) \/ Send(p)
        PROVE  ~Held(i)' /\ status'[i] = "CANCELLED"
    <3>0. cur[p] \in Items /\ cur[p] # i
      BY <2>4 DEF CountPosts, Mark, Send
    <3>1. UNCHANGED <<cur, todo>> /\ status'[i] = status[i]
      BY <2>4, <3>0 DEF CountPosts, Mark, Send, Taken, Refused, AnswerLost
    <3>2. QED
      BY <3>1
  <2>5. ASSUME NEW p \in Publishers, Block(p) \/ RecordSuccess(p) \/ RecordFailure(p) \/ DbError(p)
        PROVE  ~Held(i)' /\ status'[i] = "CANCELLED"
    <3>1. Continue(p) /\ status'[i] = status[i]
      BY <2>5 DEF Block, RecordSuccess, RecordFailure, DbError
    <3>2. QED
      BY <3>1 DEF Continue
  <2>6. ASSUME Crash PROVE ~Held(i)' /\ status'[i] = "CANCELLED"
    BY <2>6 DEF Crash
  <2>7. QED
    BY <1>1, <2>1, <2>2, <2>3, <2>4, <2>5, <2>6 DEF Next, PublisherStep
<1>2. TypeOK /\ [Next]_vars =>
        [\A i \in Items : (status[i] = "CANCELLED" /\ ~Held(i)) =>
            (~Held(i)' /\ status'[i] = "CANCELLED") \/ human' = human + 1]_vars
  BY <1>1
<1>3. QED
  BY <1>2, TypeCorrect, PTL DEF Spec, CancelledStaysCancelled

=============================================================================
