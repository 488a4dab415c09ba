--------------------------- MODULE ScreensProofs ---------------------------
(***************************************************************************)
(* What the screens show is so, for every value of the constants: the      *)
(* assistant's conversations, the chat page and what lies over every page. *)
(* Then the types of all the services, which rest on these and the earlier *)
(* invariants.                                                             *)
(***************************************************************************)
EXTENDS RecordsProofs

-----------------------------------------------------------------------------
(* The assistant's conversations *)

Message == [q : Nat, role : {"user", "assistant"}]
Chat == [q : Nat, by : {"bubble", "caller"}, at : {"organization", "model"}, id : Nat, stored : BOOLEAN]

\* A question without an answer is awaited in its conversation, and an answer is
\* its question's only one.
Placed(id) ==
    \A n \in DOMAIN store[id] :
        /\ store[id][n].role = "user" =>
              \/ \E k \in DOMAIN store[id] : store[id][k].q = store[id][n].q /\ store[id][k].role = "assistant"
              \/ \E c \in chats : c.q = store[id][n].q /\ c.id = id /\ c.stored
        /\ store[id][n].role = "assistant" =>
              /\ \A k \in DOMAIN store[id] :
                    store[id][k].q = store[id][n].q /\ store[id][k].role = "assistant" => k = n
              /\ \E k \in DOMAIN store[id] :
                    k < n /\ store[id][k].q = store[id][n].q /\ store[id][k].role = "user"

\* A call whose question is stored holds the conversation it is in; what a call is
\* about is in no other, and not answered there yet.
Holds(c) ==
    /\ c.stored => /\ c.at = "model" /\ c.id \in Ids /\ store[c.id] # Gone
                   /\ \E n \in DOMAIN store[c.id] : store[c.id][n].q = c.q /\ store[c.id][n].role = "user"
    /\ \A id \in Ids : store[id] # Gone =>
            \A n \in DOMAIN store[id] : store[id][n].q = c.q => c.stored /\ c.id = id /\ store[id][n].role = "user"

TalkTypes ==
    /\ store \in [Ids -> Seq(Message) \cup {Gone}] /\ chats \subseteq Chat
    /\ started \in 0..MaxConversations /\ asked \in 0..MaxMessages /\ bubble \in {"ready", "waiting", "down"}
    /\ \A c \in chats : c.q \in 1..asked /\ c.id \in 0..started
    /\ \A id \in Ids : store[id] # Gone => \A n \in DOMAIN store[id] : store[id][n].q \in 1..asked

TalkInv ==
    /\ TalkTypes
    /\ \A c, d \in chats : c.q = d.q => c = d
    /\ \A c \in chats : Holds(c)
    /\ \A id \in Ids : store[id] # Gone => Placed(id)

LEMMA GoneIsNoTalk == Gone \notin Seq(Message)
<1>1. Gone[1].q = 0 /\ Gone[1].role = "gone" /\ Len(Gone) = 1
  BY DEF Gone
<1>2. ASSUME Gone \in Seq(Message) PROVE Gone[1] \in Message
  BY <1>1, <1>2
<1> QED BY <1>1, <1>2 DEF Message

LEMMA TalkInvSays == TalkInv => AssistantTypeOK /\ AnswersInPlace
<1> SUFFICES ASSUME TalkInv PROVE AssistantTypeOK /\ AnswersInPlace
  OBVIOUS
<1>m. ASSUME NEW id \in Ids, store[id] # Gone, NEW n \in DOMAIN store[id] PROVE store[id][n] \in Message
  BY <1>m DEF TalkInv, TalkTypes
<1>1. AssistantTypeOK
  <2>1. \A id \in Ids : store[id] = Gone \/ \A n \in DOMAIN store[id] :
            store[id][n] \in [q : 1..asked, role : {"user", "assistant"}]
    BY <1>m DEF TalkInv, TalkTypes, Message
  <2>2. chats \subseteq [q : 1..asked, by : {"bubble", "caller"}, at : {"organization", "model"},
                        id : 0..started, stored : BOOLEAN]
    BY DEF TalkInv, TalkTypes, Chat
  <2> QED BY <2>1, <2>2 DEF TalkInv, TalkTypes, AssistantTypeOK
<1>2. ASSUME NEW id \in Ids, store[id] # Gone, NEW n \in DOMAIN store[id]
      PROVE  LET m == store[id][n]
                 places(role) == {k \in DOMAIN store[id] : store[id][k] = Said(m.q, role)}
             IN  IF m.role = "assistant" THEN places("assistant") = {n} /\ \E k \in places("user") : k < n
                 ELSE places("assistant") # {} \/ \E c \in chats : c.q = m.q /\ c.id = id /\ c.stored
  <2> DEFINE m == store[id][n]
             Places(role) == {k \in DOMAIN store[id] : store[id][k] = Said(m.q, role)}
  <2>1. ASSUME NEW k \in DOMAIN store[id], NEW role \in {"user", "assistant"}
        PROVE  k \in Places(role) <=> store[id][k].q = m.q /\ store[id][k].role = role
    BY <1>2, <1>m DEF Message, Said
  <2>2. Placed(id) /\ m.role \in {"user", "assistant"}
    BY <1>2, <1>m DEF TalkInv, Message
  <2>3. ASSUME m.role = "assistant" PROVE Places("assistant") = {n} /\ \E k \in Places("user") : k < n
    <3>1. n \in Places("assistant")
      BY <2>1, <2>3
    <3>2. \A k \in Places("assistant") : k = n
      BY <2>1, <2>2, <2>3 DEF Placed
    <3>3. \E k \in Places("user") : k < n
      BY <2>1, <2>2, <2>3 DEF Placed
    <3> QED BY <3>1, <3>2, <3>3
  <2>4. ASSUME m.role = "user"
        PROVE  Places("assistant") # {} \/ \E c \in chats : c.q = m.q /\ c.id = id /\ c.stored
    BY <2>1, <2>2, <2>4 DEF Placed
  <2> QED BY <2>2, <2>3, <2>4
<1> QED BY <1>1, <1>2 DEF AnswersInPlace

\* The conversations stay as they are, and so do the calls that hold one.
LEMMA TalksRest ==
    ASSUME TalkInv, UNCHANGED store, TalkTypes', \A c, d \in chats' : c.q = d.q => c = d,
           \A d \in chats' : \/ ~d.stored /\ ~ \E id \in Ids : store[id] # Gone /\ \E n \in DOMAIN store[id] : store[id][n].q = d.q
                             \/ \E c \in chats : d.q = c.q /\ d.id = c.id /\ d.at = c.at /\ d.stored = c.stored,
           \A c \in chats : c.stored => \E d \in chats' : d.q = c.q /\ d.id = c.id /\ d.stored
    PROVE  TalkInv'
<1>1. ASSUME NEW d \in chats' PROVE Holds(d)'
  <2>1. CASE ~d.stored /\ ~ \E id \in Ids : store[id] # Gone /\ \E n \in DOMAIN store[id] : store[id][n].q = d.q
    BY <2>1 DEF Holds
  <2>2. ASSUME NEW c \in chats, d.q = c.q /\ d.id = c.id /\ d.at = c.at /\ d.stored = c.stored PROVE Holds(d)'
    <3>1. Holds(c)
      BY DEF TalkInv
    <3> QED BY <2>2, <3>1 DEF Holds
  <2> QED BY <2>1, <2>2
<1>2. ASSUME NEW id \in Ids, store[id] # Gone PROVE Placed(id)'
  <2>1. Placed(id)
    BY <1>2 DEF TalkInv
  <2> QED BY <2>1 DEF Placed
<1> QED BY <1>1, <1>2 DEF TalkInv

\* A message more in one conversation, Append by its parts.
LEMMA OneMore ==
    ASSUME NEW s \in Seq(Message), NEW m \in Message
    PROVE  /\ Append(s, m) \in Seq(Message) /\ Append(s, m) # Gone
           /\ DOMAIN Append(s, m) = DOMAIN s \cup {Len(s) + 1} /\ Len(s) + 1 \notin DOMAIN s
           /\ Append(s, m)[Len(s) + 1] = m /\ \A n \in DOMAIN s : Append(s, m)[n] = s[n] /\ n < Len(s) + 1
<1>1. Append(s, m) \in Seq(Message) /\ Len(Append(s, m)) = Len(s) + 1 /\ Len(s) \in Nat
  OBVIOUS
<1>2. DOMAIN s = 1..Len(s) /\ DOMAIN Append(s, m) = 1..(Len(s) + 1)
  BY <1>1
<1> QED BY <1>1, <1>2, GoneIsNoTalk

LEMMA TalkStep == TalkInv /\ [AssistantNext]_assistantVars => TalkInv'
<1> USE AssistantAssumption
<1> SUFFICES ASSUME TalkInv, [AssistantNext]_assistantVars PROVE TalkInv'
  OBVIOUS
<1>t. /\ store \in [Ids -> Seq(Message) \cup {Gone}] /\ chats \subseteq Chat
      /\ started \in 0..MaxConversations /\ asked \in 0..MaxMessages /\ bubble \in {"ready", "waiting", "down"}
      /\ \A c \in chats : c.q \in 1..asked /\ c.id \in 0..started
      /\ \A id \in Ids : store[id] # Gone => \A n \in DOMAIN store[id] : store[id][n].q \in 1..asked
  BY DEF TalkInv, TalkTypes
<1>u. \A c, d \in chats : c.q = d.q => c = d
  BY DEF TalkInv
<1>h. \A c \in chats : Holds(c)
  BY DEF TalkInv
<1>p. \A id \in Ids : store[id] # Gone => Placed(id)
  BY DEF TalkInv
<1>c. \A c \in chats : /\ c.q \in Nat /\ c.by \in {"bubble", "caller"} /\ c.at \in {"organization", "model"}
                       /\ c.id \in Nat /\ c.stored \in BOOLEAN
  BY <1>t DEF Chat
<1>q. ASSUME NEW by \in {"bubble", "caller"}, NEW id \in 0..started, Question(by, id), UNCHANGED <<store, started>>,
             bubble' \in {"ready", "waiting", "down"}
      PROVE  TalkInv'
  <2> DEFINE new == [q |-> asked + 1, by |-> by, at |-> "organization", id |-> id, stored |-> FALSE]
  <2>1. asked' = asked + 1 /\ asked' \in 0..MaxMessages /\ chats' = chats \cup {new}
    BY <1>q, <1>t DEF Question
  <2>2. new \in Chat /\ new.q = asked + 1 /\ ~new.stored /\ new.id = id
    BY <1>t DEF Chat
  <2> HIDE DEF new
  <2>3. \A n \in 1..asked : n \in 1..asked' /\ n # asked + 1
    BY <2>1, <1>t
  <2>4. TalkTypes'
    BY <1>q, <1>t, <2>1, <2>2, <2>3 DEF TalkTypes
  <2>5. \A c, d \in chats' : c.q = d.q => c = d
    BY <1>u, <1>t, <2>1, <2>2, <2>3
  <2>6. ~ \E i \in Ids : store[i] # Gone /\ \E n \in DOMAIN store[i] : store[i][n].q = new.q
    BY <1>t, <2>2, <2>3
  <2> QED BY <1>q, <2>1, <2>2, <2>4, <2>5, <2>6, TalksRest
<1>1. CASE SendPrompt
  <2>1. 0 \in 0..started
    BY <1>t
  <2> QED BY <1>1, <1>q, <2>1 DEF SendPrompt
<1>2. CASE AskApi
  BY <1>2, <1>q, <1>t DEF AskApi
<1>s. ASSUME NEW c PROVE bubble \in {"ready", "waiting", "down"} /\ (\E delivered \in BOOLEAN : Show(c, delivered)) => bubble' \in {"ready", "waiting", "down"}
  BY DEF Show
\* A conversation grows by a message.
<1>g. ASSUME NEW id \in Ids, NEW s \in Seq(Message), NEW m \in Message, store' = [store EXCEPT ![id] = Append(s, m)],
             (s = store[id] /\ s # Gone) \/ (s = <<>> /\ store[id] = Gone)
      PROVE  /\ store' \in [Ids -> Seq(Message) \cup {Gone}] /\ store'[id] # Gone
             /\ DOMAIN store'[id] = DOMAIN s \cup {Len(s) + 1} /\ Len(s) + 1 \notin DOMAIN s
             /\ store'[id][Len(s) + 1] = m /\ \A n \in DOMAIN s : store'[id][n] = s[n] /\ n < Len(s) + 1
             /\ \A i \in Ids \ {id} : store'[i] = store[i]
  <2>1. store'[id] = Append(s, m) /\ \A i \in Ids \ {id} : store'[i] = store[i]
    BY <1>g, <1>t
  <2>2. store' \in [Ids -> Seq(Message) \cup {Gone}]
    BY <1>g, <1>t, OneMore
  <2> QED BY <2>1, <2>2, OneMore
<1>3. ASSUME NEW c \in chats, Resolve(c) PROVE TalkInv'
  <2> DEFINE id == IF c.id = 0 THEN started + 1 ELSE c.id
             new == [c EXCEPT !.at = "model", !.id = id, !.stored = TRUE]
             m == Said(c.q, "user")
             s == IF store[id] = Gone THEN <<>> ELSE store[id]
  <2>1. /\ c.at = "organization" /\ (c.id = 0 => started < MaxConversations)
        /\ started' = IF c.id = 0 THEN id ELSE started
        /\ store' = [store EXCEPT ![id] = Append(s, m)]
        /\ chats' = (chats \ {c}) \cup {new} /\ UNCHANGED <<asked, bubble>>
    BY <1>3 DEF Resolve
  <2>2. id \in Ids /\ started' \in 0..MaxConversations /\ started <= started' /\ id \in 0..started'
    BY <2>1, <1>t DEF Ids
  <2>3. new \in Chat /\ new.q = c.q /\ new.id = id /\ new.stored /\ new.at = "model"
    <3>1. ASSUME NEW i \in Nat
          PROVE  LET n == [c EXCEPT !.at = "model", !.id = i, !.stored = TRUE]
                 IN  n \in Chat /\ n.q = c.q /\ n.id = i /\ n.stored /\ n.at = "model"
      BY <1>t DEF Chat
    <3>2. id \in Nat
      BY <2>2 DEF Ids
    <3> HIDE DEF id
    <3> QED BY <3>1, <3>2
  <2>4. m \in Message /\ m.q = c.q /\ m.role = "user"
    BY <1>c DEF Message, Said
  <2>5. s \in Seq(Message) /\ ((s = store[id] /\ s # Gone) \/ (s = <<>> /\ store[id] = Gone))
    BY <2>2, <1>t
  <2> HIDE DEF id, new, m, s
  <2>6. /\ store' \in [Ids -> Seq(Message) \cup {Gone}] /\ store'[id] # Gone
        /\ DOMAIN store'[id] = DOMAIN s \cup {Len(s) + 1} /\ Len(s) + 1 \notin DOMAIN s
        /\ store'[id][Len(s) + 1] = m /\ \A n \in DOMAIN s : store'[id][n] = s[n] /\ n < Len(s) + 1
        /\ \A i \in Ids \ {id} : store'[i] = store[i]
    BY <2>1, <2>2, <2>4, <2>5, <1>g
  \* Nothing of this question is anywhere yet.
  <2>7. \A i \in Ids : store[i] # Gone => \A n \in DOMAIN store[i] : store[i][n].q # c.q
    BY <1>h, <2>1 DEF Holds
  <2>8. \A n \in DOMAIN s : store[id] # Gone /\ s = store[id] /\ s[n].q # c.q
    BY <2>5, <2>7, <2>2
  <2>9. TalkTypes'
    <3>1. chats' \subseteq Chat /\ \A d \in chats' : d.q \in 1..asked /\ d.id \in 0..started'
      BY <2>1, <2>2, <2>3, <1>t
    <3>2. ASSUME NEW i \in Ids, store'[i] # Gone, NEW n \in DOMAIN store'[i] PROVE store'[i][n].q \in 1..asked
      <4>1. CASE i = id
        BY <3>2, <4>1, <2>4, <2>6, <2>8, <1>t
      <4>2. CASE i # id
        BY <3>2, <4>2, <2>6, <1>t
      <4> QED BY <4>1, <4>2
    <3> QED BY <3>1, <3>2, <2>1, <2>2, <2>6, <1>t DEF TalkTypes
  <2>10. \A d, e \in chats' : d.q = e.q => d = e
    BY <2>1, <2>3, <1>u
  <2>11. ASSUME NEW d \in chats' PROVE Holds(d)'
    <3>1. CASE d = new
      <4>1. store'[id][Len(s) + 1].q = d.q /\ store'[id][Len(s) + 1].role = "user" /\ Len(s) + 1 \in DOMAIN store'[id]
        BY <3>1, <2>3, <2>4, <2>6
      <4>2. ASSUME NEW i \in Ids, store'[i] # Gone, NEW n \in DOMAIN store'[i], store'[i][n].q = d.q
            PROVE  i = id /\ store'[i][n].role = "user"
        <5>1. i = id
          BY <4>2, <3>1, <2>3, <2>6, <2>7
        <5>2. n = Len(s) + 1
          BY <4>2, <5>1, <3>1, <2>3, <2>6, <2>8
        <5> QED BY <5>1, <5>2, <4>1
      <4> QED BY <3>1, <2>2, <2>3, <2>6, <4>1, <4>2 DEF Holds
    <3>2. CASE d # new
      <4>1. d \in chats /\ d.q # c.q /\ Holds(d)
        BY <3>2, <2>1, <1>u, <1>h
      <4>2. ASSUME d.stored
            PROVE  /\ d.at = "model" /\ d.id \in Ids /\ store'[d.id] # Gone
                   /\ \E n \in DOMAIN store'[d.id] : store'[d.id][n].q = d.q /\ store'[d.id][n].role = "user"
        <5>1. d.at = "model" /\ d.id \in Ids /\ store[d.id] # Gone
          BY <4>1, <4>2 DEF Holds
        <5>2. PICK n \in DOMAIN store[d.id] : store[d.id][n].q = d.q /\ store[d.id][n].role = "user"
          BY <4>1, <4>2 DEF Holds
        <5>3. CASE d.id = id
          <6>1. s = store[id] /\ n \in DOMAIN s /\ n \in DOMAIN store'[id] /\ store'[id][n] = s[n]
            BY <5>1, <5>2, <5>3, <2>5, <2>6
          <6> QED BY <5>1, <5>2, <5>3, <6>1, <2>6
        <5>4. CASE d.id # id
          BY <5>1, <5>2, <5>4, <2>6
        <5> QED BY <5>3, <5>4
      <4>3. ASSUME NEW i \in Ids, store'[i] # Gone, NEW n \in DOMAIN store'[i], store'[i][n].q = d.q
            PROVE  d.stored /\ d.id = i /\ store'[i][n].role = "user"
        <5>1. CASE i = id
          <6>1. n \in DOMAIN s /\ store'[id][n] = s[n]
            BY <4>3, <5>1, <4>1, <2>4, <2>6
          <6> QED BY <4>1, <4>3, <5>1, <6>1, <2>2, <2>8 DEF Holds
        <5>2. CASE i # id
          BY <4>1, <4>3, <5>2, <2>6 DEF Holds
        <5> QED BY <5>1, <5>2
      <4> QED BY <4>2, <4>3 DEF Holds
    <3> QED BY <3>1, <3>2
  <2>12. ASSUME NEW i \in Ids, store'[i] # Gone PROVE Placed(i)'
    \* The others' calls are still there.
    <3>1. \A d \in chats : d.q # c.q => d \in chats'
      BY <2>1
    <3>2. CASE i = id
      <4>1. new \in chats' /\ new.q = c.q /\ new.id = id /\ new.stored
        BY <2>1, <2>3
      <4>2. ASSUME NEW n \in DOMAIN s PROVE Placed(id)
        BY <2>2, <2>8, <4>2, <1>p
      <4>3. ASSUME NEW n \in DOMAIN s, s[n].role = "user"
            PROVE  \/ \E k \in DOMAIN s : s[k].q = s[n].q /\ s[k].role = "assistant"
                   \/ \E d \in chats : d.q = s[n].q /\ d.id = id /\ d.stored
        BY <4>2, <4>3, <2>8 DEF Placed
      <4>4. ASSUME NEW n \in DOMAIN s, s[n].role = "assistant"
            PROVE  /\ \A k \in DOMAIN s : s[k].q = s[n].q /\ s[k].role = "assistant" => k = n
                   /\ \E k \in DOMAIN s : k < n /\ s[k].q = s[n].q /\ s[k].role = "user"
        BY <4>2, <4>4, <2>8 DEF Placed
      <4>5. ASSUME NEW n \in DOMAIN s
            PROVE  /\ store'[id][n].role = "user" =>
                        \/ \E k \in DOMAIN store'[id] : store'[id][k].q = store'[id][n].q /\ store'[id][k].role = "assistant"
                        \/ \E d \in chats' : d.q = store'[id][n].q /\ d.id = id /\ d.stored
                   /\ store'[id][n].role = "assistant" =>
                        /\ \A k \in DOMAIN store'[id] :
                              store'[id][k].q = store'[id][n].q /\ store'[id][k].role = "assistant" => k = n
                        /\ \E k \in DOMAIN store'[id] :
                              k < n /\ store'[id][k].q = store'[id][n].q /\ store'[id][k].role = "user"
        <5>1. store'[id][n] = s[n] /\ s[n].q # c.q
          BY <4>5, <2>6, <2>8
        <5>2. \A k \in DOMAIN store'[id] : (k \in DOMAIN s /\ store'[id][k] = s[k]) \/ store'[id][k] = m
          BY <2>6
        <5>3. \A k \in DOMAIN s : k \in DOMAIN store'[id] /\ store'[id][k] = s[k]
          BY <2>6
        <5>4. s[n].role = "user" =>
                        \/ \E k \in DOMAIN store'[id] : store'[id][k].q = s[n].q /\ store'[id][k].role = "assistant"
                        \/ \E d \in chats' : d.q = s[n].q /\ d.id = id /\ d.stored
          BY <4>3, <4>5, <5>1, <5>3, <3>1
        <5>5. s[n].role = "assistant" =>
                        /\ \A k \in DOMAIN store'[id] :
                              store'[id][k].q = s[n].q /\ store'[id][k].role = "assistant" => k = n
                        /\ \E k \in DOMAIN store'[id] :
                              k < n /\ store'[id][k].q = s[n].q /\ store'[id][k].role = "user"
          BY <4>4, <4>5, <5>1, <5>2, <5>3, <2>4
        <5> QED BY <5>1, <5>4, <5>5
      <4>6. /\ store'[id][Len(s) + 1].role = "user"
            /\ \E d \in chats' : d.q = store'[id][Len(s) + 1].q /\ d.id = id /\ d.stored
        BY <4>1, <2>4, <2>6
      <4>7. ASSUME NEW n \in DOMAIN store'[id]
            PROVE  /\ store'[id][n].role = "user" =>
                        \/ \E k \in DOMAIN store'[id] : store'[id][k].q = store'[id][n].q /\ store'[id][k].role = "assistant"
                        \/ \E d \in chats' : d.q = store'[id][n].q /\ d.id = id /\ d.stored
                   /\ store'[id][n].role = "assistant" =>
                        /\ \A k \in DOMAIN store'[id] :
                              store'[id][k].q = store'[id][n].q /\ store'[id][k].role = "assistant" => k = n
                        /\ \E k \in DOMAIN store'[id] :
                              k < n /\ store'[id][k].q = store'[id][n].q /\ store'[id][k].role = "user"
        <5>1. CASE n \in DOMAIN s
          BY <5>1, <4>5
        <5>2. CASE n = Len(s) + 1
          BY <5>2, <4>6
        <5> QED BY <5>1, <5>2, <2>6
      <4> QED BY <3>2, <4>7 DEF Placed
    <3>3. CASE i # id
      <4>1. store'[i] = store[i] /\ Placed(i) /\ \A n \in DOMAIN store[i] : store[i][n].q # c.q
        BY <3>3, <2>12, <2>6, <2>7, <1>p
      <4> QED BY <4>1, <3>1 DEF Placed
    <3> QED BY <3>2, <3>3
  <2> QED BY <2>9, <2>10, <2>11, <2>12 DEF TalkInv
\* A call ends whose question is in no conversation.
<1>e. ASSUME NEW c \in chats, ~c.stored, chats' = chats \ {c}, UNCHANGED <<store, started, asked>>,
             bubble' \in {"ready", "waiting", "down"}
      PROVE  TalkInv'
  <2>1. TalkTypes'
    BY <1>e, <1>t DEF TalkTypes
  <2>2. (\A d, e \in chats' : d.q = e.q => d = e) /\ \A d \in chats' : d \in chats
    BY <1>e, <1>u
  <2>3. \A d \in chats : d.stored => d \in chats'
    BY <1>e
  <2> QED BY <1>e, <2>1, <2>2, <2>3, TalksRest
<1>4. ASSUME NEW c \in chats, Reply(c) PROVE TalkInv'
  <2> DEFINE m == Said(c.q, "assistant")
             id == c.id
             s == store[id]
  <2>1. /\ c.at = "model" /\ store' = [store EXCEPT ![id] = IF c.stored THEN Append(s, m) ELSE s]
        /\ chats' = chats \ {c} /\ UNCHANGED <<started, asked>> /\ bubble' \in {"ready", "waiting", "down"}
    BY <1>4, <1>t, <1>s DEF Reply, WithAnswer
  <2>2. CASE ~c.stored
    <3>1. store' = store
      BY <2>1, <2>2, <1>t
    <3> QED BY <2>1, <2>2, <3>1, <1>e
  <2>3. CASE c.stored
    <3>1. id \in Ids /\ s # Gone /\ s \in Seq(Message) /\ Holds(c)
      BY <2>3, <1>h, <1>t DEF Holds
    <3>2. m \in Message /\ m.q = c.q /\ m.role = "assistant"
      BY <1>c DEF Message, Said
    <3>3. \E n \in DOMAIN s : s[n].q = c.q /\ s[n].role = "user"
      BY <2>3, <3>1 DEF Holds
    <3>4. \A i \in Ids : store[i] # Gone => \A n \in DOMAIN store[i] : store[i][n].q = c.q => i = id /\ store[i][n].role = "user"
      BY <3>1 DEF Holds
    <3>5. Placed(id)
      BY <3>1, <1>p
    <3> HIDE DEF m
    <3>6. /\ store' \in [Ids -> Seq(Message) \cup {Gone}] /\ store'[id] # Gone
          /\ DOMAIN store'[id] = DOMAIN s \cup {Len(s) + 1} /\ Len(s) + 1 \notin DOMAIN s
          /\ store'[id][Len(s) + 1] = m /\ \A n \in DOMAIN s : store'[id][n] = s[n] /\ n < Len(s) + 1
          /\ \A i \in Ids \ {id} : store'[i] = store[i]
      <4>1. store' = [store EXCEPT ![id] = Append(s, m)]
        BY <2>1, <2>3
      <4> QED BY <3>1, <3>2, <4>1, <1>g
    <3>7. \A d \in chats : d.q # c.q => d \in chats'
      BY <2>1
    <3>8. \A d \in chats' : d \in chats /\ d.q # c.q
      BY <2>1, <1>u
    <3>9. TalkTypes'
      <4>1. ASSUME NEW i \in Ids, store'[i] # Gone, NEW n \in DOMAIN store'[i] PROVE store'[i][n].q \in 1..asked
        <5>1. CASE i = id
          BY <4>1, <5>1, <3>1, <3>2, <3>6, <1>t
        <5>2. CASE i # id
          BY <4>1, <5>2, <3>6, <1>t
        <5> QED BY <5>1, <5>2
      <4> QED BY <4>1, <2>1, <3>6, <1>t DEF TalkTypes
    <3>10. ASSUME NEW d \in chats' PROVE Holds(d)'
      <4>1. d \in chats /\ d.q # c.q /\ Holds(d)
        BY <3>8, <1>h
      <4>2. ASSUME d.stored
            PROVE  /\ d.at = "model" /\ d.id \in Ids /\ store'[d.id] # Gone
                   /\ \E n \in DOMAIN store'[d.id] : store'[d.id][n].q = d.q /\ store'[d.id][n].role = "user"
        <5>1. d.at = "model" /\ d.id \in Ids /\ store[d.id] # Gone
          BY <4>1, <4>2 DEF Holds
        <5>2. PICK n \in DOMAIN store[d.id] : store[d.id][n].q = d.q /\ store[d.id][n].role = "user"
          BY <4>1, <4>2 DEF Holds
        <5>3. CASE d.id = id
          <6>1. n \in DOMAIN s /\ n \in DOMAIN store'[id] /\ store'[id][n] = s[n]
            BY <5>2, <5>3, <3>6
          <6> QED BY <5>1, <5>2, <5>3, <6>1, <3>6
        <5>4. CASE d.id # id
          BY <5>1, <5>2, <5>4, <3>6
        <5> QED BY <5>3, <5>4
      <4>3. ASSUME NEW i \in Ids, store'[i] # Gone, NEW n \in DOMAIN store'[i], store'[i][n].q = d.q
            PROVE  d.stored /\ d.id = i /\ store'[i][n].role = "user"
        <5>1. CASE i = id
          <6>1. n \in DOMAIN s /\ store'[id][n] = s[n]
            BY <4>3, <5>1, <4>1, <3>2, <3>6
          <6> QED BY <4>1, <4>3, <5>1, <6>1, <3>1 DEF Holds
        <5>2. CASE i # id
          BY <4>1, <4>3, <5>2, <3>6 DEF Holds
        <5> QED BY <5>1, <5>2
      <4> QED BY <4>2, <4>3 DEF Holds
    <3>11. ASSUME NEW i \in Ids, store'[i] # Gone PROVE Placed(i)'
      <4>1. CASE i = id
        <5>1. \A k \in DOMAIN store'[id] : (k \in DOMAIN s /\ store'[id][k] = s[k]) \/ (k = Len(s) + 1 /\ store'[id][k] = m)
          BY <3>6
        <5>2. \A k \in DOMAIN s : k \in DOMAIN store'[id] /\ store'[id][k] = s[k] /\ k < Len(s) + 1
          BY <3>6
        <5>3. Len(s) + 1 \in DOMAIN store'[id] /\ store'[id][Len(s) + 1] = m
          BY <3>6
        <5>4. ASSUME NEW n \in DOMAIN store'[id], store'[id][n].role = "user"
              PROVE  \/ \E k \in DOMAIN store'[id] : store'[id][k].q = store'[id][n].q /\ store'[id][k].role = "assistant"
                     \/ \E d \in chats' : d.q = store'[id][n].q /\ d.id = id /\ d.stored
          <6>1. n \in DOMAIN s /\ store'[id][n] = s[n]
            BY <5>1, <5>4, <3>2
          <6>2. CASE s[n].q = c.q
            BY <6>1, <6>2, <5>3, <3>2
          <6>3. CASE s[n].q # c.q
            <7>1. \/ \E k \in DOMAIN s : s[k].q = s[n].q /\ s[k].role = "assistant"
                  \/ \E d \in chats : d.q = s[n].q /\ d.id = id /\ d.stored
              BY <6>1, <5>4, <3>5 DEF Placed
            <7> QED BY <7>1, <6>1, <6>3, <5>2, <3>7
          <6> QED BY <6>2, <6>3
        <5>5. ASSUME NEW n \in DOMAIN store'[id], store'[id][n].role = "assistant"
              PROVE  /\ \A k \in DOMAIN store'[id] :
                              store'[id][k].q = store'[id][n].q /\ store'[id][k].role = "assistant" => k = n
                     /\ \E k \in DOMAIN store'[id] :
                              k < n /\ store'[id][k].q = store'[id][n].q /\ store'[id][k].role = "user"
          <6>1. CASE n = Len(s) + 1
            <7>1. \A k \in DOMAIN s : s[k].q = c.q => s[k].role = "user"
              BY <3>1, <3>4
            <7> QED BY <6>1, <7>1, <5>1, <5>2, <5>3, <3>2, <3>3
          <6>2. CASE n \in DOMAIN s
            <7>1. store'[id][n] = s[n] /\ s[n].role = "assistant"
              BY <6>2, <5>2, <5>5
            <7>2. s[n].q # c.q
              BY <6>2, <7>1, <3>1, <3>4
            <7>3. /\ \A k \in DOMAIN s : s[k].q = s[n].q /\ s[k].role = "assistant" => k = n
                  /\ \E k \in DOMAIN s : k < n /\ s[k].q = s[n].q /\ s[k].role = "user"
              BY <6>2, <7>1, <3>5 DEF Placed
            <7> QED BY <7>1, <7>2, <7>3, <5>1, <5>2, <3>2
          <6> QED BY <6>1, <6>2, <5>1
        <5> QED BY <4>1, <5>4, <5>5 DEF Placed
      <4>2. CASE i # id
        <5>1. store'[i] = store[i] /\ Placed(i) /\ \A n \in DOMAIN store[i] : store[i][n].q # c.q
          BY <4>2, <3>11, <3>4, <3>6, <1>p
        <5> QED BY <5>1, <3>7 DEF Placed
      <4> QED BY <4>1, <4>2
    <3>12. \A d, e \in chats' : d.q = e.q => d = e
      BY <3>8, <1>u
    <3> QED BY <3>9, <3>10, <3>11, <3>12 DEF TalkInv
  <2> QED BY <2>2, <2>3, <1>c
<1>5. ASSUME NEW c \in chats, NoOrganization(c) PROVE TalkInv'
  <2>1. /\ c.at = "organization" /\ chats' = chats \ {c} /\ UNCHANGED <<store, started, asked>>
        /\ bubble' \in {"ready", "waiting", "down"}
    BY <1>5, <1>t, <1>s DEF NoOrganization
  <2>2. ~c.stored
    BY <2>1, <1>h DEF Holds
  <2> QED BY <2>1, <2>2, <1>e
<1>6. CASE ReloadPage
  <2> DEFINE Loose(c) == [c EXCEPT !.by = "caller"]
  <2>1. bubble' = "ready" /\ UNCHANGED <<store, started, asked>> /\ chats' = {Loose(c) : c \in chats}
    BY <1>6 DEF ReloadPage
  <2>2. \A c \in chats : Loose(c) \in Chat /\ Loose(c).q = c.q /\ Loose(c).id = c.id /\ Loose(c).at = c.at /\ Loose(c).stored = c.stored
    <3> SUFFICES ASSUME NEW c \in chats
                 PROVE  Loose(c) \in Chat /\ Loose(c).q = c.q /\ Loose(c).id = c.id /\ Loose(c).at = c.at /\ Loose(c).stored = c.stored
      OBVIOUS
    <3>1. Loose(c) = [q |-> c.q, by |-> "caller", at |-> c.at, id |-> c.id, stored |-> c.stored]
      BY <1>t DEF Chat
    <3> QED BY <3>1, <1>c DEF Chat
  <2> HIDE DEF Loose
  <2>3. TalkTypes'
    BY <2>1, <2>2, <1>t DEF TalkTypes
  <2>4. \A d, e \in chats' : d.q = e.q => d = e
    BY <2>1, <2>2, <1>u
  <2> QED BY <2>1, <2>2, <2>3, <2>4, TalksRest
<1>7. CASE ClearConversation
  <2>1. PICK id \in 1..started :
            /\ store' = [store EXCEPT ![id] = Gone]
            /\ chats' = {IF c.id = id THEN [c EXCEPT !.stored = FALSE] ELSE c : c \in chats}
    BY <1>7 DEF ClearConversation
  <2> DEFINE Freed(c) == IF c.id = id THEN [c EXCEPT !.stored = FALSE] ELSE c
  <2>2. chats' = {Freed(c) : c \in chats} /\ UNCHANGED <<started, asked, bubble>>
    BY <1>7, <2>1 DEF ClearConversation
  <2>3. \A c \in chats : /\ Freed(c) \in Chat /\ Freed(c).q = c.q /\ Freed(c).id = c.id /\ Freed(c).at = c.at
                         /\ (Freed(c).stored <=> c.stored /\ c.id # id)
    <3> SUFFICES ASSUME NEW c \in chats
                 PROVE  /\ Freed(c) \in Chat /\ Freed(c).q = c.q /\ Freed(c).id = c.id /\ Freed(c).at = c.at
                        /\ (Freed(c).stored <=> c.stored /\ c.id # id)
      OBVIOUS
    <3>1. CASE c.id = id
      <4>1. Freed(c) = [q |-> c.q, by |-> c.by, at |-> c.at, id |-> c.id, stored |-> FALSE]
        BY <3>1, <1>t DEF Chat
      <4> QED BY <3>1, <4>1, <1>c DEF Chat
    <3>2. CASE c.id # id
      BY <3>2, <1>t
    <3> QED BY <3>1, <3>2
  <2> HIDE DEF Freed
  <2>4. store' \in [Ids -> Seq(Message) \cup {Gone}] /\ store'[id] = Gone /\ (\A i \in Ids \ {id} : store'[i] = store[i]) /\ id \in Ids
    BY <2>1, <1>t DEF Ids
  <2>5. TalkTypes'
    BY <2>2, <2>3, <2>4, <1>t DEF TalkTypes
  <2>6. \A d, e \in chats' : d.q = e.q => d = e
    BY <2>2, <2>3, <1>u
  <2>7. ASSUME NEW d \in chats' PROVE Holds(d)'
    <3>1. PICK c \in chats : d = Freed(c)
      BY <2>2
    <3>2. d.q = c.q /\ d.id = c.id /\ d.at = c.at /\ (d.stored <=> c.stored /\ c.id # id) /\ Holds(c)
      BY <3>1, <2>3, <1>h
    <3>3. \A i \in Ids : store'[i] # Gone => store'[i] = store[i] /\ i # id
      BY <2>4
    <3>4. ASSUME d.stored
          PROVE  /\ d.at = "model" /\ d.id \in Ids /\ store'[d.id] # Gone
                 /\ \E n \in DOMAIN store'[d.id] : store'[d.id][n].q = d.q /\ store'[d.id][n].role = "user"
      <4>1. /\ c.at = "model" /\ c.id \in Ids /\ store[c.id] # Gone
            /\ \E n \in DOMAIN store[c.id] : store[c.id][n].q = c.q /\ store[c.id][n].role = "user"
        BY <3>2, <3>4 DEF Holds
      <4>2. store'[c.id] = store[c.id]
        BY <3>2, <3>4, <4>1, <2>4
      <4> QED BY <3>2, <4>1, <4>2
    <3>5. ASSUME NEW i \in Ids, store'[i] # Gone, NEW n \in DOMAIN store'[i], store'[i][n].q = d.q
          PROVE  d.stored /\ d.id = i /\ store'[i][n].role = "user"
      BY <3>2, <3>3, <3>5 DEF Holds
    <3> QED BY <3>4, <3>5 DEF Holds
  <2>8. ASSUME NEW i \in Ids, store'[i] # Gone PROVE Placed(i)'
    <3>1. store'[i] = store[i] /\ i # id /\ Placed(i)
      BY <2>4, <2>8, <1>p
    <3>2. \A c \in chats : c.stored /\ c.id = i => Freed(c) \in chats' /\ Freed(c).q = c.q /\ Freed(c).id = i /\ Freed(c).stored
      BY <2>2, <2>3, <3>1
    <3> QED BY <3>1, <3>2 DEF Placed
  <2> QED BY <2>5, <2>6, <2>7, <2>8 DEF TalkInv
<1>8. CASE Restart
  <2>1. store' = [id \in Ids |-> Gone] /\ chats' = {} /\ UNCHANGED <<started, asked>> /\ bubble' \in {"ready", "waiting", "down"}
    BY <1>8, <1>t DEF Restart
  <2>2. TalkTypes'
    BY <2>1, <1>t DEF TalkTypes
  <2> QED BY <2>1, <2>2 DEF TalkInv
<1>9. CASE UNCHANGED assistantVars
  BY <1>9 DEF assistantVars, TalkInv, TalkTypes, Holds, Placed
<1> QED BY <1>1, <1>2, <1>3, <1>4, <1>5, <1>6, <1>7, <1>8, <1>9 DEF AssistantNext

LEMMA TalkInitially == AssistantInit => TalkInv
  BY AssistantAssumption DEF AssistantInit, TalkInv, TalkTypes

-----------------------------------------------------------------------------
(* The chat page: every stored message, once *)

Emission == [what : Asks, m : 0..MaxPosts]

\* Message m, or with 0 a request, waits in the outbox of client c.
InBox(c, m) == \E i \in DOMAIN outbox[c] : outbox[c][i].m = m
LoadInBox(c) == \E i \in DOMAIN outbox[c] : outbox[c][i].what = "load-history"

\* The history of client c's page is awaited on the connection the page has.
LoadPending(c) ==
    \/ LoadInBox(c)
    \/ \E h \in Handlers : onConn[h] = conn[c] /\ task[h] \in {"load-history", "read", "emit"}

ServerTypes ==
    /\ insiders \subseteq Clients /\ shut \subseteq Clients /\ adrift \subseteq Clients
    /\ holder \in Seq(Clients) /\ conn \in [Clients -> 0..Len(holder)]
    /\ verifying \cup known \cup inRoom \cup endedEarly \subseteq 1..Len(holder)
    /\ \A n \in inRoom : holder[n] \in insiders
    /\ \A c \in Clients : conn[c] # 0 => holder[conn[c]] = c

PageTypes ==
    /\ outbox \in [Clients -> Seq(Emission)]
    /\ \A c \in Clients : \A i \in DOMAIN outbox[c] : outbox[c][i].what = "chat-message" <=> outbox[c][i].m # 0
    /\ shown \in [Clients -> BOOLEAN] /\ view \in [Clients -> [Posts -> Nat]] /\ visits \in Nat
    /\ crossed \in [Clients -> SUBSET Posts]

HandlerTypes ==
    /\ task \in [Handlers -> Asks \cup {"idle", "create", "cast", "read", "emit"}]
    /\ onConn \in [Handlers -> 0..Len(holder)] /\ post \in [Handlers -> 0..MaxPosts]
    /\ got \in [Handlers -> SUBSET Posts]
    /\ \A h \in Handlers : /\ onConn[h] = 0 <=> task[h] = "idle"
                           /\ post[h] # 0 <=> task[h] \in {"chat-message", "create", "cast"}

\* A message is sent, and stored, under a number that was given out, and waits in
\* one place.
MessageTypes ==
    /\ sent \in 0..MaxPosts /\ chatLog \in Seq(Posts) /\ stored \subseteq 1..sent
    /\ \A h \in Handlers : post[h] \in 0..sent
    /\ \A c \in Clients, m \in Nat : InBox(c, m) => m \in 0..sent

Once ==
    /\ \A c \in Clients : \A i, j \in DOMAIN outbox[c] :
            outbox[c][i].m = outbox[c][j].m /\ outbox[c][i].m # 0 => i = j
    /\ \A c, d \in Clients, m \in Posts : InBox(c, m) /\ InBox(d, m) => c = d
    /\ \A c \in Clients, m \in Posts : InBox(c, m) => \A h \in Handlers : post[h] # m
    /\ \A g, h \in Handlers : post[h] # 0 /\ post[g] = post[h] => g = h

\* A message is stored when it is broadcast, not before, or may be missed.
Fate ==
    /\ \A c \in Clients, m \in Posts : InBox(c, m) => m \notin stored
    /\ \A h \in Handlers : task[h] \in {"chat-message", "create"} => post[h] \notin stored
    /\ \A h \in Handlers : task[h] = "cast" => post[h] \in stored \/ \A c \in Clients : post[h] \in crossed[c]

\* What is under way while a page is filled may be missed, or listed twice.
CrossedInTime == \A c \in Clients : Filling(c) => OnTheirWay \subseteq crossed[c]

\* The rows that were read for a page are all there are, but for older ones.
ReadsRight ==
    /\ \A h \in Handlers : got[h] \subseteq stored
    /\ \A h \in Handlers : task[h] = "emit" /\ holder[onConn[h]] \in insiders =>
        \A m \in stored \ crossed[holder[onConn[h]]] : m \in got[h] \cup Older

\* A page lists what has a row, but for what it may miss or list twice.
ListHasRows == \A c \in Clients, m \in Posts : view[c][m] # 0 => m \in stored \cup crossed[c]

\* A page that has its history and gets, or will get, the broadcasts.
PageFilled(c) == /\ shown[c] /\ c \notin adrift /\ c \in insiders /\ ~LoadPending(c)
             /\ (Filling(c) \/ conn[c] \in inRoom)

ListsRight(c, m) ==
    IF m \in stored \ OnTheirWay THEN view[c][m] = 1 \/ (view[c][m] = 0 /\ m \in Older) ELSE view[c][m] = 0
ListIsRight(c) == \A m \in Posts \ crossed[c] : ListsRight(c, m)

ChatInv ==
    /\ ServerTypes /\ PageTypes /\ HandlerTypes /\ MessageTypes
    /\ Once /\ Fate /\ CrossedInTime /\ ReadsRight /\ ListHasRows
    /\ \A c \in Clients : PageFilled(c) => ListIsRight(c)

LEMMA LogStays == UNCHANGED chatLog => UNCHANGED <<stored, Older>>
<1> SUFFICES ASSUME UNCHANGED chatLog PROVE UNCHANGED <<stored, Older>>
  OBVIOUS
<1>1. UNCHANGED stored
  BY DEF stored
<1> QED BY <1>1 DEF Older

\* One more row: what is older is older still.
LEMMA LogGrows ==
    ASSUME NEW S, chatLog \in Seq(S), NEW m, m \notin stored, chatLog' = Append(chatLog, m)
    PROVE  stored' = stored \cup {m} /\ Older \subseteq Older'
<1>1. /\ Len(chatLog) \in Nat /\ DOMAIN chatLog = 1..Len(chatLog)
      /\ DOMAIN chatLog' = 1..(Len(chatLog) + 1) /\ Len(chatLog') = Len(chatLog) + 1
      /\ chatLog'[Len(chatLog) + 1] = m /\ \A i \in 1..Len(chatLog) : chatLog'[i] = chatLog[i]
  OBVIOUS
<1>2. stored' = stored \cup {m}
  BY <1>1 DEF stored
<1>3. ASSUME NEW k \in Older PROVE k \in Older'
  <2>1. k \in stored /\ k # m
    BY <1>3 DEF Older
  <2>2. ASSUME NEW i \in DOMAIN chatLog', i + HistoryLimit > Len(chatLog'), chatLog'[i] = k PROVE FALSE
    <3>1. i \in DOMAIN chatLog /\ chatLog[i] = k
      BY <2>1, <2>2, <1>1
    <3>2. i + HistoryLimit > Len(chatLog)
      BY <2>2, <3>1, <1>1, GateAssumption
    <3> QED BY <1>3, <3>1, <3>2 DEF Older
  <2> QED BY <2>1, <2>2, <1>2 DEF Older
<1> QED BY <1>2, <1>3

LEMMA WayOf ==
    ASSUME NEW p, NEW o
    PROVE  \A m : m \in ({p[h] : h \in Handlers} \cup {e.m : e \in UNION {{o[c][i] : i \in DOMAIN o[c]} : c \in Clients}}) \ {0}
                <=> m # 0 /\ ((\E h \in Handlers : p[h] = m) \/ \E c \in Clients : \E i \in DOMAIN o[c] : o[c][i].m = m)
  OBVIOUS

LEMMA UnderWay == \A m : m \in OnTheirWay <=> m # 0 /\ ((\E h \in Handlers : post[h] = m) \/ \E c \in Clients : InBox(c, m))
  BY WayOf DEF OnTheirWay, InBox

LEMMA UnderWayNext == \A m : m \in OnTheirWay' <=> m # 0 /\ ((\E h \in Handlers : post'[h] = m) \/ \E c \in Clients : InBox(c, m)')
  BY WayOf DEF OnTheirWay, InBox

LEMMA FillingIs ==
    \A c : Filling(c) <=> InBox(c, 0) \/ \E h \in Handlers : onConn[h] # 0 /\ holder[onConn[h]] = c /\ post[h] = 0
  BY DEF Filling, InBox

LEMMA FillingNext ==
    \A c : Filling(c)' <=> InBox(c, 0)' \/ \E h \in Handlers : onConn'[h] # 0 /\ holder'[onConn'[h]] = c /\ post'[h] = 0
  BY DEF Filling, InBox

LEMMA ChatInvSays == ChatInv => GateTypeOK /\ ViewIsHistory
<1> USE GateAssumption DEF Posts
<1> SUFFICES ASSUME ChatInv PROVE GateTypeOK /\ ViewIsHistory
  OBVIOUS
<1>1. GateTypeOK
  <2>2. stored \subseteq Posts
    BY DEF ChatInv, MessageTypes
  <2> QED BY <2>2 DEF ChatInv, Emission, ServerTypes, PageTypes, HandlerTypes, MessageTypes, GateTypeOK, Connections
<1>2. ASSUME NEW c \in Clients, shown[c], conn[c] \in inRoom, c \notin adrift, ~Filling(c),
             NEW m \in Posts \ (crossed[c] \cup OnTheirWay)
      PROVE  IF m \in stored THEN view[c][m] = 1 \/ (view[c][m] = 0 /\ m \in Older) ELSE view[c][m] = 0
  <2>1. conn[c] # 0 /\ holder[conn[c]] = c /\ c \in insiders
    BY <1>2 DEF ChatInv, ServerTypes
  <2>2. ~LoadInBox(c)
    <3>1. ASSUME NEW i \in DOMAIN outbox[c], outbox[c][i].what = "load-history" PROVE InBox(c, 0)
      <4>1. outbox[c][i] \in Emission /\ outbox[c][i].m = 0
        BY <3>1 DEF ChatInv, PageTypes
      <4> QED BY <4>1 DEF InBox
    <3> QED BY <1>2, <3>1, FillingIs DEF LoadInBox
  <2>3. \A h \in Handlers : onConn[h] = conn[c] /\ task[h] \in {"load-history", "read", "emit"} => FALSE
    BY <1>2, <2>1, FillingIs DEF ChatInv, HandlerTypes
  <2>4. PageFilled(c)
    BY <1>2, <2>1, <2>2, <2>3 DEF PageFilled, LoadPending
  <2>5. ListIsRight(c)
    BY <2>4 DEF ChatInv
  <2> QED BY <1>2, <2>5 DEF ListIsRight, ListsRight
<1> QED BY <1>1, <1>2 DEF ViewIsHistory

LEMMA ChatInitially == GateInit => ChatInv
<1> USE GateAssumption DEF Posts
<1> SUFFICES ASSUME GateInit PROVE ChatInv
  OBVIOUS
<1>1. holder = <<>> /\ Len(holder) = 0 /\ \A c \in Clients : ~shown[c] /\ outbox[c] = <<>> /\ DOMAIN outbox[c] = {} /\ conn[c] = 0
  BY DEF GateInit
<1>2. \A h \in Handlers : task[h] = "idle" /\ onConn[h] = 0 /\ post[h] = 0
  BY DEF GateInit
<1>3. \A c \in Clients : \A m : ~InBox(c, m)
  BY <1>1 DEF InBox
<1>4. \A c \in Clients : ~Filling(c) /\ ~PageFilled(c)
  <2>1. \A c \in Clients : ~InBox(c, 0) /\ ~PageFilled(c)
    BY <1>1, <1>3 DEF PageFilled
  <2> QED BY <1>2, <2>1, FillingIs
<1>5. ServerTypes
  BY <1>1 DEF GateInit, ServerTypes
<1>6. PageTypes /\ HandlerTypes
  BY <1>1, <1>2 DEF GateInit, PageTypes, HandlerTypes
<1>7. MessageTypes
  <2>1. sent = Backlog /\ chatLog = [i \in 1..Backlog |-> i] /\ Backlog \in 0..MaxPosts
    BY DEF GateInit
  <2>2. chatLog \in Seq(Posts) /\ stored \subseteq 1..Backlog
    BY <2>1 DEF stored
  <2> QED BY <1>2, <1>3, <2>1, <2>2 DEF MessageTypes
<1>8. Once /\ Fate /\ ReadsRight /\ ListHasRows
  <2>1. (\A h \in Handlers : got[h] = {}) /\ \A c \in Clients, m \in Posts : view[c][m] = 0
    BY DEF GateInit
  <2> QED BY <1>1, <1>2, <1>3, <2>1 DEF Once, Fate, ReadsRight, ListHasRows
<1> QED BY <1>4, <1>5, <1>6, <1>7, <1>8 DEF ChatInv, CrossedInTime

LEMMA ListStays ==
    ASSUME NEW c \in Clients, PageFilled(c) => ListIsRight(c), PageFilled(c)' => PageFilled(c),
           \A m \in Posts \ crossed'[c] :
                m \notin crossed[c] /\ view'[c][m] = view[c][m] /\ (m \in stored' \ OnTheirWay' <=> m \in stored \ OnTheirWay),
           Older \subseteq Older'
    PROVE  PageFilled(c)' => ListIsRight(c)'
  BY DEF ListIsRight, ListsRight

LEMMA RowsStay ==
    ASSUME ListHasRows, stored \subseteq stored', \A c \in Clients : crossed[c] \subseteq crossed'[c],
           \A c \in Clients, m \in Posts : view'[c][m] # 0 => view[c][m] # 0
    PROVE  ListHasRows'
  BY DEF ListHasRows

\* A connection ends, and with it some of what its client has emitted.
LEMMA ChatLoses ==
    ASSUME ChatInv, NEW n \in 1..Len(holder), Ends(n),
           UNCHANGED <<insiders, holder, pageVars, chatVars, handlerVars>>,
           shut' \subseteq Clients, verifying' \subseteq verifying, known' \subseteq known,
           outbox' \in [Clients -> Seq(Emission)],
           \A d \in Clients : conn[d] # n => outbox'[d] = outbox[d],
           \A d \in Clients : \E k \in Nat : \A i \in DOMAIN outbox'[d] :
                i + k \in DOMAIN outbox[d] /\ outbox'[d][i] = outbox[d][i + k]
    PROVE  ChatInv'
<1> USE DEF Posts
<1>s. ServerTypes /\ PageTypes /\ HandlerTypes /\ MessageTypes
  BY DEF ChatInv
<1>f. Once /\ Fate /\ CrossedInTime /\ ReadsRight /\ ListHasRows
  BY DEF ChatInv
<1>e. /\ conn' = [c \in Clients |-> IF conn[c] = n THEN 0 ELSE conn[c]] /\ inRoom' = inRoom \ {n}
      /\ endedEarly' = endedEarly \cup ({n} \cap (verifying \cup {onConn[h] : h \in Handlers}))
      /\ adrift' = adrift \cup {c \in Clients : conn[c] = n /\ shown[c]}
  BY DEF Ends
<1>u. UNCHANGED <<insiders, holder, shown, view, visits, sent, chatLog, stored, Older, crossed, task, onConn, post, got>>
  BY LogStays DEF pageVars, chatVars, handlerVars
<1>1. ASSUME NEW d \in Clients, NEW m, InBox(d, m)' PROVE InBox(d, m)
  BY <1>1 DEF InBox
<1>2. ASSUME NEW d \in Clients, conn[d] # n PROVE LoadInBox(d)' <=> LoadInBox(d)
  BY <1>2 DEF LoadInBox
<1>3. ServerTypes'
  <2>1. conn' \in [Clients -> 0..Len(holder)]
    BY <1>e, <1>s DEF ServerTypes
  <2>2. \A c \in Clients : conn'[c] # 0 => holder[conn'[c]] = c
    BY <1>e, <1>s DEF ServerTypes
  <2>3. endedEarly' \subseteq 1..Len(holder) /\ adrift' \subseteq Clients
    BY <1>e, <1>s DEF ServerTypes
  <2> QED BY <2>1, <2>2, <2>3, <1>e, <1>u, <1>s DEF ServerTypes
<1>4. PageTypes'
  <2>1. ASSUME NEW c \in Clients, NEW i \in DOMAIN outbox'[c]
        PROVE  outbox'[c][i].what = "chat-message" <=> outbox'[c][i].m # 0
    BY <1>s DEF PageTypes
  <2> QED BY <2>1, <1>u, <1>s DEF PageTypes
<1>5. HandlerTypes'
  BY <1>u, <1>s DEF HandlerTypes
<1>6. MessageTypes'
  BY <1>1, <1>u, <1>s DEF MessageTypes
<1>7. Once'
  <2>1. ASSUME NEW c \in Clients, NEW i \in DOMAIN outbox'[c], NEW j \in DOMAIN outbox'[c],
               outbox'[c][i].m = outbox'[c][j].m, outbox'[c][i].m # 0
        PROVE  i = j
    <3>1. PICK k \in Nat : \A l \in DOMAIN outbox'[c] : l + k \in DOMAIN outbox[c] /\ outbox'[c][l] = outbox[c][l + k]
      OBVIOUS
    <3>2. i + k = j + k
      <4> DEFINE a == i + k
                 b == j + k
      <4>1. a \in DOMAIN outbox[c] /\ b \in DOMAIN outbox[c] /\ outbox[c][a].m = outbox[c][b].m /\ outbox[c][a].m # 0
        BY <2>1, <3>1
      <4> HIDE DEF a, b
      <4>2. a = b
        BY <4>1, <1>f DEF Once
      <4> QED BY <4>2 DEF a, b
    <3>3. i \in Nat /\ j \in Nat
      <4>1. outbox'[c] \in Seq(Emission)
        OBVIOUS
      <4> QED BY <4>1
    <3> QED BY <3>2, <3>3
  <2> QED BY <2>1, <1>1, <1>u, <1>f DEF Once
<1>8. Fate'
  BY <1>1, <1>u, <1>f DEF Fate
<1>9. OnTheirWay' \subseteq OnTheirWay
  BY <1>1, <1>u, UnderWay, UnderWayNext
<1>10. CrossedInTime'
  <2>1. ASSUME NEW c \in Clients, Filling(c)' PROVE Filling(c)
    BY <2>1, <1>1, <1>u, FillingIs, FillingNext
  <2> QED BY <2>1, <1>9, <1>u, <1>f DEF CrossedInTime
<1>11. ReadsRight'
  BY <1>u, <1>f DEF ReadsRight
<1>12. ASSUME NEW c \in Clients PROVE PageFilled(c)' => ListIsRight(c)'
  <2>1. ASSUME PageFilled(c)' PROVE conn[c] # n
    BY <2>1, <1>e, <1>u DEF PageFilled
  <2>2. ASSUME PageFilled(c)' PROVE PageFilled(c)
    <3>1. conn'[c] = conn[c] /\ outbox'[c] = outbox[c]
      BY <2>1, <2>2, <1>e
    <3>2. LoadPending(c)' <=> LoadPending(c)
      BY <3>1, <2>1, <2>2, <1>2, <1>u DEF LoadPending
    <3>3. Filling(c)' => Filling(c)
      BY <1>1, <1>u, FillingIs, FillingNext
    <3> QED BY <2>2, <3>1, <3>2, <3>3, <1>e, <1>u DEF PageFilled
  <2>3. ASSUME NEW m \in Posts PROVE m \in stored \ OnTheirWay' => m \in stored \ OnTheirWay
    BY <1>u, <1>f, UnderWay, UnderWayNext DEF Fate
  <2> QED BY <2>2, <2>3, <1>9, <1>u, ListStays DEF ChatInv
<1>13. ListHasRows'
  BY <1>u, <1>f, RowsStay
<1> QED BY <1>3, <1>4, <1>5, <1>6, <1>7, <1>8, <1>10, <1>11, <1>12, <1>13 DEF ChatInv

LEMMA TailOf ==
    ASSUME NEW S, NEW s \in Seq(S), s # <<>>
    PROVE  /\ Tail(s) \in Seq(S) /\ 1 \in DOMAIN s /\ Head(s) = s[1] /\ Head(s) \in S
           /\ DOMAIN Tail(s) \subseteq Nat
           /\ \A i \in DOMAIN Tail(s) : i + 1 \in DOMAIN s /\ Tail(s)[i] = s[i + 1]
           /\ \A i \in DOMAIN s : i = 1 \/ (i - 1 \in DOMAIN Tail(s) /\ Tail(s)[i - 1] = s[i])
  OBVIOUS

\* An emission is given to a handler.
LEMMA ChatReceives ==
    ASSUME ChatInv, NEW h \in Handlers, NEW c \in Clients, Receive(h, c), conn[c] \in known
    PROVE  ChatInv'
<1> USE DEF Posts
<1>s. ServerTypes /\ PageTypes /\ HandlerTypes /\ MessageTypes
  BY DEF ChatInv
<1>f. Once /\ Fate /\ CrossedInTime /\ ReadsRight /\ ListHasRows
  BY DEF ChatInv
<1>d. PICK e : e = Head(outbox[c])
  OBVIOUS
<1>e. /\ task[h] = "idle" /\ conn[c] # 0 /\ outbox[c] # <<>> /\ outbox' = [outbox EXCEPT ![c] = Tail(@)]
      /\ task' = [task EXCEPT ![h] = e.what] /\ onConn' = [onConn EXCEPT ![h] = conn[c]] /\ post' = [post EXCEPT ![h] = e.m]
  BY <1>d DEF Receive, Stepped
<1>u. /\ UNCHANGED <<insiders, conn, holder, verifying, known, inRoom, shut, endedEarly, adrift, got>>
      /\ UNCHANGED <<shown, view, visits, sent, chatLog, stored, Older, crossed>>
  BY LogStays DEF Receive, serverVars, pageVars, chatVars
<1>t. /\ Tail(outbox[c]) \in Seq(Emission) /\ 1 \in DOMAIN outbox[c] /\ e = outbox[c][1] /\ e \in Emission
      /\ DOMAIN Tail(outbox[c]) \subseteq Nat
      /\ \A i \in DOMAIN Tail(outbox[c]) : i + 1 \in DOMAIN outbox[c] /\ Tail(outbox[c])[i] = outbox[c][i + 1]
      /\ \A i \in DOMAIN outbox[c] : i = 1 \/ (i - 1 \in DOMAIN Tail(outbox[c]) /\ Tail(outbox[c])[i - 1] = outbox[c][i])
  BY <1>d, <1>e, <1>s, TailOf DEF PageTypes
<1>m. e.what \in Asks /\ e.m \in 0..MaxPosts /\ (e.what = "chat-message" <=> e.m # 0) /\ InBox(c, e.m)
  BY <1>t, <1>s DEF Emission, PageTypes, InBox
<1>o. outbox'[c] = Tail(outbox[c]) /\ \A d \in Clients \ {c} : outbox'[d] = outbox[d]
  BY <1>e, <1>s DEF PageTypes
<1>h. /\ task[h] = "idle" /\ onConn[h] = 0 /\ post[h] = 0 /\ task'[h] = e.what /\ onConn'[h] = conn[c] /\ post'[h] = e.m
      /\ \A g \in Handlers \ {h} : task'[g] = task[g] /\ onConn'[g] = onConn[g] /\ post'[g] = post[g]
      /\ holder[conn[c]] = c
  BY <1>e, <1>s DEF HandlerTypes, ServerTypes
<1>1. ASSUME NEW d \in Clients, NEW m, InBox(d, m)' PROVE InBox(d, m)
  <2>1. CASE d = c
    BY <1>1, <2>1, <1>o, <1>t DEF InBox
  <2>2. CASE d # c
    BY <1>1, <2>2, <1>o DEF InBox
  <2> QED BY <2>1, <2>2
<1>2. ASSUME NEW d \in Clients, NEW m, InBox(d, m) PROVE InBox(d, m)' \/ (d = c /\ m = e.m)
  <2>1. CASE d = c
    <3>1. PICK i \in DOMAIN outbox[c] : outbox[c][i].m = m
      BY <1>2, <2>1 DEF InBox
    <3>2. CASE i = 1
      BY <3>1, <3>2, <2>1, <1>t
    <3>3. CASE i # 1
      <4>1. i - 1 \in DOMAIN outbox'[c] /\ outbox'[c][i - 1] = outbox[c][i]
        BY <3>3, <1>o, <1>t
      <4> QED BY <3>1, <4>1, <2>1 DEF InBox
    <3> QED BY <3>2, <3>3
  <2>2. CASE d # c
    BY <1>2, <2>2, <1>o DEF InBox
  <2> QED BY <2>1, <2>2
<1>3. e.m # 0 => \A d \in Clients : ~InBox(d, e.m)'
  <2> SUFFICES ASSUME e.m # 0, NEW d \in Clients, InBox(d, e.m)' PROVE FALSE
    OBVIOUS
  <2>1. d = c
    <3>1. InBox(d, e.m) /\ e.m \in Posts
      BY <1>1, <1>m
    <3> QED BY <3>1, <1>m, <1>f DEF Once
  <2>2. PICK i \in DOMAIN Tail(outbox[c]) : Tail(outbox[c])[i].m = e.m
    BY <2>1, <1>o DEF InBox
  <2> DEFINE j == i + 1
  <2>3. j \in DOMAIN outbox[c] /\ outbox[c][j].m = outbox[c][1].m /\ outbox[c][j].m # 0 /\ j # 1
    BY <2>2, <1>t
  <2> HIDE DEF j
  <2>4. j = 1
    BY <2>3, <1>t, <1>f DEF Once
  <2> QED BY <2>3, <2>4
<1>4. ASSUME NEW d \in Clients, LoadInBox(d) PROVE LoadInBox(d)' \/ (d = c /\ e.what = "load-history")
  <2>1. CASE d = c
    <3>1. PICK i \in DOMAIN outbox[c] : outbox[c][i].what = "load-history"
      BY <1>4, <2>1 DEF LoadInBox
    <3>2. CASE i = 1
      BY <3>1, <3>2, <2>1, <1>t
    <3>3. CASE i # 1
      <4>1. i - 1 \in DOMAIN outbox'[c] /\ outbox'[c][i - 1] = outbox[c][i]
        BY <3>3, <1>o, <1>t
      <4> QED BY <3>1, <4>1, <2>1 DEF LoadInBox
    <3> QED BY <3>2, <3>3
  <2>2. CASE d # c
    BY <1>4, <2>2, <1>o DEF LoadInBox
  <2> QED BY <2>1, <2>2
<1>5. OnTheirWay' = OnTheirWay
  <2>1. ASSUME NEW m, m # 0 PROVE m \in OnTheirWay' <=> m \in OnTheirWay
    <3>1. ASSUME m \in OnTheirWay' PROVE m \in OnTheirWay
      <4>1. (\E g \in Handlers : post'[g] = m) \/ \E d \in Clients : InBox(d, m)'
        BY <2>1, <3>1, UnderWayNext
      <4> QED BY <2>1, <4>1, <1>1, <1>h, <1>m, UnderWay
    <3>2. ASSUME m \in OnTheirWay PROVE m \in OnTheirWay'
      <4>1. (\E g \in Handlers \ {h} : post[g] = m) \/ \E d \in Clients : InBox(d, m)
        BY <2>1, <3>2, <1>h, UnderWay
      <4> QED BY <2>1, <4>1, <1>2, <1>h, UnderWayNext
    <3> QED BY <3>1, <3>2
  <2> QED BY <2>1, UnderWay, UnderWayNext
<1>6. ASSUME NEW d \in Clients PROVE Filling(d)' => Filling(d)
  <2> SUFFICES ASSUME Filling(d)' PROVE Filling(d)
    OBVIOUS
  <2>1. InBox(d, 0)' \/ \E g \in Handlers : onConn'[g] # 0 /\ holder[onConn'[g]] = d /\ post'[g] = 0
    BY <1>u, FillingNext
  <2> QED BY <2>1, <1>1, <1>h, <1>m, FillingIs
<1>7. ServerTypes'
  BY <1>u, <1>s DEF ServerTypes
<1>8. PageTypes'
  <2>1. outbox' \in [Clients -> Seq(Emission)]
    BY <1>e, <1>t, <1>s DEF PageTypes
  <2>2. ASSUME NEW d \in Clients, NEW i \in DOMAIN outbox'[d]
        PROVE  outbox'[d][i].what = "chat-message" <=> outbox'[d][i].m # 0
    <3>1. CASE d = c
      BY <3>1, <1>o, <1>t, <1>s DEF PageTypes
    <3>2. CASE d # c
      BY <3>2, <1>o, <1>s DEF PageTypes
    <3> QED BY <3>1, <3>2
  <2> QED BY <2>1, <2>2, <1>u, <1>s DEF PageTypes
<1>9. HandlerTypes'
  <2>1. task' \in [Handlers -> Asks \cup {"idle", "create", "cast", "read", "emit"}]
    BY <1>e, <1>m, <1>s DEF HandlerTypes
  <2>2. onConn' \in [Handlers -> 0..Len(holder)] /\ post' \in [Handlers -> 0..MaxPosts]
    BY <1>e, <1>m, <1>s DEF HandlerTypes, ServerTypes
  <2>3. ASSUME NEW g \in Handlers
        PROVE  /\ onConn'[g] = 0 <=> task'[g] = "idle"
               /\ post'[g] # 0 <=> task'[g] \in {"chat-message", "create", "cast"}
    <3>1. CASE g = h
      BY <3>1, <1>h, <1>m, <1>e DEF Asks
    <3>2. CASE g # h
      BY <3>2, <1>h, <1>s DEF HandlerTypes
    <3> QED BY <3>1, <3>2
  <2> QED BY <2>1, <2>2, <2>3, <1>u, <1>s DEF HandlerTypes
<1>10. MessageTypes'
  BY <1>1, <1>u, <1>h, <1>m, <1>s DEF MessageTypes
<1>11. Once'
  <2>1. ASSUME NEW d \in Clients, NEW i \in DOMAIN outbox'[d], NEW j \in DOMAIN outbox'[d],
               outbox'[d][i].m = outbox'[d][j].m, outbox'[d][i].m # 0
        PROVE  i = j
    <3>1. CASE d = c
      <4> DEFINE a == i + 1
                 b == j + 1
      <4>1. a \in DOMAIN outbox[c] /\ b \in DOMAIN outbox[c] /\ outbox[c][a].m = outbox[c][b].m /\ outbox[c][a].m # 0
        BY <2>1, <3>1, <1>o, <1>t
      <4> HIDE DEF a, b
      <4>2. a = b
        BY <4>1, <1>f DEF Once
      <4> QED BY <4>2, <3>1, <1>o, <1>t DEF a, b
    <3>2. CASE d # c
      BY <2>1, <3>2, <1>o, <1>f DEF Once
    <3> QED BY <3>1, <3>2
  <2>2. ASSUME NEW d \in Clients, NEW m \in Posts, InBox(d, m)', NEW g \in Handlers PROVE post'[g] # m
    <3>1. InBox(d, m) /\ m # 0
      BY <2>2, <1>1
    <3>2. CASE g = h
      BY <2>2, <3>1, <3>2, <1>3, <1>h
    <3>3. CASE g # h
      BY <3>1, <3>3, <1>h, <1>f DEF Once
    <3> QED BY <3>2, <3>3
  <2>4. ASSUME NEW g \in Handlers, NEW k \in Handlers, post'[k] # 0, post'[g] = post'[k] PROVE g = k
    <3>1. e.m # 0 => \A l \in Handlers : post[l] # e.m
      BY <1>m, <1>f DEF Once
    <3> QED BY <2>4, <3>1, <1>h, <1>f DEF Once
  <2>3. \A b, d \in Clients, m \in Posts : InBox(b, m)' /\ InBox(d, m)' => b = d
    BY <1>1, <1>f DEF Once
  <2> QED BY <2>1, <2>2, <2>3, <2>4 DEF Once
<1>12. Fate'
  <2>1. \A d \in Clients, m \in Posts : InBox(d, m)' => m \notin stored
    BY <1>1, <1>f DEF Fate
  <2>2. ASSUME NEW g \in Handlers
        PROVE  /\ task'[g] \in {"chat-message", "create"} => post'[g] \notin stored
               /\ task'[g] = "cast" => post'[g] \in stored \/ \A d \in Clients : post'[g] \in crossed[d]
    <3>1. CASE g = h
      <4>1. task'[g] # "cast"
        BY <3>1, <1>h, <1>m DEF Asks
      <4>2. ASSUME task'[g] \in {"chat-message", "create"} PROVE e.m \in Posts
        BY <4>2, <3>1, <1>h, <1>m DEF Asks
      <4> QED BY <3>1, <4>1, <4>2, <1>h, <1>m, <1>f DEF Fate
    <3>2. CASE g # h
      BY <3>2, <1>h, <1>f DEF Fate
    <3> QED BY <3>1, <3>2
  <2> QED BY <2>1, <2>2, <1>u DEF Fate
<1>13. CrossedInTime'
  BY <1>5, <1>6, <1>u, <1>f DEF CrossedInTime
<1>14. ReadsRight'
  <2>1. task'[h] # "emit"
    BY <1>h, <1>m DEF Asks
  <2> QED BY <2>1, <1>h, <1>u, <1>f DEF ReadsRight
<1>15. ASSUME NEW d \in Clients PROVE PageFilled(d)' => ListIsRight(d)'
  <2>1. LoadPending(d) => LoadPending(d)'
    <3>1. ASSUME LoadInBox(d) PROVE LoadPending(d)'
      BY <3>1, <1>4, <1>h, <1>u DEF LoadPending
    <3>2. ASSUME NEW g \in Handlers, onConn[g] = conn[d], task[g] \in {"load-history", "read", "emit"} PROVE LoadPending(d)'
      <4>1. g # h
        BY <3>2, <1>h
      <4> QED BY <3>2, <4>1, <1>h, <1>u DEF LoadPending
    <3> QED BY <3>1, <3>2 DEF LoadPending
  <2>2. PageFilled(d)' => PageFilled(d)
    BY <2>1, <1>6, <1>u DEF PageFilled
  <2> QED BY <2>2, <1>5, <1>u, ListStays DEF ChatInv
<1>16. ListHasRows'
  BY <1>u, <1>f, RowsStay
<1> QED BY <1>7, <1>8, <1>9, <1>10, <1>11, <1>12, <1>13, <1>14, <1>15, <1>16 DEF ChatInv

\* A handler is through with what it was given.
LEMMA ChatThrough ==
    ASSUME ChatInv, NEW h \in Handlers, Through(h), task[h] # "idle",
           UNCHANGED <<conn, holder, insiders, outbox, sent, chatLog, stored, Older>>,
           \A c \in Clients : crossed[c] \subseteq crossed'[c]
    PROVE  /\ HandlerTypes' /\ MessageTypes' /\ Once' /\ Fate' /\ CrossedInTime' /\ ReadsRight'
           /\ OnTheirWay' = OnTheirWay \ {post[h]}
           /\ \A c \in Clients :
                /\ Filling(c)' => Filling(c)
                /\ task[h] \notin {"load-history", "read", "emit"} \/ onConn[h] # conn[c] =>
                        (LoadPending(c) => LoadPending(c)')
<1> USE DEF Posts
<1>s. ServerTypes /\ PageTypes /\ HandlerTypes /\ MessageTypes
  BY DEF ChatInv
<1>f. Once /\ Fate /\ CrossedInTime /\ ReadsRight /\ ListHasRows
  BY DEF ChatInv
<1>e. /\ task' = [task EXCEPT ![h] = "idle"] /\ onConn' = [onConn EXCEPT ![h] = 0]
      /\ post' = [post EXCEPT ![h] = 0] /\ got' = [got EXCEPT ![h] = {}]
  BY DEF Through, Stepped
<1>h. /\ task'[h] = "idle" /\ onConn'[h] = 0 /\ post'[h] = 0
      /\ \A g \in Handlers \ {h} : task'[g] = task[g] /\ onConn'[g] = onConn[g] /\ post'[g] = post[g] /\ got'[g] = got[g]
      /\ got'[h] = {}
  BY <1>e, <1>s DEF HandlerTypes
<1>1. /\ \A c \in Clients : \A m : InBox(c, m)' <=> InBox(c, m)
      /\ \A c \in Clients : LoadInBox(c)' <=> LoadInBox(c)
  BY DEF InBox, LoadInBox
<1>2. HandlerTypes'
  <2>1. task' \in [Handlers -> Asks \cup {"idle", "create", "cast", "read", "emit"}]
    BY <1>e, <1>s DEF HandlerTypes
  <2>2. onConn' \in [Handlers -> 0..Len(holder)]
    BY <1>e, <1>s DEF HandlerTypes, ServerTypes
  <2>3. post' \in [Handlers -> 0..MaxPosts] /\ got' \in [Handlers -> SUBSET Posts]
    BY <1>e, <1>s, GateAssumption DEF HandlerTypes
  <2>4. ASSUME NEW g \in Handlers
        PROVE  /\ onConn'[g] = 0 <=> task'[g] = "idle"
               /\ post'[g] # 0 <=> task'[g] \in {"chat-message", "create", "cast"}
    BY <1>h, <1>s DEF HandlerTypes
  <2> QED BY <2>1, <2>2, <2>3, <2>4 DEF HandlerTypes
<1>3. MessageTypes'
  BY <1>1, <1>h, <1>s DEF MessageTypes
<1>4. Once'
  <2>1. \A g, k \in Handlers : post'[k] # 0 /\ post'[g] = post'[k] => g = k
    BY <1>h, <1>f DEF Once
  <2>2. \A c \in Clients, m \in Posts : InBox(c, m)' => \A g \in Handlers : post'[g] # m
    BY <1>1, <1>h, <1>f DEF Once
  <2> QED BY <2>1, <2>2, <1>1, <1>f DEF Once
<1>5. Fate'
  BY <1>1, <1>h, <1>f DEF Fate
<1>6. OnTheirWay' = OnTheirWay \ {post[h]}
  <2>1. ASSUME NEW m PROVE m \in OnTheirWay' <=> m \in OnTheirWay /\ m # post[h]
    <3>1. m \in OnTheirWay' <=> m # 0 /\ ((\E g \in Handlers \ {h} : post[g] = m) \/ \E c \in Clients : InBox(c, m))
      BY <1>1, <1>h, UnderWayNext
    <3>2. post[h] # 0 => ~(\E g \in Handlers \ {h} : post[g] = post[h]) /\ ~ \E c \in Clients : InBox(c, post[h])
      BY <1>f, <1>s DEF Once, HandlerTypes
    <3> QED BY <3>1, <3>2, UnderWay
  <2> QED BY <2>1
<1>7. ASSUME NEW c \in Clients
      PROVE  /\ Filling(c)' => Filling(c)
             /\ task[h] \notin {"load-history", "read", "emit"} \/ onConn[h] # conn[c] =>
                        (LoadPending(c) => LoadPending(c)')
  <2>1. Filling(c)' => Filling(c)
    BY <1>1, <1>h, FillingIs, FillingNext
  <2>2. ASSUME task[h] \notin {"load-history", "read", "emit"} \/ onConn[h] # conn[c], LoadPending(c) PROVE LoadPending(c)'
    <3>1. CASE LoadInBox(c)
      BY <3>1, <1>1 DEF LoadPending
    <3>2. ASSUME NEW g \in Handlers, onConn[g] = conn[c], task[g] \in {"load-history", "read", "emit"} PROVE LoadPending(c)'
      BY <3>2, <2>2, <1>h DEF LoadPending
    <3> QED BY <3>1, <3>2, <2>2 DEF LoadPending
  <2> QED BY <2>1, <2>2
<1>8. CrossedInTime'
  BY <1>6, <1>7, <1>f DEF CrossedInTime
<1>9. ReadsRight'
  <2>1. ASSUME NEW g \in Handlers, task'[g] = "emit" PROVE g # h /\ holder[onConn[g]] \in Clients
    <3>1. g # h /\ onConn[g] \in 0..Len(holder) /\ onConn[g] # 0
      BY <2>1, <1>h, <1>s DEF HandlerTypes
    <3> QED BY <3>1, <1>s DEF ServerTypes
  <2> QED BY <2>1, <1>h, <1>f DEF ReadsRight
<1> QED BY <1>2, <1>3, <1>4, <1>5, <1>6, <1>7, <1>8, <1>9

LEMMA ChatJoins == ASSUME ChatInv, NEW h \in Handlers, JoinChannel(h) PROVE ChatInv'
<1> USE DEF Posts
<1>s. ServerTypes /\ PageTypes /\ HandlerTypes
  BY DEF ChatInv
<1>f. ListHasRows
  BY DEF ChatInv
<1>e. /\ task[h] = "join-channel" /\ Through(h)
      /\ inRoom' = IF holder[onConn[h]] \in insiders THEN inRoom \cup {onConn[h]} ELSE inRoom
      /\ UNCHANGED <<insiders, conn, holder, verifying, known, shut, endedEarly, outbox, adrift>>
      /\ UNCHANGED <<shown, view, visits, sent, chatLog, stored, Older, crossed>>
  BY LogStays DEF JoinChannel, IsChannelMember, pageVars, chatVars
<1>t. onConn[h] \in 1..Len(holder) /\ post[h] = 0
  <2>1. onConn[h] \in 0..Len(holder) /\ onConn[h] # 0 /\ post[h] = 0
    BY <1>e, <1>s DEF HandlerTypes
  <2> QED BY <2>1, <1>s DEF ServerTypes
<1>1. /\ HandlerTypes' /\ MessageTypes' /\ Once' /\ Fate' /\ CrossedInTime' /\ ReadsRight'
      /\ OnTheirWay' = OnTheirWay \ {post[h]}
      /\ \A c \in Clients : (Filling(c)' => Filling(c)) /\ (LoadPending(c) => LoadPending(c)')
  BY <1>e, ChatThrough
<1>2. ServerTypes'
  BY <1>e, <1>t, <1>s DEF ServerTypes
<1>3. PageTypes'
  BY <1>e, <1>s DEF PageTypes
<1>4. OnTheirWay' = OnTheirWay
  BY <1>1, <1>t, UnderWay
<1>5. ASSUME NEW c \in Clients PROVE PageFilled(c)' => ListIsRight(c)'
  <2>1. ASSUME PageFilled(c)' PROVE PageFilled(c)
    <3>1. CASE Filling(c) \/ conn[c] \in inRoom
      BY <2>1, <3>1, <1>1, <1>e DEF PageFilled
    <3>2. CASE conn[c] = onConn[h]
      <4>1. holder[onConn[h]] = c
        BY <3>2, <1>t, <1>s DEF ServerTypes
      <4>2. Filling(c)
        BY <4>1, <1>t, FillingIs
      <4> QED BY <2>1, <4>2, <1>1, <1>e DEF PageFilled
    <3> QED BY <2>1, <3>1, <3>2, <1>1, <1>e DEF PageFilled
  <2> QED BY <2>1, <1>4, <1>e, ListStays DEF ChatInv
<1>6. ListHasRows'
  BY <1>e, <1>f, RowsStay
<1> QED BY <1>1, <1>2, <1>3, <1>5, <1>6 DEF ChatInv

\* A step of a handler goes on with the same connection and message.
LEMMA HandlerGoesOn ==
    ASSUME HandlerTypes, NEW h \in Handlers, NEW step, Stepped(h, step), UNCHANGED <<holder, onConn, post>>,
           got' \in [Handlers -> SUBSET Posts], step \in Asks \cup {"create", "cast", "read", "emit"}, task[h] # "idle",
           task[h] \in {"chat-message", "create", "cast"} <=> step \in {"chat-message", "create", "cast"}
    PROVE  HandlerTypes' /\ task'[h] = step /\ \A g \in Handlers \ {h} : task'[g] = task[g]
<1>1. task' = [task EXCEPT ![h] = step] /\ task' \in [Handlers -> Asks \cup {"idle", "create", "cast", "read", "emit"}]
  BY DEF Stepped, HandlerTypes
<1>2. task'[h] = step /\ \A g \in Handlers \ {h} : task'[g] = task[g]
  BY <1>1 DEF HandlerTypes
<1>3. step # "idle"
  BY DEF Asks
<1> QED BY <1>1, <1>2, <1>3 DEF HandlerTypes

LEMMA ChatChecks == ASSUME ChatInv, NEW h \in Handlers, CheckAuthor(h) PROVE ChatInv'
<1> USE DEF Posts
<1>s. ServerTypes /\ PageTypes /\ HandlerTypes /\ MessageTypes
  BY DEF ChatInv
<1>f. Once /\ Fate /\ CrossedInTime /\ ReadsRight /\ ListHasRows
  BY DEF ChatInv
<1>e. /\ task[h] = "chat-message"
      /\ UNCHANGED <<insiders, conn, holder, verifying, known, inRoom, shut, endedEarly, outbox, adrift>>
      /\ UNCHANGED <<shown, view, visits, sent, chatLog, stored, Older, crossed>>
  BY LogStays DEF CheckAuthor, serverVars, pageVars, chatVars
<1>2. ServerTypes' /\ PageTypes'
  BY <1>e, <1>s DEF ServerTypes, PageTypes
<1>5. ListHasRows'
  BY <1>e, <1>f, RowsStay
<1>3. CASE Through(h)
  <2>1. /\ HandlerTypes' /\ MessageTypes' /\ Once' /\ Fate' /\ CrossedInTime' /\ ReadsRight'
        /\ OnTheirWay' = OnTheirWay \ {post[h]}
        /\ \A c \in Clients : (Filling(c)' => Filling(c)) /\ (LoadPending(c) => LoadPending(c)')
    BY <1>3, <1>e, ChatThrough
  <2>2. post[h] \notin stored
    BY <1>e, <1>f DEF Fate
  <2>3. ASSUME NEW c \in Clients PROVE PageFilled(c)' => ListIsRight(c)'
    <3>1. PageFilled(c)' => PageFilled(c)
      BY <2>1, <1>e DEF PageFilled
    <3> QED BY <3>1, <2>1, <2>2, <1>e, ListStays DEF ChatInv
  <2> QED BY <2>1, <2>3, <1>2, <1>5 DEF ChatInv
<1>4. CASE Stepped(h, "create") /\ UNCHANGED <<onConn, post, got>>
  <2>1. HandlerTypes' /\ task'[h] = "create" /\ \A g \in Handlers \ {h} : task'[g] = task[g]
    <3>1. got' \in [Handlers -> SUBSET Posts]
      BY <1>4, <1>s DEF HandlerTypes
    <3> QED BY <1>4, <1>e, <1>s, <3>1, HandlerGoesOn
  <2>2. /\ \A c \in Clients : \A m : InBox(c, m)' <=> InBox(c, m)
        /\ \A c \in Clients : LoadInBox(c)' <=> LoadInBox(c)
    BY <1>e DEF InBox, LoadInBox
  <2>3. MessageTypes' /\ Once'
    BY <2>2, <1>4, <1>e, <1>s, <1>f DEF MessageTypes, Once
  <2>4. Fate'
    BY <2>1, <2>2, <1>4, <1>e, <1>f DEF Fate
  <2>5. OnTheirWay' = OnTheirWay /\ \A c \in Clients : Filling(c)' <=> Filling(c)
    BY <1>4, <1>e DEF OnTheirWay, Filling
  <2>6. ReadsRight'
    BY <2>1, <1>4, <1>e, <1>f DEF ReadsRight
  <2>7. ASSUME NEW c \in Clients PROVE PageFilled(c)' => ListIsRight(c)'
    <3>1. LoadPending(c) => LoadPending(c)'
      BY <2>1, <2>2, <1>4, <1>e DEF LoadPending
    <3>2. PageFilled(c)' => PageFilled(c)
      BY <3>1, <2>5, <1>e DEF PageFilled
    <3> QED BY <3>2, <2>5, <1>e, ListStays DEF ChatInv
  <2> QED BY <2>1, <2>3, <2>4, <2>5, <2>6, <2>7, <1>2, <1>5, <1>e, <1>f DEF ChatInv, CrossedInTime
<1> QED BY <1>3, <1>4 DEF CheckAuthor

LEMMA ChatStores == ASSUME ChatInv, NEW h \in Handlers, CreateMessage(h) PROVE ChatInv'
<1> USE DEF Posts
<1>s. ServerTypes /\ PageTypes /\ HandlerTypes /\ MessageTypes
  BY DEF ChatInv
<1>f. Once /\ Fate /\ CrossedInTime /\ ReadsRight /\ ListHasRows
  BY DEF ChatInv
<1>e. /\ task[h] = "create" /\ Stepped(h, "cast")
      /\ UNCHANGED <<insiders, conn, holder, verifying, known, inRoom, shut, endedEarly, outbox, adrift>>
      /\ UNCHANGED <<shown, view, visits, sent, onConn, post, got>>
  BY DEF CreateMessage, serverVars, pageVars
<1>a. post[h] \notin stored
  BY <1>e, <1>f DEF Fate
<1>c. \/ stored' = stored \cup {post[h]} /\ Older \subseteq Older' /\ chatLog' = Append(chatLog, post[h]) /\ crossed' = crossed
      \/ crossed' = [c \in Clients |-> crossed[c] \cup {post[h]}] /\ stored' = stored /\ Older' = Older /\ chatLog' = chatLog
  <2>1. chatLog \in Seq(Posts)
    BY <1>s DEF MessageTypes
  <2> QED BY <2>1, <1>a, LogGrows, LogStays DEF CreateMessage
<1>p. post[h] \in Posts /\ post[h] \in 1..sent /\ post[h] \in OnTheirWay
  <2>1. post[h] \in 0..MaxPosts /\ post[h] # 0 /\ post[h] \in 0..sent
    BY <1>e, <1>s DEF HandlerTypes, MessageTypes
  <2> QED BY <2>1, <1>s, GateAssumption, UnderWay DEF MessageTypes
<1>x. \A c \in Clients : crossed[c] \subseteq crossed'[c]
  BY <1>c
<1>1. HandlerTypes' /\ task'[h] = "cast" /\ \A g \in Handlers \ {h} : task'[g] = task[g]
  <2>1. got' \in [Handlers -> SUBSET Posts]
    BY <1>e, <1>s DEF HandlerTypes
  <2> QED BY <1>e, <1>s, <2>1, HandlerGoesOn
<1>2. /\ \A c \in Clients : \A m : InBox(c, m)' <=> InBox(c, m)
      /\ \A c \in Clients : LoadInBox(c)' <=> LoadInBox(c)
  BY <1>e DEF InBox, LoadInBox
<1>3. ServerTypes'
  BY <1>e, <1>s DEF ServerTypes
<1>4. PageTypes'
  <2>1. crossed' \in [Clients -> SUBSET Posts]
    BY <1>c, <1>p, <1>s DEF PageTypes
  <2> QED BY <2>1, <1>e, <1>s DEF PageTypes
<1>5. MessageTypes' /\ Once'
  <2>1. stored' \subseteq 1..sent
    BY <1>c, <1>p, <1>s DEF MessageTypes
  <2>2. chatLog \in Seq(Posts) /\ post[h] \in Posts
    BY <1>p, <1>s DEF MessageTypes
  <2>3. Append(chatLog, post[h]) \in Seq(Posts)
    BY <2>2
  <2>4. chatLog' \in Seq(Posts)
    BY <2>2, <2>3, <1>c
  <2> QED BY <2>1, <2>4, <1>2, <1>e, <1>s, <1>f DEF MessageTypes, Once
<1>6. Fate'
  <2>1. ASSUME NEW c \in Clients, NEW m \in Posts, InBox(c, m) PROVE m \notin stored'
    BY <2>1, <1>c, <1>f DEF Once, Fate
  <2>2. ASSUME NEW g \in Handlers, task'[g] \in {"chat-message", "create"} PROVE post[g] \notin stored'
    <3>1. g # h /\ post[g] # post[h]
      BY <2>2, <1>1, <1>p, <1>f DEF Once
    <3> QED BY <3>1, <2>2, <1>1, <1>c, <1>f DEF Fate
  <2>3. ASSUME NEW g \in Handlers, task'[g] = "cast" PROVE post[g] \in stored' \/ \A c \in Clients : post[g] \in crossed'[c]
    <3>1. CASE g = h
      BY <3>1, <1>c
    <3>2. CASE g # h
      BY <3>2, <2>3, <1>1, <1>c, <1>x, <1>f DEF Fate
    <3> QED BY <3>1, <3>2
  <2> QED BY <2>1, <2>2, <2>3, <1>2, <1>e DEF Fate
<1>7. OnTheirWay' = OnTheirWay /\ \A c \in Clients : Filling(c)' <=> Filling(c)
  BY <1>e DEF OnTheirWay, Filling
<1>8. CrossedInTime'
  BY <1>7, <1>x, <1>f DEF CrossedInTime
<1>9. ReadsRight'
  <2>1. ASSUME NEW g \in Handlers, task'[g] = "emit", holder[onConn[g]] \in insiders, NEW m \in stored' \ crossed'[holder[onConn[g]]]
        PROVE  m \in got[g] \cup Older'
    <3> DEFINE c == holder[onConn[g]]
    <3>1. c \in Clients /\ task[g] = "emit"
      BY <2>1, <1>1, <1>s DEF ServerTypes
    <3>2. Filling(c)
      <4>1. onConn[g] # 0 /\ post[g] = 0
        BY <3>1, <1>s DEF HandlerTypes
      <4> QED BY <4>1, FillingIs
    <3>3. m # post[h] /\ m \notin crossed[c]
      BY <2>1, <3>1, <3>2, <1>p, <1>x, <1>f DEF CrossedInTime
    <3> QED BY <2>1, <3>1, <3>3, <1>c, <1>f DEF ReadsRight
  <2>2. \A g \in Handlers : got'[g] \subseteq stored'
    BY <1>c, <1>e, <1>f DEF ReadsRight
  <2> QED BY <2>1, <2>2, <1>e DEF ReadsRight
<1>10. ASSUME NEW c \in Clients PROVE PageFilled(c)' => ListIsRight(c)'
  <2>1. LoadPending(c) => LoadPending(c)'
    BY <1>1, <1>2, <1>e DEF LoadPending
  <2>2. PageFilled(c)' => PageFilled(c)
    BY <2>1, <1>7, <1>e DEF PageFilled
  <2>3. stored' \ OnTheirWay' = stored \ OnTheirWay
    BY <1>7, <1>c, <1>p
  <2>4. Older \subseteq Older'
    BY <1>c
  <2> QED BY <2>2, <2>3, <2>4, <1>x, <1>e, ListStays DEF ChatInv
<1>11. ListHasRows'
  <2>1. stored \subseteq stored'
    BY <1>c
  <2> QED BY <2>1, <1>x, <1>e, <1>f, RowsStay
<1> QED BY <1>1, <1>3, <1>4, <1>5, <1>6, <1>8, <1>9, <1>10, <1>11 DEF ChatInv

LEMMA ChatCasts == ASSUME ChatInv, NEW h \in Handlers, Broadcast(h) PROVE ChatInv'
<1> USE DEF Posts
<1>s. ServerTypes /\ PageTypes /\ HandlerTypes /\ MessageTypes
  BY DEF ChatInv
<1>f. Once /\ Fate /\ CrossedInTime /\ ReadsRight /\ ListHasRows
  BY DEF ChatInv
<1>e. /\ task[h] = "cast" /\ Through(h)
      /\ view' = [c \in Clients |-> IF c \in Audience(h) THEN [view[c] EXCEPT ![post[h]] = @ + 1] ELSE view[c]]
      /\ UNCHANGED <<insiders, conn, holder, verifying, known, inRoom, shut, endedEarly, outbox, adrift>>
      /\ UNCHANGED <<shown, visits, sent, chatLog, stored, Older, crossed>>
  BY LogStays DEF Broadcast, serverVars, chatVars
<1>p. post[h] \in Posts /\ post[h] \in OnTheirWay
  <2>1. post[h] \in 0..MaxPosts /\ post[h] # 0
    BY <1>e, <1>s DEF HandlerTypes
  <2> QED BY <2>1, GateAssumption, UnderWay
<1>1. /\ HandlerTypes' /\ MessageTypes' /\ Once' /\ Fate' /\ CrossedInTime' /\ ReadsRight'
      /\ OnTheirWay' = OnTheirWay \ {post[h]}
      /\ \A c \in Clients : (Filling(c)' => Filling(c)) /\ (LoadPending(c) => LoadPending(c)')
  BY <1>e, ChatThrough
<1>2. ServerTypes'
  BY <1>e, <1>s DEF ServerTypes
<1>v. ASSUME NEW c \in Clients
      PROVE  /\ view'[c] \in [Posts -> Nat] /\ \A m \in Posts \ {post[h]} : view'[c][m] = view[c][m]
             /\ view'[c][post[h]] = IF c \in Audience(h) THEN view[c][post[h]] + 1 ELSE view[c][post[h]]
  <2>1. view[c] \in [Posts -> Nat] /\ view[c][post[h]] \in Nat
    BY <1>p, <1>s DEF PageTypes
  <2>2. view'[c] = IF c \in Audience(h) THEN [view[c] EXCEPT ![post[h]] = @ + 1] ELSE view[c]
    BY <1>e
  <2>3. CASE c \in Audience(h)
    <3>1. view'[c] = [view[c] EXCEPT ![post[h]] = view[c][post[h]] + 1]
      BY <2>2, <2>3
    <3> HIDE DEF Posts
    <3> QED BY <3>1, <2>1, <2>3, <1>p
  <2>4. CASE c \notin Audience(h)
    BY <2>1, <2>2, <2>4
  <2> QED BY <2>3, <2>4
<1>3. PageTypes'
  <2>1. view' \in [Clients -> [Posts -> Nat]]
    BY <1>e, <1>v
  <2> QED BY <2>1, <1>e, <1>s DEF PageTypes
<1>4. ASSUME NEW c \in Clients, PageFilled(c)' PROVE ListIsRight(c)'
  <2>1. PageFilled(c)
    BY <1>4, <1>1, <1>e DEF PageFilled
  <2>2. ListIsRight(c)
    BY <2>1 DEF ChatInv
  <2>3. ASSUME NEW m \in Posts \ crossed[c] PROVE ListsRight(c, m)'
    <3>1. CASE m # post[h]
      BY <3>1, <2>2, <1>v, <1>1, <1>e DEF ListIsRight, ListsRight
    <3>2. CASE m = post[h]
      <4>1. m \in stored \ OnTheirWay'
        BY <3>2, <1>1, <1>e, <1>f DEF Fate
      <4>2. view[c][m] = 0
        BY <3>2, <2>2, <1>p DEF ListIsRight, ListsRight
      <4>3. ~Filling(c)
        BY <3>2, <1>p, <1>f DEF CrossedInTime
      <4>4. c \in Audience(h)
        BY <2>1, <4>3 DEF Audience, PageFilled
      <4> QED BY <3>2, <4>1, <4>2, <4>4, <1>v, <1>e DEF ListsRight
    <3> QED BY <3>1, <3>2
  <2> QED BY <2>3, <1>e DEF ListIsRight
<1>5. ASSUME NEW c \in Clients, NEW m \in Posts, view'[c][m] # 0 PROVE m \in stored \cup crossed[c]
  <2>1. CASE m = post[h]
    BY <2>1, <1>e, <1>f DEF Fate
  <2>2. CASE m # post[h]
    BY <2>2, <1>5, <1>v, <1>f DEF ListHasRows
  <2> QED BY <2>1, <2>2
<1> QED BY <1>1, <1>2, <1>3, <1>4, <1>5, <1>e DEF ChatInv, ListHasRows

LEMMA ChatEmits == ASSUME ChatInv, NEW h \in Handlers, EmitHistory(h) PROVE ChatInv'
<1> USE DEF Posts
<1>s. ServerTypes /\ PageTypes /\ HandlerTypes /\ MessageTypes
  BY DEF ChatInv
<1>f. Once /\ Fate /\ CrossedInTime /\ ReadsRight /\ ListHasRows
  BY DEF ChatInv
<1> DEFINE c == holder[onConn[h]]
<1>e. /\ task[h] = "emit" /\ Through(h)
      /\ view' = IF conn[c] = onConn[h] /\ shown[c]
                 THEN [view EXCEPT ![c] = [m \in Posts |-> IF m \in got[h] THEN 1 ELSE 0]] ELSE view
      /\ UNCHANGED <<insiders, conn, holder, verifying, known, inRoom, shut, endedEarly, outbox, adrift>>
      /\ UNCHANGED <<shown, visits, sent, chatLog, stored, Older, crossed>>
  BY LogStays DEF EmitHistory, serverVars, chatVars
<1>p. post[h] = 0 /\ onConn[h] \in 1..Len(holder) /\ c \in Clients
  <2>1. onConn[h] \in 0..Len(holder) /\ onConn[h] # 0 /\ post[h] = 0
    BY <1>e, <1>s DEF HandlerTypes
  <2> QED BY <2>1, <1>s DEF ServerTypes
<1>1. /\ HandlerTypes' /\ MessageTypes' /\ Once' /\ Fate' /\ CrossedInTime' /\ ReadsRight'
      /\ OnTheirWay' = OnTheirWay \ {post[h]}
      /\ \A d \in Clients : (Filling(d)' => Filling(d)) /\ (onConn[h] # conn[d] => (LoadPending(d) => LoadPending(d)'))
  BY <1>e, ChatThrough
<1>2. ServerTypes'
  BY <1>e, <1>s DEF ServerTypes
<1>3. PageTypes'
  <2>1. view' \in [Clients -> [Posts -> Nat]]
    BY <1>e, <1>p, <1>s DEF PageTypes
  <2> QED BY <2>1, <1>e, <1>s DEF PageTypes
<1>4. OnTheirWay' = OnTheirWay
  BY <1>1, <1>p, UnderWay
<1>5. Filling(c)
  BY <1>p, FillingIs
<1>6. ASSUME NEW d \in Clients PROVE PageFilled(d)' => ListIsRight(d)'
  <2>1. CASE conn[d] = onConn[h] /\ shown[d]
    <3>1. d = c
      BY <2>1, <1>p, <1>s DEF ServerTypes
    <3>2. ASSUME PageFilled(d)', NEW m \in Posts \ crossed[d] PROVE ListsRight(d, m)'
      <4>1. view'[d][m] = IF m \in got[h] THEN 1 ELSE 0
        BY <2>1, <3>1, <1>e, <1>p, <1>s DEF PageTypes
      <4>2. c \in insiders
        BY <3>1, <3>2, <1>e DEF PageFilled
      <4>3. (m \in got[h] => m \in stored) /\ (m \in stored => m \in got[h] \cup Older)
        BY <3>1, <3>2, <4>2, <1>e, <1>f DEF ReadsRight
      <4>4. m \notin OnTheirWay
        BY <1>5, <1>p, <1>f, <3>1 DEF CrossedInTime
      <4> QED BY <4>1, <4>3, <4>4, <1>4, <1>e DEF ListsRight
    <3> QED BY <3>1, <3>2, <1>e DEF ListIsRight
  <2>2. CASE ~(conn[d] = onConn[h] /\ shown[d])
    <3>1. view'[d] = view[d]
      BY <2>2, <1>e, <1>p, <1>s DEF PageTypes
    <3>2. PageFilled(d)' => PageFilled(d)
      BY <2>2, <1>1, <1>e DEF PageFilled
    <3> QED BY <3>1, <3>2, <1>4, <1>e, ListStays DEF ChatInv
  <2> QED BY <2>1, <2>2
<1>7. ASSUME NEW d \in Clients, NEW m \in Posts, view'[d][m] # 0 PROVE m \in stored \cup crossed[d]
  <2>1. CASE view'[d] = view[d]
    BY <2>1, <1>7, <1>f DEF ListHasRows
  <2>2. CASE view'[d] # view[d]
    <3>1. view'[d][m] = IF m \in got[h] THEN 1 ELSE 0
      BY <2>2, <1>e, <1>p, <1>s DEF PageTypes
    <3> QED BY <3>1, <1>7, <1>f DEF ReadsRight
  <2> QED BY <2>1, <2>2
<1> QED BY <1>1, <1>2, <1>3, <1>6, <1>7, <1>e DEF ChatInv, ListHasRows

\* The check throws: nobody is answered. Where a history was asked for, the page may
\* lack all there is; and it lists nothing that is not there.
LEMMA ChatThrows == ASSUME ChatInv, NEW h \in Handlers, CheckThrows(h) PROVE ChatInv'
<1> USE DEF Posts
<1>s. ServerTypes /\ PageTypes /\ HandlerTypes /\ MessageTypes
  BY DEF ChatInv
<1>f. Once /\ Fate /\ CrossedInTime /\ ReadsRight /\ ListHasRows
  BY DEF ChatInv
<1> DEFINE c == holder[onConn[h]]
<1>e. /\ task[h] \in Asks /\ Through(h)
      /\ crossed' = IF task[h] = "load-history" THEN [crossed EXCEPT ![c] = @ \cup stored] ELSE crossed
      /\ UNCHANGED <<insiders, conn, holder, verifying, known, inRoom, shut, endedEarly, outbox, adrift>>
      /\ UNCHANGED <<shown, view, visits, sent, chatLog, stored, Older>>
  BY LogStays DEF CheckThrows, serverVars, pageVars
<1>p. task[h] # "idle" /\ onConn[h] \in 1..Len(holder) /\ c \in Clients
  <2>1. onConn[h] \in 0..Len(holder) /\ onConn[h] # 0 /\ task[h] # "idle"
    BY <1>e, <1>s DEF HandlerTypes, Asks
  <2> QED BY <2>1, <1>s DEF ServerTypes
<1>x. /\ crossed' \in [Clients -> SUBSET Posts] /\ \A d \in Clients : crossed[d] \subseteq crossed'[d]
      /\ task[h] = "load-history" => stored \subseteq crossed'[c]
  <2>1. stored \subseteq Posts
    BY <1>s, GateAssumption DEF MessageTypes
  <2> QED BY <2>1, <1>e, <1>p, <1>s DEF PageTypes
<1>1. /\ HandlerTypes' /\ MessageTypes' /\ Once' /\ Fate' /\ CrossedInTime' /\ ReadsRight'
      /\ OnTheirWay' = OnTheirWay \ {post[h]}
      /\ \A d \in Clients :
            /\ Filling(d)' => Filling(d)
            /\ task[h] # "load-history" \/ onConn[h] # conn[d] => (LoadPending(d) => LoadPending(d)')
  <2>1. task[h] # "load-history" => task[h] \notin {"load-history", "read", "emit"}
    BY <1>e DEF Asks
  <2> QED BY <2>1, <1>e, <1>p, <1>x, ChatThrough
<1>2. ServerTypes' /\ PageTypes'
  BY <1>e, <1>x, <1>s DEF ServerTypes, PageTypes
<1>3. ListHasRows'
  BY <1>e, <1>x, <1>f, RowsStay
<1>4. \A m \in stored : m \in OnTheirWay' <=> m \in OnTheirWay
  <2>1. post[h] # 0 => task[h] = "chat-message"
    BY <1>e, <1>s DEF HandlerTypes, Asks
  <2>2. task[h] = "chat-message" => post[h] \notin stored
    BY <1>f DEF Fate
  <2>3. 0 \notin stored
    BY <1>s DEF MessageTypes
  <2> QED BY <2>1, <2>2, <2>3, <1>1
<1>5. ASSUME NEW d \in Clients PROVE PageFilled(d)' => ListIsRight(d)'
  <2>1. CASE task[h] = "load-history" /\ onConn[h] = conn[d]
    <3>1. d = c
      BY <2>1, <1>p, <1>s DEF ServerTypes
    <3>2. ASSUME NEW m \in Posts \ crossed'[d] PROVE view'[d][m] = 0 /\ m \notin stored'
      BY <2>1, <3>1, <3>2, <1>e, <1>x, <1>f DEF ListHasRows
    <3> QED BY <3>2 DEF ListIsRight, ListsRight
  <2>2. CASE ~(task[h] = "load-history" /\ onConn[h] = conn[d])
    <3>1. PageFilled(d)' => PageFilled(d)
      BY <2>2, <1>1, <1>e DEF PageFilled
    <3> QED BY <3>1, <1>4, <1>e, <1>x, ListStays DEF ChatInv
  <2> QED BY <2>1, <2>2
<1> QED BY <1>1, <1>2, <1>3, <1>5 DEF ChatInv

LEMMA ChatReads == ASSUME ChatInv, NEW h \in Handlers, ReadHistory(h) PROVE ChatInv'
<1> USE DEF Posts
<1>s. ServerTypes /\ PageTypes /\ HandlerTypes /\ MessageTypes
  BY DEF ChatInv
<1>f. Once /\ Fate /\ CrossedInTime /\ ReadsRight /\ ListHasRows
  BY DEF ChatInv
<1> DEFINE c == holder[onConn[h]]
<1>e. /\ UNCHANGED <<insiders, conn, holder, verifying, known, inRoom, shut, endedEarly, outbox, adrift>>
      /\ UNCHANGED <<shown, view, visits, sent, chatLog, stored, Older, onConn, post>>
  BY LogStays DEF ReadHistory, serverVars, pageVars
<1>c. \/ /\ task[h] = "load-history" /\ c \in insiders /\ Stepped(h, "read") /\ UNCHANGED <<got, crossed>>
      \/ /\ task[h] = "load-history" /\ c \notin insiders /\ Stepped(h, "emit") /\ UNCHANGED <<got, crossed>>
      \/ /\ task[h] = "read" /\ Stepped(h, "emit") /\ got' = [got EXCEPT ![h] = stored \ Older] /\ UNCHANGED crossed
      \/ /\ task[h] = "read" /\ Stepped(h, "emit") /\ crossed' = [crossed EXCEPT ![c] = @ \cup stored] /\ UNCHANGED got
  BY DEF ReadHistory, IsChannelMember
<1>p. task[h] \in {"load-history", "read"} /\ post[h] = 0 /\ onConn[h] \in 1..Len(holder) /\ c \in Clients
  <2>1. onConn[h] \in 0..Len(holder) /\ onConn[h] # 0 /\ post[h] = 0 /\ task[h] \in {"load-history", "read"}
    BY <1>c, <1>s DEF HandlerTypes
  <2> QED BY <2>1, <1>s DEF ServerTypes
<1>g. /\ got' \in [Handlers -> SUBSET Posts] /\ \A g \in Handlers \ {h} : got'[g] = got[g]
      /\ \A g \in Handlers : got'[g] \subseteq stored
  <2>1. stored \subseteq Posts
    BY <1>s, GateAssumption DEF MessageTypes
  <2>2. got \in [Handlers -> SUBSET Posts] /\ (got' = got \/ got' = [got EXCEPT ![h] = stored \ Older])
    BY <1>c, <1>s DEF HandlerTypes
  <2>3. \A g \in Handlers : got[g] \subseteq stored
    BY <1>f DEF ReadsRight
  <2> QED BY <2>1, <2>2, <2>3
<1>x. crossed' \in [Clients -> SUBSET Posts] /\ \A d \in Clients : crossed[d] \subseteq crossed'[d]
  <2>1. stored \subseteq Posts
    BY <1>s, GateAssumption DEF MessageTypes
  <2> QED BY <2>1, <1>c, <1>p, <1>s DEF PageTypes
<1>1. PICK step \in {"read", "emit"} : Stepped(h, step)
  BY <1>c
<1>2. HandlerTypes' /\ task'[h] = step /\ \A g \in Handlers \ {h} : task'[g] = task[g]
  BY <1>1, <1>p, <1>e, <1>g, <1>s, HandlerGoesOn
<1>3. /\ \A d \in Clients : \A m : InBox(d, m)' <=> InBox(d, m)
      /\ \A d \in Clients : LoadInBox(d)' <=> LoadInBox(d)
  BY <1>e DEF InBox, LoadInBox
<1>4. ServerTypes' /\ PageTypes'
  BY <1>e, <1>x, <1>s DEF ServerTypes, PageTypes
<1>5. MessageTypes' /\ Once'
  BY <1>3, <1>e, <1>s, <1>f DEF MessageTypes, Once
<1>6. Fate'
  BY <1>1, <1>2, <1>3, <1>x, <1>e, <1>f DEF Fate
<1>7. OnTheirWay' = OnTheirWay /\ \A d \in Clients : Filling(d)' <=> Filling(d)
  BY <1>e DEF OnTheirWay, Filling
<1>8. CrossedInTime'
  BY <1>7, <1>x, <1>f DEF CrossedInTime
<1>9. ReadsRight'
  <2>1. ASSUME NEW g \in Handlers, task'[g] = "emit", holder[onConn[g]] \in insiders,
               NEW m \in stored \ crossed'[holder[onConn[g]]]
        PROVE  m \in got'[g] \cup Older
    <3>1. CASE g = h
      <4>1. task[h] = "read" /\ (got'[h] = stored \ Older \/ stored \subseteq crossed'[c])
        <5>1. Stepped(h, "read") => task'[h] = "read"
          BY <1>s DEF Stepped, HandlerTypes
        <5> QED BY <2>1, <3>1, <5>1, <1>c, <1>p, <1>s DEF HandlerTypes, PageTypes
      <4> QED BY <2>1, <3>1, <4>1
    <3>2. CASE g # h
      <4>1. task[g] = "emit" /\ got'[g] = got[g] /\ holder[onConn[g]] \in Clients
        BY <2>1, <3>2, <1>2, <1>g, <1>s DEF ServerTypes
      <4>2. m \in stored \ crossed[holder[onConn[g]]]
        BY <2>1, <4>1, <1>x
      <4> QED BY <2>1, <4>1, <4>2, <1>f DEF ReadsRight
    <3> QED BY <3>1, <3>2
  <2> QED BY <2>1, <1>e, <1>g DEF ReadsRight
<1>10. ASSUME NEW d \in Clients PROVE PageFilled(d)' => ListIsRight(d)'
  <2>1. LoadPending(d) => LoadPending(d)'
    <3>1. ASSUME NEW g \in Handlers, onConn[g] = conn[d], task[g] \in {"load-history", "read", "emit"} PROVE LoadPending(d)'
      <4>1. task'[g] \in {"load-history", "read", "emit"}
        BY <3>1, <1>1, <1>2
      <4> QED BY <3>1, <4>1, <1>e DEF LoadPending
    <3> QED BY <3>1, <1>3 DEF LoadPending
  <2>2. PageFilled(d)' => PageFilled(d)
    BY <2>1, <1>7, <1>e DEF PageFilled
  <2> QED BY <2>2, <1>7, <1>x, <1>e, ListStays DEF ChatInv
<1>11. ListHasRows'
  BY <1>e, <1>x, <1>f, RowsStay
<1> QED BY <1>2, <1>4, <1>5, <1>6, <1>8, <1>9, <1>10, <1>11 DEF ChatInv

LEMMA ChatConnects == ASSUME ChatInv, NEW c \in Clients, Connect(c) PROVE ChatInv'
<1> USE DEF Posts
<1>s. ServerTypes /\ PageTypes /\ HandlerTypes /\ MessageTypes
  BY DEF ChatInv
<1>f. Once /\ Fate /\ CrossedInTime /\ ReadsRight /\ ListHasRows
  BY DEF ChatInv
<1> DEFINE k == Len(holder) + 1
<1>e. /\ conn[c] = 0 /\ holder' = Append(holder, c) /\ conn' = [conn EXCEPT ![c] = k] /\ verifying' = verifying \cup {k}
      /\ UNCHANGED <<insiders, known, inRoom, shut, endedEarly, outbox, adrift>>
      /\ UNCHANGED <<shown, view, visits, sent, chatLog, stored, Older, crossed, task, onConn, post, got>>
  BY LogStays DEF Connect, pageVars, chatVars, handlerVars
<1>t. holder \in Seq(Clients) /\ Len(holder) \in Nat /\ conn \in [Clients -> 0..Len(holder)]
  BY <1>s DEF ServerTypes
<1>h. /\ holder' \in Seq(Clients) /\ Len(holder') = k /\ holder'[k] = c
      /\ \A n \in 1..Len(holder) : holder'[n] = holder[n]
  BY <1>e, <1>t
<1>k. k \in Nat /\ k # 0 /\ 1..Len(holder) \subseteq 1..k /\ 0..Len(holder) \subseteq 0..k /\ k \in 1..k /\ k \notin 0..Len(holder)
  BY <1>t
<1> HIDE DEF k
<1>n. /\ conn'[c] = k /\ \A d \in Clients \ {c} : conn'[d] = conn[d]
      /\ conn' \in [Clients -> 0..k]
  BY <1>e, <1>t, <1>k
<1>o. \A h \in Handlers : onConn[h] \in 0..Len(holder)
  BY <1>s DEF HandlerTypes
<1>1. /\ \A d \in Clients : \A m : InBox(d, m)' <=> InBox(d, m)
      /\ \A d \in Clients : LoadInBox(d)' <=> LoadInBox(d)
  BY <1>e DEF InBox, LoadInBox
<1>2. ServerTypes'
  <2>1. \A n \in inRoom : holder'[n] \in insiders
    BY <1>h, <1>s DEF ServerTypes
  <2>2. verifying' \cup known' \cup inRoom' \cup endedEarly' \subseteq 1..k
    BY <1>e, <1>k, <1>s DEF ServerTypes
  <2>3. ASSUME NEW d \in Clients, conn'[d] # 0 PROVE holder'[conn'[d]] = d
    <3>1. CASE d = c
      BY <3>1, <1>n, <1>h
    <3>2. CASE d # c
      <4>1. conn'[d] = conn[d] /\ conn[d] \in 1..Len(holder)
        BY <2>3, <3>2, <1>n, <1>t
      <4> QED BY <2>3, <4>1, <1>h, <1>s DEF ServerTypes
    <3> QED BY <3>1, <3>2
  <2> QED BY <2>1, <2>2, <2>3, <1>e, <1>h, <1>n, <1>s DEF ServerTypes
<1>3. PageTypes' /\ MessageTypes' /\ Once' /\ Fate'
  BY <1>1, <1>e, <1>s, <1>f DEF PageTypes, MessageTypes, Once, Fate
<1>4. HandlerTypes'
  <2>1. onConn \in [Handlers -> 0..k]
    BY <1>k, <1>s DEF HandlerTypes
  <2> QED BY <2>1, <1>e, <1>h, <1>s DEF HandlerTypes
<1>5. OnTheirWay' = OnTheirWay
  BY <1>e DEF OnTheirWay
<1>6. ASSUME NEW d \in Clients PROVE Filling(d)' <=> Filling(d)
  <2>1. \A h \in Handlers : onConn[h] # 0 => holder'[onConn[h]] = holder[onConn[h]]
    <3>1. \A h \in Handlers : onConn[h] # 0 => onConn[h] \in 1..Len(holder)
      BY <1>o, <1>t
    <3> QED BY <3>1, <1>h
  <2> QED BY <2>1, <1>1, <1>e, FillingIs, FillingNext
<1>7. CrossedInTime'
  BY <1>5, <1>6, <1>e, <1>f DEF CrossedInTime
<1>8. ReadsRight'
  <2>1. \A h \in Handlers : task[h] = "emit" => holder'[onConn[h]] = holder[onConn[h]]
    <3>1. \A h \in Handlers : task[h] = "emit" => onConn[h] # 0
      BY <1>s DEF HandlerTypes
    <3>2. \A h \in Handlers : onConn[h] # 0 => onConn[h] \in 1..Len(holder)
      BY <1>o, <1>t
    <3> QED BY <3>1, <3>2, <1>h
  <2> QED BY <2>1, <1>e, <1>f DEF ReadsRight
<1>9. ASSUME NEW d \in Clients PROVE PageFilled(d)' => ListIsRight(d)'
  <2>1. conn[d] = 0 => \A h \in Handlers : onConn[h] = conn[d] => task[h] = "idle"
    BY <1>s DEF HandlerTypes
  <2>2. LoadPending(d) => LoadPending(d)'
    <3>1. CASE d = c
      BY <3>1, <2>1, <1>1, <1>e DEF LoadPending
    <3>2. CASE d # c
      BY <3>2, <1>1, <1>n, <1>e DEF LoadPending
    <3> QED BY <3>1, <3>2
  <2>3. conn'[d] \in inRoom => conn[d] \in inRoom
    <3>1. k \notin inRoom
      BY <1>k, <1>s DEF ServerTypes
    <3> QED BY <3>1, <1>n
  <2>4. PageFilled(d)' => PageFilled(d)
    BY <2>2, <2>3, <1>6, <1>e DEF PageFilled
  <2> QED BY <2>4, <1>5, <1>e, ListStays DEF ChatInv
<1>10. ListHasRows'
  BY <1>e, <1>f, RowsStay
<1> QED BY <1>2, <1>3, <1>4, <1>7, <1>8, <1>9, <1>10 DEF ChatInv

\* The gateway's own books do not matter to a chat page.
LEMMA ChatIsDeaf ==
    ASSUME ChatInv, known' \cup verifying' \subseteq known \cup verifying,
           UNCHANGED <<insiders, conn, holder, inRoom, shut, endedEarly, outbox, adrift, pageVars, chatVars, handlerVars>>
    PROVE  ChatInv'
<1>e. /\ UNCHANGED <<insiders, conn, holder, inRoom, shut, endedEarly, outbox, adrift>>
      /\ UNCHANGED <<shown, view, visits, sent, chatLog, stored, Older, crossed, task, onConn, post, got>>
  BY LogStays DEF pageVars, chatVars, handlerVars
<1>1. ServerTypes'
  BY <1>e DEF ChatInv, ServerTypes
<1>2. PageTypes' /\ HandlerTypes'
  BY <1>e DEF ChatInv, PageTypes, HandlerTypes
<1>3. \A c \in Clients : \A m : InBox(c, m)' <=> InBox(c, m)
  BY <1>e DEF InBox
<1>4. MessageTypes' /\ Once' /\ Fate'
  BY <1>3, <1>e DEF ChatInv, MessageTypes, Once, Fate
<1>5. OnTheirWay' = OnTheirWay /\ \A c : Filling(c)' <=> Filling(c)
  BY <1>e DEF OnTheirWay, Filling
<1>6. CrossedInTime' /\ ReadsRight'
  BY <1>5, <1>e DEF ChatInv, CrossedInTime, ReadsRight
<1>7. ASSUME NEW c \in Clients PROVE PageFilled(c)' => ListIsRight(c)'
  <2>1. LoadPending(c)' <=> LoadPending(c)
    BY <1>e DEF LoadPending, LoadInBox
  <2>2. PageFilled(c)' => PageFilled(c)
    BY <2>1, <1>5, <1>e DEF PageFilled
  <2> QED BY <2>2, <1>5, <1>e, ListStays DEF ChatInv
<1>8. ListHasRows'
  BY <1>e, RowsStay DEF ChatInv
<1> QED BY <1>1, <1>2, <1>4, <1>6, <1>7, <1>8 DEF ChatInv

LEMMA ChatCloses == ASSUME ChatInv, NEW c \in Clients, ClosePage(c) PROVE ChatInv'
<1>e. /\ shown' = [shown EXCEPT ![c] = FALSE]
      /\ view' = [view EXCEPT ![c] = [m \in Posts |-> 0]] /\ adrift' = adrift \ {c}
      /\ UNCHANGED <<insiders, conn, holder, verifying, known, inRoom, shut, endedEarly, outbox>>
      /\ UNCHANGED <<visits, sent, chatLog, stored, Older, crossed, task, onConn, post, got>>
  BY LogStays DEF ClosePage, serverVars, chatVars, handlerVars
<1>1. ServerTypes' /\ HandlerTypes'
  BY <1>e DEF ChatInv, ServerTypes, HandlerTypes
<1>2. PageTypes' /\ ~shown'[c] /\ \A d \in Clients \ {c} : shown'[d] = shown[d] /\ view'[d] = view[d]
  <2>1. [m \in Posts |-> 0] \in [Posts -> Nat]
    OBVIOUS
  <2> QED BY <1>e, <2>1 DEF ChatInv, PageTypes
<1>3. \A d \in Clients : \A m : InBox(d, m)' <=> InBox(d, m)
  BY <1>e DEF InBox
<1>4. MessageTypes' /\ Once' /\ Fate'
  BY <1>3, <1>e DEF ChatInv, MessageTypes, Once, Fate
<1>5. OnTheirWay' = OnTheirWay /\ \A d : Filling(d)' <=> Filling(d)
  BY <1>e DEF OnTheirWay, Filling
<1>6. CrossedInTime' /\ ReadsRight'
  BY <1>5, <1>e DEF ChatInv, CrossedInTime, ReadsRight
<1>7. ASSUME NEW d \in Clients PROVE PageFilled(d)' => ListIsRight(d)'
  <2>1. LoadPending(d)' <=> LoadPending(d)
    BY <1>e DEF LoadPending, LoadInBox
  <2>2. PageFilled(d)' => d # c /\ PageFilled(d)
    BY <2>1, <1>2, <1>5, <1>e DEF PageFilled
  <2>3. CASE d = c
    BY <2>2, <2>3
  <2>4. CASE d # c
    BY <2>2, <2>4, <1>2, <1>5, <1>e, ListStays DEF ChatInv
  <2> QED BY <2>3, <2>4
<1>8. ListHasRows'
  <2>1. \A d \in Clients, m \in Posts : view'[d][m] # 0 => view[d][m] # 0
    BY <1>e DEF ChatInv, PageTypes
  <2> QED BY <2>1, <1>e, RowsStay DEF ChatInv
<1> QED BY <1>1, <1>2, <1>4, <1>6, <1>7, <1>8 DEF ChatInv

\* Two more at the end.
LEMMA TwoMore ==
    ASSUME NEW S, NEW s \in Seq(S), NEW t \in Seq(S), Len(t) = 2
    PROVE  /\ DOMAIN (s \o t) = 1..(Len(s) + 2) /\ \A i \in 1..Len(s) : (s \o t)[i] = s[i]
           /\ (s \o t)[Len(s) + 1] = t[1] /\ (s \o t)[Len(s) + 2] = t[2]
<1>a. s \o t \in Seq(S) /\ Len(s \o t) = Len(s) + Len(t)
  BY ConcatProperties
<1>b. \A i \in 1 .. Len(s) + Len(t) : (s \o t)[i] = IF i <= Len(s) THEN s[i] ELSE t[i - Len(s)]
  BY ConcatProperties
<1> DEFINE u == s \o t
<1>1. /\ Len(s) \in Nat /\ u \in Seq(S) /\ Len(u) = Len(s) + 2
      /\ \A i \in 1..(Len(s) + 2) : u[i] = IF i <= Len(s) THEN s[i] ELSE t[i - Len(s)]
  <2> HIDE DEF u
  <2>1. u \in Seq(S) /\ Len(u) = Len(s) + Len(t)
    BY <1>a DEF u
  <2>2. \A i \in 1 .. Len(s) + Len(t) : u[i] = IF i <= Len(s) THEN s[i] ELSE t[i - Len(s)]
    BY <1>b DEF u
  <2> QED BY <2>1, <2>2
<1> HIDE DEF u
<1>2. DOMAIN u = 1..(Len(s) + 2)
  BY <1>1
<1>4. Len(s) + 1 \in 1..(Len(s) + 2) /\ Len(s) + 2 \in 1..(Len(s) + 2)
      /\ Len(s) + 1 - Len(s) = 1 /\ Len(s) + 2 - Len(s) = 2 /\ ~(Len(s) + 1 <= Len(s)) /\ ~(Len(s) + 2 <= Len(s))
  BY <1>1
<1>5. /\ DOMAIN u = 1..(Len(s) + 2) /\ \A i \in 1..Len(s) : u[i] = s[i]
      /\ u[Len(s) + 1] = t[1] /\ u[Len(s) + 2] = t[2]
  BY <1>1, <1>2, <1>4
<1> QED BY <1>5 DEF u

LEMMA ChatOpens == ASSUME ChatInv, NEW c \in Clients, OpenPage(c) PROVE ChatInv'
<1> USE DEF Posts
<1>s. ServerTypes /\ PageTypes /\ HandlerTypes /\ MessageTypes
  BY DEF ChatInv
<1>f. Once /\ Fate /\ CrossedInTime /\ ReadsRight /\ ListHasRows
  BY DEF ChatInv
<1> DEFINE asks == <<Request("join-channel", 0), Request("load-history", 0)>>
<1>e. /\ visits' = visits + 1 /\ shown' = [shown EXCEPT ![c] = TRUE]
      /\ view' = [view EXCEPT ![c] = [m \in Posts |-> 0]] /\ outbox' = [outbox EXCEPT ![c] = @ \o asks]
      /\ crossed' = [crossed EXCEPT ![c] = OnTheirWay \cup (IF Filling(c) THEN @ ELSE {})]
      /\ adrift' = adrift \ {c}
      /\ UNCHANGED <<insiders, conn, holder, verifying, known, inRoom, shut, endedEarly>>
      /\ UNCHANGED <<sent, chatLog, stored, Older, task, onConn, post, got>>
  BY LogStays DEF OpenPage, serverVars, handlerVars
<1>b. /\ outbox \in [Clients -> Seq(Emission)] /\ outbox[c] \in Seq(Emission) /\ Len(outbox[c]) \in Nat
  BY <1>s DEF PageTypes
<1>a. /\ asks \in Seq(Emission) /\ Len(asks) = 2
      /\ asks[1].what = "join-channel" /\ asks[1].m = 0 /\ asks[2].what = "load-history" /\ asks[2].m = 0
  BY GateAssumption DEF Emission, Request, Asks
<1> HIDE DEF asks
<1>o. /\ outbox'[c] = outbox[c] \o asks /\ outbox'[c] \in Seq(Emission)
      /\ \A d \in Clients \ {c} : outbox'[d] = outbox[d]
      /\ outbox' \in [Clients -> Seq(Emission)]
  BY <1>e, <1>a, <1>b
<1>d. /\ \A i \in DOMAIN outbox[c] : i \in DOMAIN outbox'[c] /\ outbox'[c][i] = outbox[c][i]
      /\ \A i \in DOMAIN outbox'[c] : (i \in DOMAIN outbox[c] /\ outbox'[c][i] = outbox[c][i])
                                      \/ (i = Len(outbox[c]) + 1 /\ outbox'[c][i] = asks[1])
                                      \/ (i = Len(outbox[c]) + 2 /\ outbox'[c][i] = asks[2])
      /\ Len(outbox[c]) + 2 \in DOMAIN outbox'[c] /\ outbox'[c][Len(outbox[c]) + 2] = asks[2]
  <2> DEFINE s == outbox[c]
             r == outbox'[c]
             l == Len(s)
  <2>1. /\ s \in Seq(Emission) /\ r = s \o asks /\ Len(asks) = 2 /\ asks \in Seq(Emission) /\ l \in Nat
        /\ DOMAIN s = 1..l
    BY <1>a, <1>b, <1>o
  <2> HIDE DEF s, r
  <2>2. /\ DOMAIN r = 1..(l + 2) /\ \A i \in 1..l : r[i] = s[i]
        /\ r[l + 1] = asks[1] /\ r[l + 2] = asks[2]
    BY <2>1, TwoMore
  <2> HIDE DEF l
  <2>5. /\ \A i \in DOMAIN s : i \in DOMAIN r /\ r[i] = s[i]
        /\ \A i \in DOMAIN r : (i \in DOMAIN s /\ r[i] = s[i]) \/ (i = l + 1 /\ r[i] = asks[1]) \/ (i = l + 2 /\ r[i] = asks[2])
        /\ l + 2 \in DOMAIN r /\ r[l + 2] = asks[2]
    BY <2>1, <2>2
  <2> QED BY <2>5 DEF s, r, l
<1>1. \A d \in Clients, m \in Posts : InBox(d, m)' <=> InBox(d, m)
  <2> SUFFICES ASSUME NEW d \in Clients, NEW m \in Posts PROVE InBox(d, m)' <=> InBox(d, m)
    OBVIOUS
  <2>1. CASE d = c
    <3>1. InBox(c, m)' => InBox(c, m)
      BY <1>a, <1>d DEF InBox
    <3>2. InBox(c, m) => InBox(c, m)'
      BY <1>d DEF InBox
    <3> QED BY <2>1, <3>1, <3>2
  <2>2. CASE d # c
    BY <2>2, <1>o DEF InBox
  <2> QED BY <2>1, <2>2
<1>2. LoadInBox(c)' /\ \A d \in Clients \ {c} : (LoadInBox(d)' <=> LoadInBox(d)) /\ (InBox(d, 0)' <=> InBox(d, 0))
  <2>1. LoadInBox(c)'
    BY <1>a, <1>d DEF LoadInBox
  <2> QED BY <2>1, <1>o DEF LoadInBox, InBox
<1>3. OnTheirWay' = OnTheirWay
  <2>1. \A d \in Clients, m \in Nat : InBox(d, m) => m \in 0..MaxPosts
    BY <1>s, GateAssumption DEF MessageTypes
  <2>2. ASSUME NEW d \in Clients, NEW m, InBox(d, m) PROVE m \in 0..MaxPosts
    <3>1. PICK i \in DOMAIN outbox[d] : outbox[d][i].m = m
      BY <2>2 DEF InBox
    <3>2. outbox[d][i] \in Emission
      BY <1>b
    <3> QED BY <3>1, <3>2 DEF Emission
  <2>3. ASSUME NEW d \in Clients, NEW m, InBox(d, m)' PROVE m \in 0..MaxPosts
    <3>1. PICK i \in DOMAIN outbox'[d] : outbox'[d][i].m = m
      BY <2>3 DEF InBox
    <3>2. outbox'[d][i] \in Emission
      BY <1>o
    <3> QED BY <3>1, <3>2 DEF Emission
  <2>4. ASSUME NEW d \in Clients, NEW m, m # 0 PROVE InBox(d, m)' <=> InBox(d, m)
    <3>1. InBox(d, m) \/ InBox(d, m)' => m \in Posts
      BY <2>2, <2>3, <2>4, GateAssumption
    <3> QED BY <3>1, <1>1
  <2> QED BY <2>4, <1>e, UnderWay, UnderWayNext
<1>4. \A d \in Clients \ {c} : Filling(d)' <=> Filling(d)
  BY <1>2, <1>e, FillingIs, FillingNext
<1>5. /\ crossed' \in [Clients -> SUBSET Posts] /\ OnTheirWay \subseteq crossed'[c]
      /\ (Filling(c) => crossed[c] \subseteq crossed'[c]) /\ \A d \in Clients \ {c} : crossed'[d] = crossed[d]
  <2>1. OnTheirWay \subseteq Posts
    <3> SUFFICES ASSUME NEW m \in OnTheirWay PROVE m \in Posts
      OBVIOUS
    <3>1. m # 0 /\ ((\E h \in Handlers : post[h] = m) \/ \E d \in Clients : \E i \in DOMAIN outbox[d] : outbox[d][i].m = m)
      BY UnderWay DEF InBox
    <3>2. \A d \in Clients : \A i \in DOMAIN outbox[d] : outbox[d][i].m \in 0..MaxPosts
      <4>1. \A d \in Clients : \A i \in DOMAIN outbox[d] : outbox[d][i] \in Emission
        BY <1>b
      <4> QED BY <4>1 DEF Emission
    <3>3. m \in 0..MaxPosts
      BY <3>1, <3>2, <1>s DEF HandlerTypes
    <3> QED BY <3>1, <3>3, GateAssumption
  <2> QED BY <2>1, <1>e, <1>s DEF PageTypes
<1>6. ServerTypes' /\ HandlerTypes'
  BY <1>e, <1>s DEF ServerTypes, HandlerTypes
<1>7. PageTypes'
  <2>1. shown' \in [Clients -> BOOLEAN] /\ view' \in [Clients -> [Posts -> Nat]] /\ visits' \in Nat
    BY <1>e, <1>s DEF PageTypes
  <2>2. ASSUME NEW d \in Clients, NEW i \in DOMAIN outbox'[d]
        PROVE  outbox'[d][i].what = "chat-message" <=> outbox'[d][i].m # 0
    <3>1. CASE d = c
      <4>1. CASE i \in DOMAIN outbox[c] /\ outbox'[c][i] = outbox[c][i]
        BY <3>1, <4>1, <1>s DEF PageTypes
      <4>2. CASE outbox'[c][i] \in {asks[1], asks[2]}
        <5>1. outbox'[c][i].what # "chat-message" /\ outbox'[c][i].m = 0
          BY <4>2, <1>a
        <5> QED BY <3>1, <5>1
      <4> QED BY <3>1, <4>1, <4>2, <1>d
    <3>2. CASE d # c
      BY <3>2, <1>o, <1>s DEF PageTypes
    <3> QED BY <3>1, <3>2
  <2> QED BY <2>1, <2>2, <1>o, <1>5 DEF PageTypes
<1>8. MessageTypes'
  <2>1. ASSUME NEW d \in Clients, NEW m \in Nat, InBox(d, m)' PROVE m \in 0..sent
    <3>1. m # 0 => m \in OnTheirWay
      BY <2>1, <1>3, UnderWayNext
    <3>2. m # 0 => m \in 0..sent
      BY <3>1, UnderWay, <1>s DEF MessageTypes
    <3> QED BY <3>2, <1>s DEF MessageTypes
  <2> QED BY <2>1, <1>e, <1>s DEF MessageTypes
<1>9. Once'
  <2>1. ASSUME NEW d \in Clients, NEW i \in DOMAIN outbox'[d], NEW j \in DOMAIN outbox'[d],
               outbox'[d][i].m = outbox'[d][j].m, outbox'[d][i].m # 0
        PROVE  i = j
    <3>1. CASE d = c
      BY <2>1, <3>1, <1>d, <1>a, <1>f DEF Once
    <3>2. CASE d # c
      BY <2>1, <3>2, <1>o, <1>f DEF Once
    <3> QED BY <3>1, <3>2
  <2> QED BY <2>1, <1>1, <1>e, <1>f DEF Once
<1>10. Fate'
  <2>1. ASSUME NEW h \in Handlers, task[h] = "cast" PROVE post[h] \in stored \/ \A d \in Clients : post[h] \in crossed'[d]
    <3>1. post[h] \in OnTheirWay
      BY <2>1, <1>s, UnderWay DEF HandlerTypes
    <3> QED BY <2>1, <3>1, <1>5, <1>f DEF Fate
  <2> QED BY <2>1, <1>1, <1>e, <1>f DEF Fate
<1>11. CrossedInTime'
  BY <1>3, <1>4, <1>5, <1>f DEF CrossedInTime
<1>12. ReadsRight'
  <2>1. ASSUME NEW h \in Handlers, task[h] = "emit" PROVE crossed[holder[onConn[h]]] \subseteq crossed'[holder[onConn[h]]]
    <3>1. onConn[h] \in 0..Len(holder) /\ onConn[h] # 0 /\ post[h] = 0
      BY <2>1, <1>s DEF HandlerTypes
    <3>2. onConn[h] \in 1..Len(holder)
      BY <3>1, <1>s DEF ServerTypes
    <3>3. holder[onConn[h]] \in Clients /\ Filling(holder[onConn[h]])
      BY <3>1, <3>2, <1>s, FillingIs DEF ServerTypes
    <3> QED BY <3>3, <1>5
  <2> QED BY <2>1, <1>e, <1>f DEF ReadsRight
<1>13. ASSUME NEW d \in Clients PROVE PageFilled(d)' => ListIsRight(d)'
  <2>1. CASE d = c
    <3>1. LoadPending(c)'
      BY <1>2 DEF LoadPending
    <3> QED BY <2>1, <3>1 DEF PageFilled
  <2>2. CASE d # c
    <3>1. LoadPending(d)' <=> LoadPending(d)
      BY <2>2, <1>2, <1>e DEF LoadPending
    <3>2. PageFilled(d)' => PageFilled(d)
      <4>1. (shown'[d] => shown[d]) /\ (d \in adrift <=> d \in adrift')
        BY <2>2, <1>e, <1>s DEF PageTypes
      <4> QED BY <2>2, <3>1, <4>1, <1>4, <1>e DEF PageFilled
    <3>3. view'[d] = view[d]
      BY <2>2, <1>e, <1>s DEF PageTypes
    <3> QED BY <2>2, <3>2, <3>3, <1>3, <1>5, <1>e, ListStays DEF ChatInv
  <2> QED BY <2>1, <2>2
<1>14. ListHasRows'
  <2>1. ASSUME NEW d \in Clients, NEW m \in Posts, view'[d][m] # 0 PROVE d # c /\ view[d][m] # 0
    BY <2>1, <1>e, <1>s DEF PageTypes
  <2> QED BY <2>1, <1>5, <1>e, <1>f DEF ListHasRows
<1> QED BY <1>6, <1>7, <1>8, <1>9, <1>10, <1>11, <1>12, <1>13, <1>14 DEF ChatInv

LEMMA ChatSends == ASSUME ChatInv, NEW c \in Clients, SendMessage(c) PROVE ChatInv'
<1> USE DEF Posts
<1>s. ServerTypes /\ PageTypes /\ HandlerTypes /\ MessageTypes
  BY DEF ChatInv
<1>f. Once /\ Fate /\ CrossedInTime /\ ReadsRight /\ ListHasRows
  BY DEF ChatInv
<1>i. PICK k, new : k = sent + 1 /\ new = Request("chat-message", k)
  OBVIOUS
<1>e. /\ sent < MaxPosts /\ sent' = k /\ outbox' = [outbox EXCEPT ![c] = Append(@, new)]
      /\ crossed' = [d \in Clients |-> IF Filling(d) THEN crossed[d] \cup {k} ELSE crossed[d]]
      /\ UNCHANGED <<insiders, conn, holder, verifying, known, inRoom, shut, endedEarly, adrift>>
      /\ UNCHANGED <<shown, view, visits, chatLog, stored, Older, task, onConn, post, got>>
  BY <1>i, LogStays DEF SendMessage, serverVars, pageVars, handlerVars
<1>k. /\ k \in Posts /\ k # 0 /\ k \in 0..k /\ sent \in 0..MaxPosts /\ 0..sent \subseteq 0..k /\ 1..sent \subseteq 1..k /\ k \notin 0..sent
      /\ new \in Emission /\ new.what = "chat-message" /\ new.m = k
  <2>1. sent \in 0..MaxPosts
    BY <1>s DEF MessageTypes
  <2>2. /\ k \in Posts /\ k # 0 /\ k \in 0..k /\ 0..sent \subseteq 0..k /\ 1..sent \subseteq 1..k /\ k \notin 0..sent
    BY <2>1, <1>e, <1>i, GateAssumption
  <2> QED BY <2>1, <2>2, <1>i DEF Emission, Request, Asks
<1>b. /\ outbox \in [Clients -> Seq(Emission)] /\ outbox[c] \in Seq(Emission) /\ Len(outbox[c]) \in Nat
  BY <1>s DEF PageTypes
<1>o. /\ outbox'[c] = Append(outbox[c], new) /\ outbox'[c] \in Seq(Emission)
      /\ \A d \in Clients \ {c} : outbox'[d] = outbox[d]
      /\ outbox' \in [Clients -> Seq(Emission)]
  BY <1>e, <1>k, <1>b
<1>d. /\ \A i \in DOMAIN outbox[c] : i \in DOMAIN outbox'[c] /\ outbox'[c][i] = outbox[c][i]
      /\ \A i \in DOMAIN outbox'[c] : (i \in DOMAIN outbox[c] /\ outbox'[c][i] = outbox[c][i])
                                      \/ (i = Len(outbox[c]) + 1 /\ outbox'[c][i] = new)
      /\ Len(outbox[c]) + 1 \in DOMAIN outbox'[c] /\ outbox'[c][Len(outbox[c]) + 1] = new
  BY <1>b, <1>k, <1>o
<1>1. ASSUME NEW d \in Clients, NEW m PROVE InBox(d, m)' <=> InBox(d, m) \/ (d = c /\ m = k)
  <2>1. CASE d = c
    <3>1. InBox(c, m)' => InBox(c, m) \/ m = k
      BY <1>k, <1>d DEF InBox
    <3>2. InBox(c, m) \/ m = k => InBox(c, m)'
      BY <1>k, <1>d DEF InBox
    <3> QED BY <2>1, <3>1, <3>2
  <2>2. CASE d # c
    BY <2>2, <1>o DEF InBox
  <2> QED BY <2>1, <2>2
<1>2. \A d \in Clients : LoadInBox(d) => LoadInBox(d)'
  <2> SUFFICES ASSUME NEW d \in Clients, LoadInBox(d) PROVE LoadInBox(d)'
    OBVIOUS
  <2>1. CASE d = c
    BY <2>1, <1>d DEF LoadInBox
  <2>2. CASE d # c
    BY <2>2, <1>o DEF LoadInBox
  <2> QED BY <2>1, <2>2
\* Nothing has the new number yet.
<1>n. (\A d \in Clients : ~InBox(d, k)) /\ (\A h \in Handlers : post[h] # k) /\ k \notin stored
  BY <1>k, <1>s DEF MessageTypes
<1>3. \A m : m \in OnTheirWay' <=> m \in OnTheirWay \/ m = k
  BY <1>1, <1>k, <1>e, UnderWay, UnderWayNext
<1>4. \A d \in Clients : Filling(d)' <=> Filling(d)
  <2>1. \A d \in Clients : InBox(d, 0)' <=> InBox(d, 0)
    BY <1>1, <1>k
  <2> QED BY <2>1, <1>e, FillingIs, FillingNext
<1>5. /\ crossed' \in [Clients -> SUBSET Posts]
      /\ \A d \in Clients : crossed[d] \subseteq crossed'[d] /\ (Filling(d) => k \in crossed'[d])
  BY <1>e, <1>k, <1>s DEF PageTypes
<1>6. ServerTypes' /\ HandlerTypes'
  BY <1>e, <1>s DEF ServerTypes, HandlerTypes
<1>7. PageTypes'
  <2>2. ASSUME NEW d \in Clients, NEW i \in DOMAIN outbox'[d]
        PROVE  outbox'[d][i].what = "chat-message" <=> outbox'[d][i].m # 0
    <3>1. CASE d = c
      BY <3>1, <1>d, <1>k, <1>s DEF PageTypes
    <3>2. CASE d # c
      BY <3>2, <1>o, <1>s DEF PageTypes
    <3> QED BY <3>1, <3>2
  <2> QED BY <2>2, <1>e, <1>o, <1>5, <1>s DEF PageTypes
<1>8. MessageTypes'
  <2>1. k \in 0..MaxPosts
    BY <1>k
  <2>2. \A d \in Clients, m \in Nat : InBox(d, m)' => m \in 0..k
    BY <1>1, <1>k, <1>s DEF MessageTypes
  <2>3. stored \subseteq 1..k /\ chatLog \in Seq(Posts) /\ \A h \in Handlers : post[h] \in 0..k
    BY <1>k, <1>s DEF MessageTypes
  <2> QED BY <2>1, <2>2, <2>3, <1>e DEF MessageTypes
<1>9. Once'
  <2>1. ASSUME NEW d \in Clients, NEW i \in DOMAIN outbox'[d], NEW j \in DOMAIN outbox'[d],
               outbox'[d][i].m = outbox'[d][j].m, outbox'[d][i].m # 0
        PROVE  i = j
    <3>1. CASE d = c
      <4>1. \A l \in DOMAIN outbox[c] : outbox[c][l].m # k
        BY <1>n DEF InBox
      <4> QED BY <2>1, <3>1, <4>1, <1>d, <1>k, <1>f DEF Once
    <3>2. CASE d # c
      BY <2>1, <3>2, <1>o, <1>f DEF Once
    <3> QED BY <3>1, <3>2
  <2>2. \A a, d \in Clients, m \in Posts : InBox(a, m)' /\ InBox(d, m)' => a = d
    BY <1>1, <1>n, <1>f DEF Once
  <2>3. \A d \in Clients, m \in Posts : InBox(d, m)' => \A h \in Handlers : post[h] # m
    BY <1>1, <1>n, <1>f DEF Once
  <2> QED BY <2>1, <2>2, <2>3, <1>e, <1>f DEF Once
<1>10. Fate'
  BY <1>1, <1>n, <1>5, <1>e, <1>f DEF Fate
<1>11. CrossedInTime'
  BY <1>3, <1>4, <1>5, <1>f DEF CrossedInTime
<1>12. ReadsRight'
  <2>1. ASSUME NEW h \in Handlers, task[h] = "emit" PROVE holder[onConn[h]] \in Clients
    <3>1. onConn[h] \in 0..Len(holder) /\ onConn[h] # 0
      BY <2>1, <1>s DEF HandlerTypes
    <3>2. onConn[h] \in 1..Len(holder)
      BY <3>1, <1>s DEF ServerTypes
    <3> QED BY <3>2, <1>s DEF ServerTypes
  <2> QED BY <2>1, <1>5, <1>e, <1>f DEF ReadsRight
<1>13. ASSUME NEW d \in Clients PROVE PageFilled(d)' => ListIsRight(d)'
  <2>1. LoadPending(d) => LoadPending(d)'
    BY <1>2, <1>e DEF LoadPending
  <2>2. PageFilled(d)' => PageFilled(d)
    BY <2>1, <1>4, <1>e DEF PageFilled
  <2>3. stored \ OnTheirWay' = stored \ OnTheirWay
    BY <1>3, <1>n
  <2> QED BY <2>2, <2>3, <1>5, <1>e, ListStays DEF ChatInv
<1>14. ListHasRows'
  BY <1>5, <1>e, <1>f, RowsStay
<1> QED BY <1>6, <1>7, <1>8, <1>9, <1>10, <1>11, <1>12, <1>13, <1>14 DEF ChatInv

LEMMA ChatStep == ChatInv /\ [GateNext]_gateVars => ChatInv'
<1> SUFFICES ASSUME ChatInv, [GateNext]_gateVars PROVE ChatInv'
  OBVIOUS
<1>t. /\ ServerTypes /\ PageTypes
      /\ conn \in [Clients -> 0..Len(holder)] /\ Len(holder) \in Nat /\ outbox \in [Clients -> Seq(Emission)]
      /\ verifying \subseteq 1..Len(holder) /\ shut \subseteq Clients
  BY DEF ChatInv, ServerTypes, PageTypes
\* An outbox is kept or is emptied.
<1>r. ASSUME NEW c \in Clients, outbox' \in {outbox, [outbox EXCEPT ![c] = <<>>]}
      PROVE  /\ outbox' \in [Clients -> Seq(Emission)]
             /\ \A d \in Clients : conn[d] # conn[c] => outbox'[d] = outbox[d]
             /\ \A d \in Clients : \E j \in Nat : \A i \in DOMAIN outbox'[d] :
                    i + j \in DOMAIN outbox[d] /\ outbox'[d][i] = outbox[d][i + j]
  <2>1. <<>> \in Seq(Emission) /\ DOMAIN <<>> = {}
    OBVIOUS
  <2>2. outbox' \in [Clients -> Seq(Emission)] /\ \A d \in Clients : outbox'[d] = outbox[d] \/ (d = c /\ outbox'[d] = <<>>)
    BY <1>r, <1>t, <2>1
  <2>3. ASSUME NEW d \in Clients PROVE \A i \in DOMAIN outbox'[d] : i + 0 \in DOMAIN outbox[d] /\ outbox'[d][i] = outbox[d][i + 0]
    <3>1. outbox[d] \in Seq(Emission) /\ DOMAIN outbox[d] = 1..Len(outbox[d]) /\ Len(outbox[d]) \in Nat
      BY <1>t
    <3> QED BY <2>1, <2>2, <3>1
  <2>4. 0 \in Nat
    OBVIOUS
  <2> QED BY <2>2, <2>3, <2>4
<1>1. ASSUME NEW c \in Clients, Lose(c) PROVE ChatInv'
  <2>1. /\ conn[c] # 0 /\ Ends(conn[c]) /\ Forget(conn[c])
        /\ UNCHANGED <<insiders, holder, verifying, shut, pageVars, chatVars, handlerVars>>
    BY <1>1 DEF Lose
  <2>2. outbox' \in {outbox, [outbox EXCEPT ![c] = <<>>]}
    BY <1>1 DEF Lose
  <2>3. conn[c] \in 1..Len(holder)
    BY <2>1, <1>t
  <2>4. known' \subseteq known
    BY <2>1 DEF Forget
  <2> QED BY <2>1, <2>2, <2>3, <2>4, <1>r, <1>t, ChatLoses
<1>2. ASSUME NEW n \in verifying, Rejected(n) PROVE ChatInv'
  <2>1. /\ Ends(n) /\ Forget(n) /\ shut' = shut \cup {c \in Clients : conn[c] = n} /\ verifying' = verifying \ {n}
        /\ UNCHANGED <<insiders, holder, outbox, pageVars, chatVars, handlerVars>>
    BY <1>2 DEF Rejected, Shut
  <2>2. ASSUME NEW d \in Clients PROVE \A i \in DOMAIN outbox'[d] : i + 0 \in DOMAIN outbox[d] /\ outbox'[d][i] = outbox[d][i + 0]
    <3>1. outbox[d] \in Seq(Emission)
      BY <1>t
    <3> QED BY <2>1, <3>1
  <2>3. known' \subseteq known /\ shut' \subseteq Clients /\ n \in 1..Len(holder) /\ 0 \in Nat
    BY <2>1, <1>t DEF Forget
  <2> QED BY <2>1, <2>2, <2>3, <1>t, ChatLoses
<1>3. ASSUME NEW h \in Handlers, NEW c \in Clients, Receive(h, c) PROVE ChatInv'
  <2>1. CASE conn[c] \in known
    BY <1>3, <2>1, ChatReceives
  <2>2. CASE conn[c] \notin known
    <3>1. /\ Ends(conn[c]) /\ Forget(conn[c]) /\ shut' = shut \cup {d \in Clients : conn[d] = conn[c]}
          /\ conn[c] # 0 /\ outbox[c] # <<>> /\ outbox' = [outbox EXCEPT ![c] = Tail(@)]
          /\ UNCHANGED <<insiders, holder, verifying, pageVars, chatVars, handlerVars>>
      BY <1>3, <2>2 DEF Receive, Shut
    <3>2. known' \subseteq known /\ shut' \subseteq Clients /\ conn[c] \in 1..Len(holder)
      BY <3>1, <1>t DEF Forget
    <3>3. /\ outbox'[c] = Tail(outbox[c]) /\ outbox[c] \in Seq(Emission) /\ outbox'[c] \in Seq(Emission)
          /\ \A i \in DOMAIN outbox'[c] : i + 1 \in DOMAIN outbox[c] /\ outbox'[c][i] = outbox[c][i + 1]
      BY <3>1, <1>t, TailOf
    <3>4. \A d \in Clients \ {c} : outbox'[d] = outbox[d]
      BY <3>1, <1>t
    <3>5. outbox' \in [Clients -> Seq(Emission)]
      BY <3>1, <3>3, <1>t
    <3>6. ASSUME NEW d \in Clients \ {c} PROVE \A i \in DOMAIN outbox'[d] : i + 0 \in DOMAIN outbox[d] /\ outbox'[d][i] = outbox[d][i + 0]
      <4>1. outbox[d] \in Seq(Emission)
        BY <1>t
      <4> QED BY <3>4, <4>1
    <3>7. \A d \in Clients : \E j \in Nat : \A i \in DOMAIN outbox'[d] :
                    i + j \in DOMAIN outbox[d] /\ outbox'[d][i] = outbox[d][i + j]
      <4>1. 0 \in Nat /\ 1 \in Nat
        OBVIOUS
      <4> QED BY <3>3, <3>6, <4>1
    <3> QED BY <3>1, <3>2, <3>4, <3>5, <3>7, ChatLoses
  <2> QED BY <2>1, <2>2
<1>4. ASSUME NEW n \in verifying, Verified(n) PROVE ChatInv'
  BY <1>4, ChatIsDeaf DEF Verified
<1>5. CASE UNCHANGED gateVars
  BY <1>5, ChatIsDeaf DEF gateVars, serverVars
<1> QED
  BY <1>1, <1>2, <1>3, <1>4, <1>5, ChatConnects, ChatOpens, ChatCloses, ChatSends, ChatJoins, ChatChecks, ChatStores,
     ChatCasts, ChatReads, ChatEmits, ChatThrows DEF GateNext

-----------------------------------------------------------------------------
(* What the screens show, in the composition *)

LEMMA ScreensInitially == ServicesInit => ChatInv /\ TalkInv /\ PaletteInv /\ ToastInv
  BY ChatInitially, TalkInitially, PaletteInitially, ToastInitially DEF ServicesInit

LEMMA ScreensStep ==
    ChatInv /\ TalkInv /\ PaletteInv /\ ToastInv /\ [ServicesNext]_<<part, servicesVars, gateVars, moreVars>> =>
        ChatInv' /\ TalkInv' /\ PaletteInv' /\ ToastInv'
<1> SUFFICES ASSUME ChatInv, TalkInv, PaletteInv, ToastInv, [ServicesNext]_<<part, servicesVars, gateVars, moreVars>>
             PROVE  ChatInv' /\ TalkInv' /\ PaletteInv' /\ ToastInv'
  OBVIOUS
<1>1. [GateNext]_gateVars
  BY DEF ServicesNext, moreVars
<1>2. [AssistantNext]_assistantVars
  BY DEF ServicesNext, moreVars
<1>3. [OverlaysNext]_overlayVars
  BY DEF ServicesNext, moreVars, officeVars, adviceVars, OverlaysNext, overlayVars
<1> QED BY <1>1, <1>2, <1>3, ChatStep, TalkStep, PaletteStep, ToastStep

\* What the screens show is so, whatever else the services do: the chat page every
\* stored message once, but for those older than a history goes back, the assistant
\* every answer after its question, the palette what its text finds, and every toast
\* until its time is over.
THEOREM ScreensTell == ServicesSpec => []ScreensAreTrue
<1>1. ChatInv /\ TalkInv /\ PaletteInv /\ ToastInv => ScreensAreTrue
  BY ChatInvSays, TalkInvSays DEF PaletteInv, ToastInv, ScreensAreTrue
<1> QED BY <1>1, ScreensInitially, ScreensStep, PTL DEF ServicesSpec

-----------------------------------------------------------------------------
(* The types of the services *)

LEMMA DocTypes == DocInv /\ DocTypeOK /\ [DocNext]_docVars => DocTypeOK'
<1> SUFFICES ASSUME DocInv, DocTypeOK, [DocNext]_docVars PROVE DocTypeOK'
  OBVIOUS
<1> USE DocumentsAssumption
<1>t. /\ written \in 0..MaxFiles /\ files \subseteq Files /\ Files = 1..MaxFiles
      /\ doc \in [version : Nat, file : 0..MaxFiles] /\ versions \subseteq [version : Nat, file : Files]
      /\ docPc \in [Uploaders -> DocSteps] /\ file \in [Uploaders -> 0..MaxFiles] /\ base \in [Uploaders -> Nat]
      /\ contents \subseteq Files /\ unheard \subseteq Files /\ excused \subseteq Files
  BY DEF DocTypeOK, Files
<1>h. \A c \in Uploaders : docPc[c] \in {"insert", "list", "replace", "undo"} => file[c] \in Files
  BY <1>t DEF DocInv, FilesAreOwned, Writing, Holding
<1>n. doc # NoDoc => doc.file \in Files
  BY <1>t DEF DocInv, DocumentHasFile
<1>1. ASSUME NEW c \in Uploaders, Upload(c) \/ NewVersion(c) PROVE DocTypeOK'
  BY <1>t, <1>1 DEF Upload, NewVersion, DocGoto, DocSteps, DocTypeOK
<1>2. ASSUME NEW c \in Uploaders, StoreFile(c) \/ StoreFails(c) PROVE DocTypeOK'
  <2>1. written + 1 \in Files /\ written' = written + 1
    BY <1>t, <1>2 DEF StoreFile, StoreFails
  <2>2. written' \in 0..MaxFiles
    BY <1>t, <2>1
  <2> QED BY <1>t, <1>2, <2>1, <2>2 DEF StoreFile, StoreFails, DocGoto, DocSteps, DocTypeOK, Files
<1>3. ASSUME NEW c \in Uploaders, DocWrite(c)
      PROVE  /\ doc' \in [version : Nat, file : 0..MaxFiles] /\ versions' \subseteq [version : Nat, file : Files]
             /\ contents' \subseteq Files /\ file[c] \in Files
  <2>1. file[c] \in Files /\ file[c] \in 0..MaxFiles /\ base[c] \in Nat /\ base[c] + 1 \in Nat /\ 1 \in Nat
    BY <1>t, <1>h, <1>3 DEF DocWrite, InsertDocument, InsertVersion, ReplaceFile
  <2>2. /\ [version |-> 1, file |-> file[c]] \in [version : Nat, file : 0..MaxFiles]
        /\ [version |-> base[c] + 1, file |-> file[c]] \in [version : Nat, file : 0..MaxFiles]
        /\ [version |-> base[c] + 1, file |-> file[c]] \in [version : Nat, file : Files]
    BY <2>1
  <2>3. contents \cup {file[c]} \subseteq Files
    BY <1>t, <2>1
  <2>4. CASE InsertDocument(c)
    BY <1>t, <2>1, <2>2, <2>3, <2>4 DEF InsertDocument
  <2>5. CASE InsertVersion(c)
    BY <1>t, <2>1, <2>2, <2>3, <2>5 DEF InsertVersion
  <2>6. CASE ReplaceFile(c)
    BY <1>t, <2>1, <2>2, <2>3, <2>6 DEF ReplaceFile
  <2> QED BY <1>3, <2>4, <2>5, <2>6 DEF DocWrite
<1>4. ASSUME NEW c \in Uploaders, WriteRow(c) PROVE DocTypeOK'
  BY <1>t, <1>3, <1>4 DEF WriteRow, DocGoto, DocSteps, DocTypeOK
<1>5. ASSUME NEW c \in Uploaders, WriteFails(c) PROVE DocTypeOK'
  BY <1>t, <1>3, <1>5 DEF WriteFails, DocGoto, DocSteps, DocTypeOK
<1>6. ASSUME NEW c \in Uploaders, Undo(c) PROVE DocTypeOK'
  BY <1>t, <1>h, <1>6 DEF Undo, DocGoto, DocSteps, DocTypeOK
<1>7. CASE DeleteDocument
  <2>1. NoDoc \in [version : Nat, file : 0..MaxFiles]
    BY DEF NoDoc
  <2> QED BY <1>t, <1>n, <1>7, <2>1 DEF DeleteDocument, callDocVars, DocTypeOK
<1>8. CASE DocCrash
  <2>1. excused' \subseteq Files
    BY <1>t, <1>h, <1>8 DEF DocCrash
  <2> QED BY <1>t, <1>8, <2>1 DEF DocCrash, DocSteps, DocTypeOK
<1>9. CASE UNCHANGED docVars
  BY <1>9, <1>t DEF docVars, callDocVars, DocTypeOK
<1> QED BY <1>1, <1>2, <1>4, <1>5, <1>6, <1>7, <1>8, <1>9 DEF DocNext

LEMMA DocTyped == DocSpec => []DocTypeOK
<1>1. DocInit => DocTypeOK
  BY DocumentsAssumption DEF DocInit, DocTypeOK, NoDoc, DocSteps
<1>2. DocInit => DocInv
  BY LeakInitially
<1> QED BY <1>1, <1>2, DocStep, DocTypes, PTL DEF DocSpec

LEMMA BillTyped == BillSpec => []BillTypeOK
<1>1. BillInit => NumberInv /\ BooksInv
  BY BooksInitially DEF BillInit, NumberInv, NumbersAreFree
<1>2. NumberInv /\ BooksInv => BillTypeOK
  <2> SUFFICES ASSUME NumberInv, BooksInv PROVE BillTypeOK
    OBVIOUS
  <2>1. amountDue \in 0..InvoiceTotal
    BY BillingAssumption DEF BooksInv, PayTypes, DueIsRight
  <2> QED BY <2>1 DEF NumberInv, BooksInv, PayTypes, BillTypeOK
<1> QED BY <1>1, <1>2, NumberStep, BooksStep, PTL DEF BillSpec

DaysInv == day > 0 /\ PlanTypeOK

LEMMA PlanTypes == PlanInv /\ PlanInv' /\ DaysInv /\ [PlanNext]_planVars => DaysInv'
<1> SUFFICES ASSUME PlanInv, PlanInv', day > 0, PlanTypeOK, [PlanNext]_planVars PROVE day' > 0 /\ PlanTypeOK'
  BY DEF DaysInv
<1> DEFINE Days == (\A i \in DOMAIN plannedOn : plannedOn[i] \in 1..day) /\ crossedDays \subseteq 1..day
           Flags == opsProject \in BOOLEAN /\ halted \in BOOLEAN /\ planHour \in BOOLEAN
           Kept == customized \in [Planners -> BOOLEAN] /\ live \in [Planners -> BOOLEAN]
<1>t. /\ day \in Nat \ {0} /\ plannedOn \in Seq(Nat)
      /\ agent.there \in BOOLEAN /\ agent.edited \in BOOLEAN /\ agent.active \in BOOLEAN
  <2>1. day \in Nat /\ plannedOn \in Seq(Nat) /\ agent \in Prompts
    BY DEF PlanInv, DayInv, PromptInv
  <2> QED BY <2>1 DEF Prompts
<1>u. Days /\ Flags /\ Kept
  BY DEF PlanTypeOK
<1> HIDE DEF Days, Flags, Kept
<1>3. \A p \in Planners : \E c \in CallKinds : \E n \in 1..(Len(c) + 1) : steps'[p] = SubSeq(c, n, Len(c))
  <2> TAKE p \in Planners
  <2>1. steps'[p] \in Left
    BY DEF PlanInv
  <2>2. PICK c \in CallKinds : steps'[p] \in {Rest(c, n) : n \in 1..(Len(c) + 1)}
    BY <2>1, Zenon DEF Left
  <2> QED BY <2>2, Zenon DEF Rest
<1>4. ASSUME day' > 0, Days', Flags', Kept' PROVE PlanTypeOK'
  BY <1>3, <1>4 DEF Days, Flags, Kept, PlanTypeOK, PlanInv, PromptInv, DayInv, Prompts
<1>k. ASSUME UNCHANGED <<day, plannedOn, crossedDays>> PROVE day' > 0 /\ Days'
  BY <1>k, <1>t, <1>u DEF Days
<1>5. ASSUME NEW p \in Planners, NEW calls, Ask(p, calls) PROVE PlanTypeOK'
  BY <1>5, <1>u, <1>k, <1>4 DEF Ask, Flags, Kept
<1>6. ASSUME NEW p \in Planners, Look(p) \/ Upsert(p) \/ ReadAgent(p) PROVE PlanTypeOK'
  BY <1>6, <1>t, <1>u, <1>k, <1>4 DEF Look, Upsert, ReadAgent, Flags, Kept
<1>7. ASSUME NEW p \in Planners, GetAgent(p) \/ Rewrite(p) \/ Switch(p) \/ Find(p) \/ CreateOpsProject(p) \/ Due(p) PROVE PlanTypeOK'
  BY <1>7, <1>u, <1>k, <1>4 DEF GetAgent, Rewrite, Switch, Find, CreateOpsProject, Due, Flags, Kept
<1>8. ASSUME NEW p \in Planners, Planned(p) PROVE PlanTypeOK'
  <2>1. day' = day /\ plannedOn' = plannedOn /\ crossedDays' \subseteq crossedDays \cup {day}
    BY <1>8 DEF Planned
  <2>2. day' > 0 /\ Days'
    BY <1>t, <1>u, <2>1 DEF Days
  <2> QED BY <1>8, <1>u, <2>2, <1>4 DEF Planned, Flags, Kept
<1>9. ASSUME NEW p \in Planners, StartRun(p) PROVE PlanTypeOK'
  <2>1. day' > 0 /\ crossedDays' \subseteq 1..day' /\ day' = day
    BY <1>9, <1>t, <1>u DEF StartRun, Days
  <2>2. \A i \in DOMAIN plannedOn' : plannedOn'[i] \in 1..day
    <3>1. CASE plannedOn' = plannedOn
      BY <3>1, <1>u DEF Days
    <3>2. CASE plannedOn' = Append(plannedOn, day)
      BY <3>2, <1>t, <1>u, AppendProperties DEF Days
    <3> QED BY <3>1, <3>2, <1>9 DEF StartRun
  <2> QED BY <1>9, <1>u, <2>1, <2>2, <1>4 DEF StartRun, Flags, Kept, Days
<1>10. CASE Clock
  <2>1. /\ plannedOn' = plannedOn
        /\ \/ day' = day /\ crossedDays' = crossedDays
           \/ day' = day + 1 /\ crossedDays' \subseteq crossedDays \cup {day + 1}
    BY <1>10 DEF Clock
  <2>2. CASE day' = day /\ crossedDays' = crossedDays
    BY <1>4, <1>10, <1>k, <1>u, <2>1, <2>2 DEF Clock, Flags, Kept
  <2>3. CASE day' = day + 1 /\ crossedDays' \subseteq crossedDays \cup {day + 1}
    <3>1. 1..day \subseteq 1..(day + 1) /\ day + 1 \in 1..(day + 1)
      BY <1>t
    <3>2. \A i \in DOMAIN plannedOn' : plannedOn'[i] \in 1..day'
      BY <1>u, <2>1, <2>3, <3>1, Zenon DEF Days
    <3>3. crossedDays' \subseteq 1..day'
      BY <1>u, <2>3, <3>1 DEF Days
    <3>4. day' > 0
      BY <1>t, <2>3
    <3> QED BY <1>4, <1>10, <1>u, <3>2, <3>3, <3>4 DEF Clock, Flags, Kept, Days
  <2> QED BY <2>1, <2>2, <2>3
<1>11. CASE KillSwitch \/ Deploy
  BY <1>11, <1>u, <1>k, <1>4 DEF KillSwitch, Deploy, Flags, Kept
<1>12. CASE UNCHANGED planVars
  BY <1>12, <1>u, <1>k, <1>4 DEF planVars, Flags, Kept
<1>13. PlanTypeOK'
  BY <1>5, <1>6, <1>7, <1>8, <1>9, <1>10, <1>11, <1>12 DEF PlanNext, Prompting, PlanningTheDay
<1>14. day' > 0
  <2>1. CASE Clock
    BY <2>1, <1>t DEF Clock
  <2>2. CASE day' = day
    BY <2>2
  <2> QED BY <2>1, <2>2 DEF PlanNext, Prompting, PlanningTheDay, Ask, Look, Upsert, GetAgent, Rewrite, Switch, Find,
        CreateOpsProject, Due, Planned, ReadAgent, StartRun, KillSwitch, Deploy, planVars
<1> QED BY <1>13, <1>14

LEMMA PlanTyped == PlanSpec => []PlanTypeOK
<1>1. PlanInit => DaysInv
  <2> SUFFICES ASSUME PlanInit PROVE day > 0 /\ PlanTypeOK
    BY DEF DaysInv
  <2>1. PlanInv
    BY PlanInitially
  <2>2. \A p \in Planners : \E c \in CallKinds : \E n \in 1..(Len(c) + 1) : steps[p] = SubSeq(c, n, Len(c))
    <3> TAKE p \in Planners
    <3>1. PICK c \in CallKinds : steps[p] \in {Rest(c, n) : n \in 1..(Len(c) + 1)}
      BY <2>1, Zenon DEF PlanInv, Left
    <3> QED BY <3>1, Zenon DEF Rest
  <2>3. agent \in Prompts /\ {release, edits, day} \subseteq Nat /\ overwritten \in BOOLEAN /\ day > 0
    BY <2>1 DEF PlanInv, PromptInv, DayInv, PlanInit
  <2>4. customized \in [Planners -> BOOLEAN] /\ live \in [Planners -> BOOLEAN]
    BY DEF PlanInit
  <2>5. crossedDays = {} /\ opsProject \in BOOLEAN /\ halted \in BOOLEAN /\ planHour \in BOOLEAN
    BY DEF PlanInit
  <2>6. \A i \in DOMAIN plannedOn : plannedOn[i] \in 1..day
    BY DEF PlanInit
  <2> QED BY <2>2, <2>3, <2>4, <2>5, <2>6 DEF PlanTypeOK, Prompts
<1>2. DaysInv => PlanTypeOK
  BY DEF DaysInv
<1> QED BY <1>1, <1>2, PlanInitially, PlanStep, PlanTypes, PTL DEF PlanSpec

LEMMA ChannelTypes == ChannelInv /\ ChannelTypeOK /\ [ChannelNext]_channelVars => ChannelTypeOK'
<1> SUFFICES ASSUME ChannelInv, ChannelTypeOK, [ChannelNext]_channelVars PROVE ChannelTypeOK'
  OBVIOUS
<1> USE ChannelsAssumption
<1> DEFINE Row == [status : {"none", "CONNECTED", "EXPIRED", "REVOKED"}, expires : 0..MaxTime]
           Reading_ == [at : {"verify", "flag", "stamp"}, account : Accounts, expires : 0..MaxTime,
                        connected : BOOLEAN, touched : BOOLEAN]
<1>t. /\ account \in [Accounts -> Row] /\ newest \subseteq Accounts /\ tainted \subseteq Accounts /\ now \in 0..MaxTime
      /\ \A c \in Checkers : check[c] = NoCheck \/ check[c] \in Reading_
      /\ check = [c \in Checkers |-> check[c]]
  BY DEF ChannelTypeOK, ChannelInv
<1>m. ASSUME NEW a \in Accounts, Touch(a) PROVE newest' \subseteq Accounts /\ tainted' \subseteq Accounts
        /\ \A c \in Checkers : check'[c] = NoCheck \/ check'[c] \in Reading_
  BY <1>m, <1>t DEF Touch, NoCheck
<1>w. ASSUME NEW a \in Accounts, NEW s \in {"CONNECTED", "EXPIRED", "REVOKED"}
      PROVE [account EXCEPT ![a].status = s] \in [Accounts -> Row]
  BY <1>t
<1>1. ASSUME NEW a \in Accounts, ConnectAccount(a) PROVE ChannelTypeOK'
  <2>1. PICK expires \in {Never} \cup now..MaxTime :
            account' = [account EXCEPT ![a].status = "CONNECTED", ![a].expires = IF expires = Never THEN @ ELSE expires]
    BY <1>1 DEF ConnectAccount
  <2>2. expires \in 0..MaxTime
    BY <1>t DEF Never
  <2> DEFINE deadline == IF expires = Never THEN account[a].expires ELSE expires
             put == [account[a] EXCEPT !.status = "CONNECTED", !.expires = deadline]
  <2>3. account' = [account EXCEPT ![a].status = "CONNECTED", ![a].expires = deadline]
    BY <2>1
  <2>4. account[a] \in Row /\ deadline \in 0..MaxTime
    BY <1>t, <2>2
  <2> HIDE DEF deadline
  <2>5. account' = [account EXCEPT ![a] = put]
    BY <1>t, <2>3
  <2>6. put \in Row
    BY <2>4
  <2> HIDE DEF put, Row
  <2>7. account' \in [Accounts -> Row]
    BY <1>t, <2>5, <2>6
  <2>8. newest' \subseteq Accounts /\ tainted' \subseteq Accounts /\ now' = now
        /\ \A c \in Checkers : check'[c] = NoCheck \/ check'[c] \in Reading_
    BY <1>1, <1>m DEF ConnectAccount
  <2> QED BY <1>t, <2>7, <2>8 DEF Row, ChannelTypeOK
<1>2. ASSUME NEW a \in Accounts, DisconnectAccount(a) PROVE ChannelTypeOK'
  BY <1>2, <1>m, <1>t, <1>w DEF DisconnectAccount, ChannelTypeOK
<1>3. CASE TimePasses
  BY <1>3, <1>t DEF TimePasses, ChannelTypeOK
<1>4. ASSUME NEW c \in Checkers, ReadAccount(c) \/ Verify(c) \/ Flag(c) \/ Stamp(c), NEW d \in Checkers
      PROVE check'[d] = NoCheck \/ check'[d] \in Reading_
  <2>1. check[c] = NoCheck \/ check[c] \in Reading_
    BY <1>t
  <2>2. ASSUME d # c PROVE check'[d] = check[d]
    BY <1>4, <1>t, <2>2 DEF ReadAccount, Verify, Flag, Stamp
  <2>3. CASE ReadAccount(c)
    <3>1. PICK a \in newest : check' = [check EXCEPT ![c] =
            [at |-> "verify", account |-> a, expires |-> account[a].expires,
             connected |-> account[a].status = "CONNECTED", touched |-> FALSE]]
      BY <2>3 DEF ReadAccount
    <3>2. a \in Accounts /\ account[a] \in Row
      BY <1>t, <3>1
    <3>3. [at |-> "verify", account |-> a, expires |-> account[a].expires,
           connected |-> account[a].status = "CONNECTED", touched |-> FALSE] \in Reading_
      BY <3>2
    <3> QED BY <1>t, <2>2, <3>1, <3>3
  <2>4. CASE Verify(c) \/ Flag(c)
    <3>1. check[c] \in Reading_
      BY <2>1, <2>4 DEF Verify, Flag, NoCheck
    <3>2. check'[c] \in Reading_
      BY <1>t, <2>4, <3>1 DEF Verify, Flag
    <3> QED BY <1>t, <2>2, <3>2
  <2>5. CASE Stamp(c)
    BY <1>t, <2>2, <2>5 DEF Stamp
  <2> QED BY <1>4, <2>3, <2>4, <2>5
<1>5. ASSUME NEW c \in Checkers, ReadAccount(c) \/ Verify(c) PROVE ChannelTypeOK'
  BY <1>5, <1>4, <1>t DEF ReadAccount, Verify, ChannelTypeOK
<1>6. ASSUME NEW c \in Checkers, Flag(c) PROVE ChannelTypeOK'
  <2>1. check[c].account \in Accounts
    BY <1>6, <1>t DEF Flag, NoCheck
  <2>2. account' \in [Accounts -> Row] /\ newest' \subseteq Accounts /\ tainted' \subseteq Accounts /\ now' = now
    <3>1. CASE Expires(c)
      <4>1. /\ account' = [account EXCEPT ![check[c].account].status = "EXPIRED"] /\ now' = now
            /\ newest' = {check[c].account} /\ tainted' \subseteq tainted \cup {check[c].account}
        BY <1>6, <3>1 DEF Flag
      <4> QED BY <1>t, <1>w, <2>1, <4>1
    <3>2. CASE ~Expires(c)
      BY <1>6, <1>t, <3>2 DEF Flag
    <3> QED BY <3>1, <3>2
  <2> QED BY <1>6, <1>4, <1>t, <2>2 DEF ChannelTypeOK
<1>7. ASSUME NEW c \in Checkers, Stamp(c) PROVE ChannelTypeOK'
  <2>1. newest' \subseteq Accounts
    BY <1>7 DEF Stamp, AccountRows
  <2> QED BY <1>7, <1>4, <1>t, <2>1 DEF Stamp, ChannelTypeOK
<1>8. CASE UNCHANGED channelVars
  BY <1>8, <1>t DEF channelVars, ChannelTypeOK
<1> QED BY <1>1, <1>2, <1>3, <1>5, <1>6, <1>7, <1>8 DEF ChannelNext

LEMMA ChannelTyped == ChannelSpec => []ChannelTypeOK
<1>1. ChannelInit => ChannelTypeOK
  BY ChannelsAssumption DEF ChannelInit, ChannelTypeOK, NoAccount, Never, NoCheck
<1> QED BY <1>1, ChannelInitially, ChannelStep, ChannelTypes, PTL DEF ChannelSpec

WordsInv == wordings \in 0..MaxWordings

LEMMA BrandTyped == BrandSpec => []BrandTypeOK
<1>1. BrandInv /\ WordsInv => BrandTypeOK
  BY Zenon DEF BrandInv, Imports, BrandTypeOK, WordsInv
<1>2. BrandInv /\ WordsInv /\ [BrandNext]_brandVars => WordsInv'
  <2> SUFFICES ASSUME WordsInv, [BrandNext]_brandVars PROVE WordsInv'
    OBVIOUS
  <2>1. \/ wordings' = wordings
        \/ wordings < MaxWordings /\ wordings' = wordings + 1
    BY DEF BrandNext, EditProfile, Import, ReadSite, ReadProfile, FindProfile, Persist, brandVars
  <2> QED BY <2>1, BrandAssumption DEF WordsInv
<1>3. BrandInit => WordsInv
  BY BrandAssumption DEF BrandInit, WordsInv
<1> QED BY <1>1, <1>2, <1>3, BrandInitially, BrandStep, PTL DEF BrandSpec

LEMMA PassedGoesOn ==
    ASSUME NEW request \in Reqs, NEW k, NEW object
    PROVE  Passed(request, k, object).pc \in {"member", "run", "refused"}
<1> DEFINE step == IF ~request.gated THEN "member" ELSE IF object.role \in Gate THEN "run" ELSE "refused"
           sure == object.org = request.org /\ ~object.stale
<1>1. step \in {"member", "run", "refused"}
  OBVIOUS
<1>2. Passed(request, k, object) = [request EXCEPT !.user = k, !.pc = step, !.sure = sure]
  BY DEF Passed
<1> HIDE DEF step, sure
<1>3. [request EXCEPT !.user = k, !.pc = step, !.sure = sure].pc = step
  BY DEF Reqs
<1> QED BY <1>1, <1>2, <1>3

TurnsInv ==
    /\ \A r \in Inflight : reqs[r].pc = "served" => reqs[r].user \in Objects
    /\ turns \in 0..MaxTurns /\ lag \in {"none", "kept", "late"}

LEMMA RequestTyped == RequestSpec => []RequestTypeOK
<1>1. RequestInv /\ TurnsInv => RequestTypeOK
  <2> SUFFICES ASSUME RequestInv, TurnsInv PROVE RequestTypeOK
    OBVIOUS
  <2>1. objects \in [Objects -> Contents_]
    BY DEF RequestInv, ObjectOK
  <2>2. ASSUME NEW r \in Inflight
        PROVE  /\ reqs[r].pc \in {"idle", "query", "store", "member", "run", "served", "refused"}
               /\ reqs[r].org \in Tenants \cup {"none"} /\ reqs[r].user \in Objects \cup {0}
               /\ (reqs[r].pc \in {"member", "run", "served"} => reqs[r].user # 0)
    <3>1. RequestOK(reqs[r], belongs, objects) /\ 0 \notin Objects
      BY ObjectNumbers DEF RequestInv
    <3> QED BY <3>1 DEF RequestOK, Reqs, TurnsInv
  <2> QED BY <2>1, <2>2 DEF RequestInv, TurnsInv, RequestTypeOK, Contents_
<1>2. RequestInv /\ TurnsInv /\ [RequestNext]_requestVars => TurnsInv'
  <2> SUFFICES ASSUME RequestInv, TurnsInv, [RequestNext]_requestVars PROVE TurnsInv'
    OBVIOUS
  <2>1. /\ turns' = turns \/ (turns < MaxTurns /\ turns' = turns + 1)
        /\ lag' = lag \/ lag' \in {"none", "kept", "late"}
    BY DEF RequestNext, Arrive, ReadUser, StoreUser, Admit, Handle, Respond, ForgetUser, SetActive, SetRank, requestVars
  <2>2. turns' \in 0..MaxTurns /\ lag' \in {"none", "kept", "late"}
    BY <2>1, RequestsAssumption DEF TurnsInv
  <2>3. ASSUME NEW r \in Inflight, reqs'[r].pc = "served" PROVE reqs'[r].user \in Objects
    <3>0. reqs = [q \in Inflight |-> reqs[q]] /\ RequestOK(reqs[r], belongs, objects)
          /\ (reqs[r].pc = "served" => reqs[r].user \in Objects)
      BY DEF RequestInv, TurnsInv
    <3>1. CASE reqs'[r] = reqs[r]
      BY <2>3, <3>0, <3>1
    <3>2. ASSUME NEW q \in Inflight, NEW gated \in BOOLEAN, NEW fits \in BOOLEAN, NEW o \in Tenants, Arrive(q, gated, o, fits)
          PROVE  reqs'[r] = reqs[r]
      <4>1. CASE q # r
        BY <3>0, <3>2, <4>1 DEF Arrive, PassRoles, Refuse
      <4>2. CASE q = r
        <5> DEFINE came == [NoRequestYet EXCEPT !.gated = gated, !.org = o]
        <5>1. \/ reqs' = [reqs EXCEPT ![r] = [NoRequestYet EXCEPT !.pc = "refused"]]
              \/ reqs' = [reqs EXCEPT ![r] = [came EXCEPT !.pc = "query"]]
              \/ PassRoles(r, came, entry, objects[entry])
          BY <3>2, <4>2 DEF Arrive, Refuse
        <5>2. NoRequestYet \in Reqs
          BY DEF NoRequestYet, Reqs
        <5>3. came \in Reqs
          BY <5>2 DEF Reqs
        <5> HIDE DEF came
        <5>4. CASE PassRoles(r, came, entry, objects[entry])
          <6>1. reqs'[r] = Passed(came, entry, objects[entry])
            BY <3>0, <5>4 DEF PassRoles, Passed
          <6> QED BY <2>3, <5>3, <6>1, PassedGoesOn
        <5>5. CASE reqs' = [reqs EXCEPT ![r] = [NoRequestYet EXCEPT !.pc = "refused"]]
          BY <2>3, <3>0, <5>2, <5>5 DEF Reqs
        <5>6. CASE reqs' = [reqs EXCEPT ![r] = [came EXCEPT !.pc = "query"]]
          BY <2>3, <3>0, <5>3, <5>6 DEF Reqs
        <5> QED BY <5>1, <5>4, <5>5, <5>6
      <4> QED BY <4>1, <4>2
    <3>3. ASSUME NEW q \in Inflight, ReadUser(q) \/ StoreUser(q) \/ Respond(q)
          PROVE  reqs'[r] = reqs[r]
      <4>1. CASE q # r
        BY <3>0, <3>3, <4>1 DEF ReadUser, StoreUser, PassRoles, Refuse, Respond
      <4>2. CASE q = r
        <5>1. reqs[r] \in Reqs /\ NoRequestYet.pc = "idle" /\ [NoRequestYet EXCEPT !.pc = "refused"].pc = "refused"
          BY <3>0 DEF RequestOK, NoRequestYet
        <5>2. reqs'[r].pc \in {"store", "refused", "member", "run", "idle"}
          <6>1. CASE ReadUser(q)
            BY <3>0, <4>2, <5>1, <6>1 DEF ReadUser, Reqs
          <6>2. CASE StoreUser(q)
            <7> DEFINE read == [reqs[r] EXCEPT !.seen = FALSE]
            <7>1. PassRoles(r, read, Unheld, Fresh) \/ Refuse(r)
              BY <4>2, <6>2 DEF StoreUser
            <7>0. read \in Reqs
              BY <5>1 DEF Reqs
            <7> HIDE DEF read
            <7>2. CASE PassRoles(r, read, Unheld, Fresh)
              <8>1. reqs'[r] = Passed(read, Unheld, Fresh)
                BY <3>0, <7>2 DEF PassRoles, Passed
              <8> QED BY <7>0, <8>1, PassedGoesOn
            <7>3. CASE Refuse(r)
              BY <3>0, <5>1, <7>3 DEF Refuse
            <7> QED BY <7>1, <7>2, <7>3
          <6>3. CASE Respond(q)
            BY <3>0, <4>2, <5>1, <6>3 DEF Respond
          <6> QED BY <3>3, <6>1, <6>2, <6>3
        <5> QED BY <2>3, <5>2
      <4> QED BY <4>1, <4>2
    <3>4. ASSUME NEW q \in Inflight, Admit(q) PROVE reqs'[r].user = reqs[r].user /\ reqs[r].pc = "served"
      BY <2>3, <3>0, <3>4 DEF Admit, Refuse, NoRequestYet, Sharing, RequestOK, Reqs
    <3>5. ASSUME NEW q \in Inflight, Handle(q) PROVE reqs'[r].user = reqs[r].user /\ reqs[r].pc \in {"run", "served"}
      BY <2>3, <3>0, <3>5 DEF Handle, RequestOK, Reqs
    <3>6. ASSUME NEW o, NEW rank, SetRank(o, rank) PROVE reqs'[r].user = reqs[r].user /\ reqs[r].pc = "served"
      BY <2>3, <3>0, <3>6 DEF SetRank, RequestOK, Reqs
    <3>7. CASE ForgetUser \/ SetActive \/ UNCHANGED requestVars
      BY <3>1, <3>7 DEF ForgetUser, SetActive, requestVars
    <3>8. reqs[r].pc = "run" => reqs[r].user \in Objects
      BY <3>0 DEF RequestOK
    <3> QED BY <3>0, <3>1, <3>2, <3>3, <3>4, <3>5, <3>6, <3>7, <3>8 DEF RequestNext
  <2> QED BY <2>2, <2>3 DEF TurnsInv
<1>3. RequestInit => TurnsInv
  BY RequestsAssumption DEF RequestInit, TurnsInv, NoRequestYet
<1> QED BY <1>1, <1>2, <1>3, RequestInitially, RequestStep, PTL DEF RequestSpec

SleepsInv ==
    /\ sleeps \in 0..MaxSleeps /\ given \in [AllModels -> {"none", "unmade", "timeout", "lost"}]
    /\ disk \in MediaFiles /\ model \in {1} \cup AllModels
    /\ attempt \in 1..MaxAttempts /\ past \subseteq [wasted : SUBSET AllModels, left : MediaFiles]

LEMMA MediaTyped == MediaSpec => []MediaTypeOK
<1>1. MediaInv /\ SleepsInv => MediaTypeOK
  BY DEF MediaInv, SleepsInv, MediaTypeOK
<1>2. MediaInv /\ SleepsInv /\ [MediaNext]_mediaVars => SleepsInv'
  <2> SUFFICES ASSUME MediaInv, SleepsInv, [MediaNext]_mediaVars PROVE SleepsInv'
    OBVIOUS
  <2>a. AllModels' = AllModels /\ MediaFiles' = MediaFiles /\ \A m \in Models : m \in AllModels
    BY MediaAssumption DEF AllModels, Models, MediaFiles
  <2>t. /\ sleeps \in 0..MaxSleeps /\ given \in [AllModels -> {"none", "unmade", "timeout", "lost"}]
        /\ disk \in MediaFiles /\ model \in {1} \cup AllModels /\ model \in Nat
        /\ (asking \in InWork => model \in Models)
        /\ attempt \in 1..MaxAttempts /\ past \subseteq [wasted : SUBSET AllModels, left : MediaFiles]
    BY DEF SleepsInv, MediaInv
  <2>g. ASSUME NEW why \in {"unmade", "timeout", "lost"}, GiveUp(why)
        PROVE  given' \in [AllModels -> {"none", "unmade", "timeout", "lost"}] /\ model' \in {1} \cup AllModels
    BY <2>g, <2>a, <2>t DEF GiveUp
  <2>l. TooLate \in {"unmade", "timeout", "lost"}
    BY DEF TooLate
  <2>n. NoFile \in MediaFiles /\ \A w \in BOOLEAN : asking \in InWork => [of |-> model, whole |-> w] \in MediaFiles
    BY <2>a, <2>t DEF NoFile, MediaFiles
  <2>w. 0 \in 0..MaxSleeps
    BY MediaAssumption
  <2>j. UNCHANGED jobOfMediaVars => UNCHANGED <<attempt, past>>
    BY DEF jobOfMediaVars
  <2>1. CASE AskMedia
    BY <2>1, <2>a, <2>t, <2>j DEF AskMedia, SleepsInv
  <2>2. ASSUME NEW done, NEW lost, SubmitJob(done, lost) PROVE SleepsInv'
    <3>1. UNCHANGED <<model, given>> \/ GiveUp("lost") \/ GiveUp("unmade")
      BY <2>2 DEF SubmitJob
    <3>2. sleeps' = 0 /\ UNCHANGED <<disk, attempt, past>>
      BY <2>2, <2>j DEF SubmitJob
    <3> QED BY <2>a, <2>t, <2>g, <2>w, <3>1, <3>2 DEF SleepsInv
  <2>3. ASSUME NEW done, NEW lost, Draw(done, lost) PROVE SleepsInv'
    <3>1. UNCHANGED <<model, given>> \/ GiveUp("lost") \/ GiveUp("unmade")
      BY <2>3 DEF Draw
    <3>2. UNCHANGED <<sleeps, disk, attempt, past>>
      BY <2>3, <2>j DEF Draw
    <3> QED BY <2>a, <2>t, <2>g, <3>1, <3>2 DEF SleepsInv
  <2>4. ASSUME NEW lost, Wait(lost) PROVE SleepsInv'
    <3>1. sleeps' \in 0..MaxSleeps
      BY <2>4, <2>t, MediaAssumption DEF Wait
    <3>2. UNCHANGED <<model, given>> \/ GiveUp("lost") \/ GiveUp("unmade") \/ GiveUp(TooLate)
      BY <2>4 DEF Wait
    <3>3. UNCHANGED <<disk, attempt, past>>
      BY <2>4, <2>j DEF Wait
    <3> QED BY <2>a, <2>t, <2>g, <2>l, <3>1, <3>2, <3>3 DEF SleepsInv
  <2>5. ASSUME NEW lost, Fetch(lost) PROVE SleepsInv'
    <3>1. UNCHANGED <<model, given>> \/ GiveUp("lost")
      BY <2>5 DEF Fetch
    <3>2. disk' \in MediaFiles
      BY <2>5, <2>t, <2>n DEF Fetch, InWork
    <3>3. UNCHANGED <<sleeps, attempt, past>>
      BY <2>5, <2>j DEF Fetch
    <3> QED BY <2>a, <2>t, <2>g, <3>1, <3>2, <3>3 DEF SleepsInv
  <2>6. CASE StorePicture
    <3>1. disk' \in MediaFiles
      BY <2>6, <2>n DEF StorePicture, InWork
    <3> QED BY <2>6, <2>a, <2>t, <2>j, <3>1 DEF StorePicture, SleepsInv
  <2>7. ASSUME NEW removed, CleanUp(removed) PROVE SleepsInv'
    <3>1. disk' \in MediaFiles
      BY <2>7, <2>t, <2>n DEF CleanUp
    <3> QED BY <2>7, <2>a, <2>t, <2>j, <3>1 DEF CleanUp, SleepsInv
  <2>8. ASSUME NEW died, NEW again, RunEnds(died, again) PROVE SleepsInv'
    <3>1. PICK left \in {disk} \cup (IF asking \in {"fetch", "store"} THEN {[of |-> model, whole |-> FALSE]} ELSE {}) :
             past' = past \cup {[wasted |-> Wasted, left |-> left]}
      BY <2>8 DEF RunEnds
    <3>2. left \in MediaFiles
      BY <2>t, <2>n DEF InWork
    <3>3. Wasted \in SUBSET AllModels
      BY DEF Wasted
    <3>4. past' \subseteq [wasted : SUBSET AllModels, left : MediaFiles]
      BY <2>t, <3>1, <3>2, <3>3
    <3>5. attempt' \in 1..MaxAttempts
      BY <2>8, <2>t, MediaAssumption DEF RunEnds
    <3>6. /\ model' = 1 /\ sleeps' = 0 /\ disk' = NoFile
          /\ given' = [m \in AllModels |-> "none"]
      BY <2>8 DEF RunEnds
    <3> QED BY <2>a, <2>n, <2>w, <3>4, <3>5, <3>6 DEF SleepsInv
  <2>9. ASSUME NEW m, NEW how, VendorEnds(m, how) PROVE SleepsInv'
    BY <2>9, <2>a, <2>t, <2>j DEF VendorEnds, SleepsInv
  <2>10. CASE UNCHANGED mediaVars
    BY <2>10, <2>a, <2>t, <2>j DEF mediaVars, askingVars, SleepsInv
  <2> QED BY <2>1, <2>2, <2>3, <2>4, <2>5, <2>6, <2>7, <2>8, <2>9, <2>10 DEF MediaNext
<1>3. MediaInit => SleepsInv
  BY MediaAssumption DEF MediaInit, SleepsInv, NoFile, MediaFiles
<1> QED BY <1>1, <1>2, <1>3, MediaInitially, MediaStep, PTL DEF MediaSpec

\* A run that is under way has begun and not come to its end.
RunsInv ==
    /\ seedings \in 0..MaxSeedings /\ numbered \in 0..MaxNumbered /\ completed <= seedings
    /\ seedAt # "idle" => completed < seedings

LEMMA SeedTyped == SeedSpec => []SeedTypeOK
<1>1. SeedInv /\ RunsInv => SeedTypeOK
  BY SeedAssumption DEF SeedInv, SeedTypes, RunsInv, SeedTypeOK
<1>2. SeedInv /\ RunsInv /\ [SeedNext]_seedVars => RunsInv'
  <2> SUFFICES ASSUME SeedInv, RunsInv, [SeedNext]_seedVars PROVE RunsInv'
    OBVIOUS
  <2>t. completed \in Nat /\ seedings \in 0..MaxSeedings /\ numbered \in 0..MaxNumbered /\ completed <= seedings
        /\ (seedAt # "idle" => completed < seedings)
    BY DEF SeedInv, SeedTypes, RunsInv
  <2>1. CASE StartSeed
    BY <2>1, <2>t, SeedAssumption DEF StartSeed, RunsInv
  <2>2. ASSUME NextRow, seedAt # "idle", UNCHANGED <<seedings, numbered>> PROVE RunsInv'
    <3>1. completed' = completed \/ (completed' = completed + 1 /\ seedAt' = "idle")
      BY <2>2 DEF NextRow
    <3> QED BY <2>2, <2>t, <3>1, SeedAssumption DEF RunsInv
  <2>3. CASE UpsertRow \/ CreateRow \/ SetCounter
    BY <2>2, <2>3 DEF UpsertRow, CreateRow, SetCounter, Keyed, Created
  <2>4. CASE CreateInvoice
    <3>1. CASE seedRow + 1 \in takenNumbers
      BY <2>4, <2>t, <3>1 DEF CreateInvoice, RunsInv
    <3>2. CASE seedRow + 1 \notin takenNumbers
      BY <2>2, <2>4, <3>2 DEF CreateInvoice
    <3> QED BY <3>1, <3>2
  <2>5. CASE StopSeed \/ NumberInvoice \/ UNCHANGED seedVars
    BY <2>5, <2>t, SeedAssumption DEF StopSeed, NumberInvoice, seedVars, RunsInv
  <2> QED BY <2>1, <2>3, <2>4, <2>5 DEF SeedNext
<1>3. SeedInit => RunsInv
  BY SeedAssumption DEF SeedInit, RunsInv
<1> QED BY <1>1, <1>2, <1>3, SeedInitially, SeedStep, PTL DEF SeedSpec

LEMMA OverlayTypes == OverlaysTypeOK /\ [OverlaysNext]_overlayVars => OverlaysTypeOK'
<1> SUFFICES ASSUME OverlaysTypeOK, [OverlaysNext]_overlayVars PROVE OverlaysTypeOK'
  OBVIOUS
<1> USE OverlaysAssumption
<1> DEFINE Asked == [nr : 1..MaxSearches, text : Texts, firm : Firms]
           Palette == /\ typed \in Texts \cup {EmptyBox} /\ timer \in {EmptyBox, typed} /\ firm \in Firms
                      /\ sought \subseteq Asked /\ results \in Lists \cup {NoList}
                      /\ loading \in BOOLEAN
                      /\ searches \in 0..MaxSearches /\ switches \in 0..MaxSwitches
                      /\ cause \subseteq {"crossed", "failed", "switched"}
           Told == /\ toasts \subseteq Toasts /\ ticking \subseteq Toasts /\ onScreen \subseteq Toasts
                   /\ listening \in BOOLEAN /\ pushed \in 0..MaxToasts /\ owed \subseteq 1..pushed
<1>0. OverlaysTypeOK <=> Palette /\ Told
  BY DEF OverlaysTypeOK, NoList
<1>p. OverlaysTypeOK' <=> Palette' /\ Told'
  BY DEF OverlaysTypeOK, NoList, Lists, Toasts
<1>1. ASSUME NEW q \in Texts \cup {EmptyBox}, Type(q) PROVE Palette'
  BY <1>0, <1>1 DEF Type, TimerAfter, Lists
<1>2. ASSUME Search PROVE Palette'
  <2>1. [nr |-> searches + 1, text |-> timer, firm |-> firm] \in Asked
    BY <1>0, <1>2 DEF Search
  <2> QED BY <1>0, <1>2, <2>1 DEF Search, Lists
<1>3. ASSUME NEW s \in sought, ListArrives(s) PROVE Palette'
  <2>1. Found(s.text, s.firm) \in Lists
    BY <1>0 DEF Found, Lists
  <2> QED BY <1>0, <1>3, <2>1 DEF ListArrives, Lists
<1>4. ASSUME NEW s \in sought, SearchFails(s) PROVE Palette'
  BY <1>0, <1>4 DEF SearchFails, Lists
<1>5. ASSUME NEW f \in Firms, ChooseFirm(f) PROVE Palette'
  BY <1>0, <1>5 DEF ChooseFirm, Lists
<1>6. ASSUME Push PROVE Told'
  <2>1. pushed + 1 \in 1..MaxToasts
    BY <1>0, <1>6 DEF Push
  <2>2. [id |-> NextId, nr |-> pushed + 1] \in Toasts
    BY <2>1 DEF NextId, Toasts
  <2> QED BY <1>0, <1>6, <2>1, <2>2 DEF Push, Emit, Toasts
<1>7. ASSUME NEW t, Close(t) \/ TimeIsOver(t) PROVE Told'
  BY <1>0, <1>7 DEF Close, TimeIsOver, Dismiss, Emit, Toasts
<1>8. ASSUME Subscribe PROVE Told'
  BY <1>0, <1>8 DEF Subscribe, Toasts
<1>9. ASSUME UNCHANGED paletteVars PROVE Palette'
  BY <1>0, <1>9 DEF paletteVars, Lists
<1>10. ASSUME UNCHANGED toastVars PROVE Told'
  BY <1>0, <1>10 DEF toastVars, Toasts
<1> HIDE DEF Palette, Told
<1> QED BY <1>p, <1>1, <1>2, <1>3, <1>4, <1>5, <1>6, <1>7, <1>8, <1>9, <1>10 DEF OverlaysNext, PaletteNext, ToastNext, overlayVars

LEMMA OverlaysTyped == OverlaysSpec => []OverlaysTypeOK
<1>1. OverlaysInit => OverlaysTypeOK
  <2> SUFFICES ASSUME OverlaysInit PROVE OverlaysTypeOK
    OBVIOUS
  <2>1. (CHOOSE f \in Firms : TRUE) \in Firms
    BY OverlaysAssumption, Zenon
  <2>2. firm \in Firms
    BY <2>1 DEF OverlaysInit
  <2>3. /\ typed = EmptyBox /\ timer = EmptyBox /\ sought = {} /\ results = NoList /\ loading = FALSE
        /\ searches = 0 /\ switches = 0 /\ cause = {}
        /\ toasts = {} /\ ticking = {} /\ onScreen = {} /\ listening = FALSE /\ pushed = 0 /\ owed = {}
    BY Zenon DEF OverlaysInit
  <2>4. searches \in 0..MaxSearches /\ switches \in 0..MaxSwitches /\ pushed \in 0..MaxToasts
    BY <2>3, OverlaysAssumption
  <2> QED BY <2>2, <2>3, <2>4, Zenon DEF OverlaysTypeOK, NoList
<1> QED BY <1>1, OverlayTypes, PTL DEF OverlaysSpec

\* Each of the twenty modules takes its own steps, or none.
LEMMA PartsOfServices ==
    ServicesSpec =>
        /\ Spec
        /\ MemberSpec
        /\ GenSpec
        /\ DocSpec
        /\ BillSpec
        /\ GateSpec
        /\ PlanSpec
        /\ ScrapeSpec
        /\ ChannelSpec
        /\ BrandSpec
        /\ AssistantSpec
        /\ RequestSpec
        /\ ToolSpec
        /\ ReportSpec
        /\ OrgSpec
        /\ MediaSpec
        /\ SeedSpec
        /\ LinkPagesSpec
        /\ InsightSpec
        /\ OverlaysSpec
<1>1. ServicesSpec => Spec
  <2>1. ServicesInit => Init
    BY DEF ServicesInit
  <2>2. [ServicesNext]_<<part, servicesVars, gateVars, moreVars>> => [Next]_vars
    BY DEF ServicesNext, servicesVars
  <2> QED BY <2>1, <2>2, PTL DEF ServicesSpec, Spec
<1>2. ServicesSpec => MemberSpec
  <2>1. ServicesInit => MemberInit
    BY DEF ServicesInit
  <2>2. [ServicesNext]_<<part, servicesVars, gateVars, moreVars>> => [MemberNext]_memberVars
    BY DEF ServicesNext, servicesVars
  <2> QED BY <2>1, <2>2, PTL DEF ServicesSpec, MemberSpec
<1>3. ServicesSpec => GenSpec
  <2>1. ServicesInit => GenInit
    BY DEF ServicesInit
  <2>2. [ServicesNext]_<<part, servicesVars, gateVars, moreVars>> => [GenNext]_genVars
    BY DEF ServicesNext, servicesVars
  <2> QED BY <2>1, <2>2, PTL DEF ServicesSpec, GenSpec
<1>4. ServicesSpec => DocSpec
  <2>1. ServicesInit => DocInit
    BY DEF ServicesInit
  <2>2. [ServicesNext]_<<part, servicesVars, gateVars, moreVars>> => [DocNext]_docVars
    BY DEF ServicesNext, servicesVars
  <2> QED BY <2>1, <2>2, PTL DEF ServicesSpec, DocSpec
<1>5. ServicesSpec => BillSpec
  <2>1. ServicesInit => BillInit
    BY DEF ServicesInit
  <2>2. [ServicesNext]_<<part, servicesVars, gateVars, moreVars>> => [BillNext]_billVars
    BY DEF ServicesNext, servicesVars, BillNext
  <2> QED BY <2>1, <2>2, PTL DEF ServicesSpec, BillSpec
<1>6. ServicesSpec => GateSpec
  <2>1. ServicesInit => GateInit
    BY DEF ServicesInit
  <2>2. [ServicesNext]_<<part, servicesVars, gateVars, moreVars>> => [GateNext]_gateVars
    BY DEF ServicesNext
  <2> QED BY <2>1, <2>2, PTL DEF ServicesSpec, GateSpec
<1>7. ServicesSpec => PlanSpec
  <2>1. ServicesInit => PlanInit
    BY DEF ServicesInit
  <2>2. [ServicesNext]_<<part, servicesVars, gateVars, moreVars>> => [PlanNext]_planVars
    BY DEF ServicesNext, moreVars, PlanNext
  <2> QED BY <2>1, <2>2, PTL DEF ServicesSpec, PlanSpec
<1>8. ServicesSpec => ScrapeSpec
  <2>1. ServicesInit => ScrapeInit
    BY DEF ServicesInit
  <2>2. [ServicesNext]_<<part, servicesVars, gateVars, moreVars>> => [ScrapeNext]_scrapeVars
    BY DEF ServicesNext, moreVars
  <2> QED BY <2>1, <2>2, PTL DEF ServicesSpec, ScrapeSpec
<1>9. ServicesSpec => ChannelSpec
  <2>1. ServicesInit => ChannelInit
    BY DEF ServicesInit
  <2>2. [ServicesNext]_<<part, servicesVars, gateVars, moreVars>> => [ChannelNext]_channelVars
    BY DEF ServicesNext, moreVars
  <2> QED BY <2>1, <2>2, PTL DEF ServicesSpec, ChannelSpec
<1>10. ServicesSpec => BrandSpec
  <2>1. ServicesInit => BrandInit
    BY DEF ServicesInit
  <2>2. [ServicesNext]_<<part, servicesVars, gateVars, moreVars>> => [BrandNext]_brandVars
    BY DEF ServicesNext, moreVars
  <2> QED BY <2>1, <2>2, PTL DEF ServicesSpec, BrandSpec
<1>11. ServicesSpec => AssistantSpec
  <2>1. ServicesInit => AssistantInit
    BY DEF ServicesInit
  <2>2. [ServicesNext]_<<part, servicesVars, gateVars, moreVars>> => [AssistantNext]_assistantVars
    BY DEF ServicesNext, moreVars
  <2> QED BY <2>1, <2>2, PTL DEF ServicesSpec, AssistantSpec
<1>12. ServicesSpec => RequestSpec
  <2>1. ServicesInit => RequestInit
    BY DEF ServicesInit
  <2>2. [ServicesNext]_<<part, servicesVars, gateVars, moreVars>> => [RequestNext]_requestVars
    BY DEF ServicesNext, moreVars, officeVars
  <2> QED BY <2>1, <2>2, PTL DEF ServicesSpec, RequestSpec
<1>13. ServicesSpec => ToolSpec
  <2>1. ServicesInit => ToolInit
    BY DEF ServicesInit
  <2>2. [ServicesNext]_<<part, servicesVars, gateVars, moreVars>> => [ToolNext]_toolVars
    BY DEF ServicesNext, moreVars, officeVars
  <2> QED BY <2>1, <2>2, PTL DEF ServicesSpec, ToolSpec
<1>14. ServicesSpec => ReportSpec
  <2>1. ServicesInit => ReportInit
    BY DEF ServicesInit
  <2>2. [ServicesNext]_<<part, servicesVars, gateVars, moreVars>> => [ReportNext]_reportVars
    BY DEF ServicesNext, moreVars, officeVars
  <2> QED BY <2>1, <2>2, PTL DEF ServicesSpec, ReportSpec
<1>15. ServicesSpec => OrgSpec
  <2>1. ServicesInit => OrgInit
    BY DEF ServicesInit
  <2>2. [ServicesNext]_<<part, servicesVars, gateVars, moreVars>> => [OrgNext]_orgVars
    BY DEF ServicesNext, moreVars, officeVars
  <2> QED BY <2>1, <2>2, PTL DEF ServicesSpec, OrgSpec
<1>16. ServicesSpec => MediaSpec
  <2>1. ServicesInit => MediaInit
    BY DEF ServicesInit
  <2>2. [ServicesNext]_<<part, servicesVars, gateVars, moreVars>> => [MediaNext]_mediaVars
    BY DEF ServicesNext, moreVars, officeVars
  <2> QED BY <2>1, <2>2, PTL DEF ServicesSpec, MediaSpec
<1>17. ServicesSpec => SeedSpec
  <2>1. ServicesInit => SeedInit
    BY DEF ServicesInit
  <2>2. [ServicesNext]_<<part, servicesVars, gateVars, moreVars>> => [SeedNext]_seedVars
    BY DEF ServicesNext, moreVars, officeVars
  <2> QED BY <2>1, <2>2, PTL DEF ServicesSpec, SeedSpec
<1>18. ServicesSpec => LinkPagesSpec
  <2>1. ServicesInit => LinkPagesInit
    BY DEF ServicesInit
  <2>2. [ServicesNext]_<<part, servicesVars, gateVars, moreVars>> => [LinkPagesNext]_linkPageVars
    BY DEF ServicesNext, moreVars, officeVars, adviceVars
  <2> QED BY <2>1, <2>2, PTL DEF ServicesSpec, LinkPagesSpec
<1>19. ServicesSpec => InsightSpec
  <2>1. ServicesInit => InsightInit
    BY DEF ServicesInit
  <2>2. [ServicesNext]_<<part, servicesVars, gateVars, moreVars>> => [InsightNext]_insightVars
    BY DEF ServicesNext, moreVars, officeVars, adviceVars
  <2> QED BY <2>1, <2>2, PTL DEF ServicesSpec, InsightSpec
<1>20. ServicesSpec => OverlaysSpec
  <2>1. ServicesInit => OverlaysInit
    BY DEF ServicesInit
  <2>2. [ServicesNext]_<<part, servicesVars, gateVars, moreVars>> => [OverlaysNext]_overlayVars
    BY DEF ServicesNext, moreVars, officeVars, adviceVars, OverlaysNext, paletteVars, toastVars
  <2> QED BY <2>1, <2>2, PTL DEF ServicesSpec, OverlaysSpec
<1> QED BY <1>1, <1>2, <1>3, <1>4, <1>5, <1>6, <1>7, <1>8, <1>9, <1>10, <1>11, <1>12, <1>13, <1>14, <1>15, <1>16, <1>17, <1>18, <1>19, <1>20

PartIsNamed == part \in Parts

LEMMA PartsStay == ServicesSpec => []PartIsNamed
<1>1. ServicesInit => PartIsNamed
  BY DEF ServicesInit, PartIsNamed
<1>2. PartIsNamed /\ [ServicesNext]_<<part, servicesVars, gateVars, moreVars>> => PartIsNamed'
  BY DEF ServicesNext, PartIsNamed
<1> QED BY <1>1, <1>2, PTL DEF ServicesSpec

\* All twenty modules keep to their types, whichever of them a behaviour is of: a
\* step of one leaves the variables of the others as they are.
THEOREM ServicesTyped == ServicesSpec => []ServicesTypeOK
<1>1. GenSpec => []GenTypeOK
  <2>1. RecordInv => GenTypeOK
    BY DEF RecordInv
  <2> QED BY <2>1, RecordInitially, RecordStep, PTL DEF GenSpec
<1>2. GateSpec => []GateTypeOK
  BY ChatInvSays, ChatInitially, ChatStep, PTL DEF GateSpec
<1>3. ScrapeSpec => []ScrapeTypeOK
  <2>1. ScrapeInit => ScrapeTypeOK
    BY ScrapingAssumption DEF ScrapeInit, ScrapeTypeOK
  <2> QED BY <2>1, ScrapeTypes, PTL DEF ScrapeSpec
<1>4. AssistantSpec => []AssistantTypeOK
  BY TalkInvSays, TalkInitially, TalkStep, PTL DEF AssistantSpec
<1>5. ToolSpec => []ToolTypeOK
  BY ToolInvSays, ToolInitially, ToolStep, PTL DEF ToolSpec
<1>6. ReportSpec => []ReportTypeOK
  BY ReportInvSays, ReportInitially, ReportStep, PTL DEF ReportSpec
<1>7. OrgSpec => []OrgTypeOK
  <2>1. OrgInv => OrgTypeOK
    BY DEF OrgInv
  <2> QED BY <2>1, OrgInitially, OrgStep, PTL DEF OrgSpec
<1>8. LinkPagesSpec => []LinkPagesTypeOK
  BY TruthInvSays, LinkPagesInitially, TruthInitially, LinkPagesStep, TruthStep, PTL DEF LinkPagesSpec
<1>9. InsightSpec => []InsightTypeOK
  BY InsightInvSays, InsightInitially, InsightStep, PTL DEF InsightSpec
<1>10. /\ PartIsNamed /\ TypeOK /\ MemberTypeOK /\ GenTypeOK /\ DocTypeOK /\ BillTypeOK /\ GateTypeOK
       /\ PlanTypeOK /\ ScrapeTypeOK /\ ChannelTypeOK /\ BrandTypeOK /\ AssistantTypeOK /\ RequestTypeOK
       /\ ToolTypeOK /\ ReportTypeOK /\ OrgTypeOK /\ MediaTypeOK /\ SeedTypeOK /\ LinkPagesTypeOK
       /\ InsightTypeOK /\ OverlaysTypeOK
       => ServicesTypeOK
  BY Zenon DEF PartIsNamed, Parts, ServicesTypeOK
<1>11. ServicesSpec => [](TypeOK /\ MemberTypeOK /\ GenTypeOK /\ DocTypeOK /\ BillTypeOK /\ GateTypeOK)
  BY PartsOfServices, SettingsTyped, MembershipTyped, DocTyped, BillTyped, <1>1, <1>2, PTL
<1>12. ServicesSpec => [](PlanTypeOK /\ ScrapeTypeOK /\ ChannelTypeOK /\ BrandTypeOK /\ AssistantTypeOK /\ RequestTypeOK)
  BY PartsOfServices, PlanTyped, ChannelTyped, BrandTyped, RequestTyped, <1>3, <1>4, PTL
<1>13. ServicesSpec => [](ToolTypeOK /\ ReportTypeOK /\ OrgTypeOK /\ MediaTypeOK /\ SeedTypeOK)
  BY PartsOfServices, MediaTyped, SeedTyped, <1>5, <1>6, <1>7, PTL
<1>14. ServicesSpec => [](LinkPagesTypeOK /\ InsightTypeOK /\ OverlaysTypeOK)
  BY PartsOfServices, OverlaysTyped, <1>8, <1>9, PTL
<1> QED BY <1>10, <1>11, <1>12, <1>13, <1>14, PartsStay, PTL

=============================================================================
