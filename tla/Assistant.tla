------------------------------ MODULE Assistant ------------------------------
(***************************************************************************)
(* The AI assistant's conversations, which live in the memory of the       *)
(* process, the callers that ask, and the bubble on the dashboard. A call  *)
(* waits twice: for the organization's numbers before it looks for the     *)
(* conversation, and for the model's answer while it holds the             *)
(* conversation it has found, which may be out of the store by then.       *)
(***************************************************************************)
EXTENDS Naturals, Sequences

CONSTANTS
    MaxConversations,   \* bound: conversations ever started
    MaxMessages         \* bound: questions asked

ASSUME AssistantAssumption == MaxConversations \in Nat /\ MaxMessages \in Nat

VARIABLES
    store,      \* conversationStore: the messages of each id, or nothing
    started,    \* ids given out
    asked,      \* questions so far
    chats,      \* calls in flight: question, by whom, step, id, does the store still have what it holds
    bubble      \* the dashboard's bubble: ready for a question, waiting for its answer, or down

assistantVars == <<store, started, asked, chats, bubble>>

Ids == 1..MaxConversations
Gone == <<[q |-> 0, role |-> "gone"]>>

\* A message of question q: the question itself or the answer to it.
Said(q, role) == [q |-> q, role |-> role]

AssistantTypeOK ==
    /\ \A id \in Ids : store[id] = Gone \/ \A n \in DOMAIN store[id] :
            store[id][n] \in [q : 1..asked, role : {"user", "assistant"}]
    /\ started \in 0..MaxConversations /\ asked \in 0..MaxMessages
    /\ chats \subseteq [q : 1..asked, by : {"bubble", "caller"}, at : {"organization", "model"},
                        id : 0..started, stored : BOOLEAN]
    /\ bubble \in {"ready", "waiting", "down"}

AssistantInit ==
    /\ store = [id \in Ids |-> Gone] /\ started = 0 /\ asked = 0
    /\ chats = {} /\ bubble = "ready"

-----------------------------------------------------------------------------
Question(who, id) ==
    /\ asked < MaxMessages
    /\ asked' = asked + 1
    /\ chats' = chats \cup {[q |-> asked + 1, by |-> who, at |-> "organization", id |-> id, stored |-> FALSE]}

\* handleSendPrompt: the input is disabled until the answer is there. The id that
\* came with an earlier answer is looked for beside the field it is in, so that
\* none is ever sent.
SendPrompt ==
    /\ bubble = "ready" /\ bubble' = "waiting"
    /\ Question("bubble", 0)
    /\ UNCHANGED <<store, started>>

\* A caller that goes on with a conversation, cleared or lost as it may be.
AskApi ==
    /\ \E id \in 0..started : Question("caller", id)
    /\ UNCHANGED <<store, started, bubble>>

\* The conversation is found, made under the id that was sent, or made under a
\* new one; the question is stored in it.
Resolve(c) ==
    /\ c.at = "organization" /\ (c.id = 0 => started < MaxConversations)
    /\ LET id == IF c.id = 0 THEN started + 1 ELSE c.id IN
        /\ started' = IF c.id = 0 THEN id ELSE started
        /\ store' = [store EXCEPT ![id] = Append(IF @ = Gone THEN <<>> ELSE @, Said(c.q, "user"))]
        /\ chats' = (chats \ {c}) \cup {[c EXCEPT !.at = "model", !.id = id, !.stored = TRUE]}
    /\ UNCHANGED <<asked, bubble>>

\* Mutant: the conversation is put back into the store with the answer.
WithAnswer_PutBack(c, messages) ==
    Append(IF messages = Gone THEN <<>> ELSE messages, Said(c.q, "assistant"))

\* The answer goes into the conversation that the call holds.
WithAnswer(c, messages) == IF c.stored THEN Append(messages, Said(c.q, "assistant")) ELSE messages

\* The answer is shown by the field it does not have, which no page of the
\* dashboard survives; without an answer there is a line that says so.
Show(c, delivered) ==
    bubble' = IF c.by = "caller" THEN bubble ELSE IF delivered THEN "down" ELSE "ready"

\* The model answers, or a fixed text stands in for it.
Reply(c) ==
    /\ c.at = "model"
    /\ store' = [store EXCEPT ![c.id] = WithAnswer(c, @)]
    /\ chats' = chats \ {c}
    /\ \E delivered \in BOOLEAN : Show(c, delivered)
    /\ UNCHANGED <<started, asked>>

\* The organization cannot be read.
NoOrganization(c) ==
    /\ c.at = "organization"
    /\ chats' = chats \ {c}
    /\ Show(c, FALSE)
    /\ UNCHANGED <<store, started, asked>>

\* The page is loaded again; an answer that is awaited finds nobody.
ReloadPage ==
    /\ bubble # "ready" /\ bubble' = "ready"
    /\ chats' = {[c EXCEPT !.by = "caller"] : c \in chats}
    /\ UNCHANGED <<store, started, asked>>

\* clearConversation, by a caller: the bubble has no button for it.
ClearConversation ==
    /\ \E id \in 1..started :
        /\ store[id] # Gone
        /\ store' = [store EXCEPT ![id] = Gone]
        /\ chats' = {IF c.id = id THEN [c EXCEPT !.stored = FALSE] ELSE c : c \in chats}
    /\ UNCHANGED <<started, asked, bubble>>

Restart ==
    /\ started > 0
    /\ store' = [id \in Ids |-> Gone]
    /\ chats' = {}
    /\ bubble' = IF bubble = "waiting" THEN "ready" ELSE bubble
    /\ UNCHANGED <<started, asked>>

AssistantNext ==
    \/ SendPrompt \/ AskApi \/ ReloadPage \/ ClearConversation \/ Restart
    \/ \E c \in chats : Resolve(c) \/ Reply(c) \/ NoOrganization(c)

AssistantSpec == AssistantInit /\ [][AssistantNext]_assistantVars

-----------------------------------------------------------------------------
(* Properties *)

\* A stored conversation makes sense: every answer in it comes after its
\* question, once, and every question without one has a call that awaits it. The
\* answer to a question that was cleared does not turn up in what came after it.
AnswersInPlace ==
    \A id \in Ids : store[id] # Gone => \A n \in DOMAIN store[id] :
        LET m == store[id][n]
            places(role) == {k \in DOMAIN store[id] : store[id][k] = Said(m.q, role)}
        IN  IF m.role = "assistant" THEN places("assistant") = {n} /\ \E k \in places("user") : k < n
            ELSE places("assistant") # {} \/ \E c \in chats : c.q = m.q /\ c.id = id /\ c.stored
=============================================================================
