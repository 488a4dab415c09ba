------------------------------ MODULE Gateway ------------------------------
(***************************************************************************)
(* The socket gateway and the chat page on top of it: connections and      *)
(* their handshake, the identities the gateway keeps of them, one channel  *)
(* with its room, its stored messages and the list every open page shows.  *)
(* socket.io is external: it keeps what a client emits until there is a    *)
(* connection, delivers in order, reconnects by itself after a loss but    *)
(* not after the server has closed the connection. No operation of the     *)
(* code writes ChatChannelMember rows; insiders are the clients whose user *)
(* has one.                                                                *)
(***************************************************************************)
EXTENDS Naturals, Sequences, FiniteSets

CONSTANTS
    Clients,        \* browsers, one socket each
    Handlers,       \* messages to the gateway being handled
    MaxConnections, \* bound: connections opened
    MaxPosts,       \* bound: chat messages, those of the backlog included
    Backlog,        \* messages the channel has before anybody opens it
    HistoryLimit,   \* rows of a history at most: "data.limit || 50", and the page sends no limit
    MaxVisits       \* bound: openings of the chat page

ASSUME GateAssumption == MaxPosts \in Nat /\ Backlog \in 0..MaxPosts /\ HistoryLimit \in Nat \ {0}

Posts == 1..MaxPosts

VARIABLES
    insiders,       \* clients whose user is a member of the channel
    conn,           \* each client: the number of its connection, 0 when it has none
    holder,         \* the client of each connection there has been
    verifying,      \* connections whose token is being verified
    known,          \* connectedClients
    inRoom,         \* connections in the room of the channel
    shut,           \* clients the server has disconnected
    outbox,         \* each client: what it has emitted and the gateway not received
    shown, view,    \* each client: is the chat page open; how often it lists each message
    sent, chatLog,  \* number of messages sent; those with a row, in their order
    visits,         \* openings of the page so far
    task, onConn, post, got,    \* each handler: step, connection, message, rows read
    endedEarly,           \* history: connections that ended while something of theirs was awaited
    adrift,         \* history: clients that lost the connection their page was opened on
    crossed         \* history, each client: messages it may miss or list twice

handlerVars == <<task, onConn, post, got>>
serverVars == <<insiders, conn, holder, verifying, known, inRoom, shut, endedEarly>>
pageVars == <<shown, view, visits>>
chatVars == <<sent, chatLog, crossed>>
gateVars == <<serverVars, outbox, adrift, pageVars, chatVars, handlerVars>>

Connections == 1..Len(holder)
stored == {chatLog[i] : i \in DOMAIN chatLog}
Asks == {"join-channel", "load-history", "chat-message"}

GateTypeOK ==
    /\ insiders \subseteq Clients /\ shut \subseteq Clients /\ adrift \subseteq Clients
    /\ holder \in Seq(Clients) /\ conn \in [Clients -> 0..Len(holder)]
    /\ verifying \cup known \cup inRoom \cup endedEarly \subseteq Connections
    /\ \A c \in Clients : outbox[c] \in Seq([what : Asks, m : 0..MaxPosts])
    /\ shown \in [Clients -> BOOLEAN] /\ view \in [Clients -> [Posts -> Nat]] /\ visits \in Nat
    /\ sent \in 0..MaxPosts /\ chatLog \in Seq(Posts)
    /\ task \in [Handlers -> Asks \cup {"idle", "create", "cast", "read", "emit"}]
    /\ onConn \in [Handlers -> 0..Len(holder)] /\ post \in [Handlers -> 0..MaxPosts]
    /\ got \in [Handlers -> SUBSET Posts] /\ crossed \in [Clients -> SUBSET Posts]

GateInit ==
    /\ insiders \in SUBSET Clients
    /\ conn = [c \in Clients |-> 0] /\ holder = <<>>
    /\ verifying = {} /\ known = {} /\ inRoom = {} /\ shut = {} /\ endedEarly = {} /\ adrift = {}
    /\ outbox = [c \in Clients |-> <<>>] /\ shown = [c \in Clients |-> FALSE] /\ visits = 0
    /\ view = [c \in Clients |-> [m \in Posts |-> 0]]
    /\ sent = Backlog /\ chatLog = [i \in 1..Backlog |-> i] /\ crossed = [c \in Clients |-> {}]
    /\ task = [h \in Handlers |-> "idle"] /\ onConn = [h \in Handlers |-> 0]
    /\ post = [h \in Handlers |-> 0] /\ got = [h \in Handlers |-> {}]

-----------------------------------------------------------------------------
(* Helpers *)

Stepped(h, step) == task' = [task EXCEPT ![h] = step]

\* The gateway is through with what handler h was given.
Through(h) ==
    /\ Stepped(h, "idle")
    /\ onConn' = [onConn EXCEPT ![h] = 0] /\ post' = [post EXCEPT ![h] = 0]
    /\ got' = [got EXCEPT ![h] = {}]

\* Messages emitted and not broadcast yet.
OnTheirWay ==
    ({post[h] : h \in Handlers} \cup {e.m : e \in UNION {{outbox[c][i] : i \in DOMAIN outbox[c]} : c \in Clients}}) \ {0}

\* Client c has asked for the room or the history and has not got it yet.
Filling(c) ==
    \/ \E i \in DOMAIN outbox[c] : outbox[c][i].m = 0
    \/ \E h \in Handlers : onConn[h] # 0 /\ holder[onConn[h]] = c /\ post[h] = 0

\* Connection n is no more: handleDisconnect forgets its identity, and
\* socket.io takes it out of its rooms.
Ends(n) ==
    /\ conn' = [c \in Clients |-> IF conn[c] = n THEN 0 ELSE conn[c]]
    /\ inRoom' = inRoom \ {n}
    /\ endedEarly' = endedEarly \cup ({n} \cap (verifying \cup {onConn[h] : h \in Handlers}))
    /\ adrift' = adrift \cup {c \in Clients : conn[c] = n /\ shown[c]}

\* Mutant: the entry of a connection that ends stays.
Forget_Nothing(n) == known' = known

Forget(n) == known' = known \ {n}

-----------------------------------------------------------------------------
(* Connections *)

\* handleConnection reads the token and waits for its verification.
Connect(c) ==
    /\ conn[c] = 0 /\ c \notin shut /\ Len(holder) < MaxConnections
    /\ holder' = Append(holder, c)
    /\ conn' = [conn EXCEPT ![c] = Len(holder) + 1]
    /\ verifying' = verifying \cup {Len(holder) + 1}
    /\ UNCHANGED <<insiders, known, inRoom, shut, endedEarly, outbox, adrift, pageVars, chatVars, handlerVars>>

\* The token is good: the identity is recorded, whether or not the
\* connection is still there.
Verified(n) ==
    /\ verifying' = verifying \ {n}
    /\ known' = known \cup {n}
    /\ UNCHANGED <<insiders, conn, holder, inRoom, shut, endedEarly, outbox, adrift, pageVars, chatVars, handlerVars>>

\* client.disconnect(true), after which the client does not reconnect.
Shut(n) ==
    /\ Ends(n) /\ Forget(n)
    /\ shut' = shut \cup {c \in Clients : conn[c] = n}
    /\ UNCHANGED <<insiders, holder>>

\* The token is bad or has expired.
Rejected(n) ==
    /\ verifying' = verifying \ {n}
    /\ Shut(n)
    /\ UNCHANGED <<outbox, pageVars, chatVars, handlerVars>>

\* The connection is lost, and with it what was emitted on it, unless the client
\* still kept that until it would be connected.
Lose(c) ==
    /\ conn[c] # 0
    /\ Ends(conn[c]) /\ Forget(conn[c])
    /\ outbox' \in {outbox, [outbox EXCEPT ![c] = <<>>]}
    /\ UNCHANGED <<insiders, holder, verifying, shut, pageVars, chatVars, handlerVars>>

\* A message from client c reaches the gateway, which disconnects a socket it
\* does not know (yet).
Receive(h, c) ==
    /\ task[h] = "idle" /\ conn[c] # 0 /\ outbox[c] # <<>>
    /\ outbox' = [outbox EXCEPT ![c] = Tail(@)]
    /\ IF conn[c] \in known
       THEN /\ Stepped(h, Head(outbox[c]).what)
            /\ onConn' = [onConn EXCEPT ![h] = conn[c]]
            /\ post' = [post EXCEPT ![h] = Head(outbox[c]).m]
            /\ UNCHANGED <<serverVars, adrift, got>>
       ELSE Shut(conn[c]) /\ UNCHANGED <<verifying, handlerVars>>
    /\ UNCHANGED <<pageVars, chatVars>>

-----------------------------------------------------------------------------
(* The channel *)

IsChannelMember(h) == holder[onConn[h]] \in insiders

\* What a history leaves out: the rows before its HistoryLimit newest ones.
Older == stored \ {chatLog[i] : i \in {j \in DOMAIN chatLog : j + HistoryLimit > Len(chatLog)}}

\* The query for the membership throws, and nothing catches that: the handler ends,
\* nothing is emitted, and a history that was asked for never comes.
CheckThrows(h) ==
    /\ task[h] \in Asks
    /\ crossed' = IF task[h] = "load-history" THEN [crossed EXCEPT ![holder[onConn[h]]] = @ \cup stored] ELSE crossed
    /\ Through(h)
    /\ UNCHANGED <<serverVars, outbox, adrift, pageVars, sent, chatLog>>

\* handleJoinChannel; client.join puts even a closed socket into the room.
JoinChannel(h) ==
    /\ task[h] = "join-channel"
    /\ inRoom' = IF IsChannelMember(h) THEN inRoom \cup {onConn[h]} ELSE inRoom
    /\ Through(h)
    /\ UNCHANGED <<insiders, conn, holder, verifying, known, shut, endedEarly, outbox, adrift, pageVars, chatVars>>

CheckAuthor(h) ==
    /\ task[h] = "chat-message"
    /\ IF IsChannelMember(h) THEN Stepped(h, "create") /\ UNCHANGED <<onConn, post, got>> ELSE Through(h)
    /\ UNCHANGED <<serverVars, outbox, adrift, pageVars, chatVars>>

\* The row is written; when that fails the message is broadcast all the same.
CreateMessage(h) ==
    /\ task[h] = "create"
    /\ \/ chatLog' = Append(chatLog, post[h]) /\ UNCHANGED crossed
       \/ crossed' = [c \in Clients |-> crossed[c] \cup {post[h]}] /\ UNCHANGED chatLog
    /\ Stepped(h, "cast")
    /\ UNCHANGED <<serverVars, outbox, adrift, pageVars, sent, onConn, post, got>>

\* Mutant: client.to(room) instead of server.to(room).
Audience_Others(h) == {c \in Clients : shown[c] /\ conn[c] \in inRoom \ {onConn[h]}}

\* The open pages that a broadcast to the room reaches.
Audience(h) == {c \in Clients : shown[c] /\ conn[c] \in inRoom}

Broadcast(h) ==
    /\ task[h] = "cast"
    /\ view' = [c \in Clients |-> IF c \in Audience(h) THEN [view[c] EXCEPT ![post[h]] = @ + 1] ELSE view[c]]
    /\ Through(h)
    /\ UNCHANGED <<serverVars, outbox, adrift, shown, visits, chatVars>>

\* handleLoadHistory: a read that fails is answered with an empty history.
ReadHistory(h) ==
    /\ \/ /\ task[h] = "load-history" /\ IsChannelMember(h)
          /\ Stepped(h, "read") /\ UNCHANGED <<got, crossed>>
       \/ /\ task[h] = "load-history" /\ ~IsChannelMember(h)
          /\ Stepped(h, "emit") /\ UNCHANGED <<got, crossed>>
       \/ /\ task[h] = "read"
          /\ Stepped(h, "emit")
          /\ \/ got' = [got EXCEPT ![h] = stored \ Older] /\ UNCHANGED crossed
             \/ crossed' = [crossed EXCEPT ![holder[onConn[h]]] = @ \cup stored] /\ UNCHANGED got
    /\ UNCHANGED <<serverVars, outbox, adrift, pageVars, sent, chatLog, onConn, post>>

\* The page replaces its list by the history.
EmitHistory(h) ==
    /\ task[h] = "emit"
    /\ LET c == holder[onConn[h]] IN
        view' = IF conn[c] = onConn[h] /\ shown[c]
                THEN [view EXCEPT ![c] = [m \in Posts |-> IF m \in got[h] THEN 1 ELSE 0]]
                ELSE view
    /\ Through(h)
    /\ UNCHANGED <<serverVars, outbox, adrift, shown, visits, chatVars>>

-----------------------------------------------------------------------------
(* The chat page *)

Request(what, m) == [what |-> what, m |-> m]

\* The effect on the socket and the channel. It does not run again when the
\* socket has reconnected.
OpenPage(c) ==
    /\ ~shown[c] /\ visits < MaxVisits
    /\ visits' = visits + 1
    /\ shown' = [shown EXCEPT ![c] = TRUE]
    /\ view' = [view EXCEPT ![c] = [m \in Posts |-> 0]]
    /\ outbox' = [outbox EXCEPT ![c] = @ \o <<Request("join-channel", 0), Request("load-history", 0)>>]
    /\ crossed' = [crossed EXCEPT ![c] = OnTheirWay \cup (IF Filling(c) THEN @ ELSE {})]
    /\ adrift' = adrift \ {c}
    /\ UNCHANGED <<serverVars, sent, chatLog, handlerVars>>

\* Its cleanup takes the listeners off, and its list goes with it; the room is
\* not left.
ClosePage(c) ==
    /\ shown[c]
    /\ shown' = [shown EXCEPT ![c] = FALSE]
    /\ view' = [view EXCEPT ![c] = [m \in Posts |-> 0]] /\ adrift' = adrift \ {c}
    /\ UNCHANGED <<serverVars, outbox, visits, chatVars, handlerVars>>

\* handleSendMessage emits the message and does not list it.
SendMessage(c) ==
    /\ shown[c] /\ sent < MaxPosts
    /\ sent' = sent + 1
    /\ outbox' = [outbox EXCEPT ![c] = Append(@, Request("chat-message", sent + 1))]
    /\ crossed' = [d \in Clients |-> IF Filling(d) THEN crossed[d] \cup {sent + 1} ELSE crossed[d]]
    /\ UNCHANGED <<serverVars, adrift, pageVars, chatLog, handlerVars>>

-----------------------------------------------------------------------------
GateNext ==
    \/ \E c \in Clients : Connect(c) \/ Lose(c) \/ OpenPage(c) \/ ClosePage(c) \/ SendMessage(c)
    \/ \E n \in verifying : Verified(n) \/ Rejected(n)
    \/ \E h \in Handlers :
        \/ JoinChannel(h) \/ CheckAuthor(h) \/ CreateMessage(h) \/ Broadcast(h) \/ ReadHistory(h) \/ EmitHistory(h)
        \/ CheckThrows(h)
        \/ \E c \in Clients : Receive(h, c)

GateSpec == GateInit /\ [][GateNext]_gateVars

-----------------------------------------------------------------------------
(* Properties *)

\* The gateway remembers open connections only, or ones that ended while
\* their token was being verified (handleConnection, handleDisconnect).
KnownIsOpen == \A n \in known : conn[holder[n]] = n \/ n \in endedEarly

\* An open chat page in the room, filled since its connection was opened,
\* lists every stored message once and nothing else, but for the messages
\* under way while it was filled, those whose row was not written and, where
\* its history could not be read, those there were then. It may lack the ones
\* that are not among the HistoryLimit newest, and no other. The list is made of
\* two sources, the history and the broadcasts, which no handler orders.
ViewIsHistory ==
    \A c \in Clients :
        shown[c] /\ conn[c] \in inRoom /\ c \notin adrift /\ ~Filling(c) =>
            \A m \in Posts \ (crossed[c] \cup OnTheirWay) :
                IF m \in stored THEN view[c][m] = 1 \/ (view[c][m] = 0 /\ m \in Older) ELSE view[c][m] = 0
=============================================================================
