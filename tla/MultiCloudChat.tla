----------------------------- MODULE MultiCloudChat -----------------------------
(***************************************************************************)
(* The chat page: one session for the chat, which fails over between the   *)
(* brokers of several clouds, one session per cloud that checks whether    *)
(* its broker is up, and a picture of both that is drawn when its images   *)
(* have loaded.  The brokers and the messaging API are outside the code.   *)
(***************************************************************************)
EXTENDS Naturals, Sequences, FiniteSets

CONSTANTS
    Clouds,      \* cloudPropertiesMap
    NoCloud,     \* no line in the picture
    MaxLoads,    \* bound: images that load at a time
    MaxRequests  \* bound: subscription requests on their way, or their answers

ASSUME ChatAssumption == NoCloud \notin Clouds /\ MaxLoads \in Nat \ {0} /\ MaxRequests \in Nat \ {0}

VARIABLES
    brokers,     \* clouds whose broker runs, external
    up, connected,  \* what cloudPropertiesMap says of each cloud
    checkers,    \* the session of each CloudSessionChecker
    chatter,     \* the session of SolaceChatter, the cloud it is at, subscribed
    broker,      \* external: the subscription at the broker, the requests and answers on their way
    canvas       \* the picture: line, crosses, images that load

chatVars == <<brokers, up, connected, checkers, chatter, broker, canvas>>
sessions == <<checkers, chatter, broker>>

\* A session that failed to connect is kept, and nothing will come of it.
SessionStates == {"none", "connecting", "failed", "up", "reconnecting"}

ChatTypeOK ==
    /\ brokers \subseteq Clouds /\ up \subseteq Clouds /\ connected \subseteq Clouds
    /\ checkers \in [Clouds -> SessionStates]
    /\ chatter \in [session : SessionStates, at : Clouds \union {NoCloud}, subscribed : BOOLEAN]
    /\ broker \in [subscribed : BOOLEAN, sent : Seq(BOOLEAN), late : Nat, done : Nat,
                   lone : BOOLEAN, sure : BOOLEAN]
    /\ broker.done + Len(broker.sent) <= MaxRequests /\ broker.late <= Len(broker.sent)
    /\ canvas \in [line : SUBSET Clouds, crosses : SUBSET Clouds, maps : 0..MaxLoads,
                   marks : 0..MaxLoads]

\* A session without a subscription.  sent are the requests the broker has not got to, with
\* what they ask for, late how many of the first of them were given up, done the requests
\* it carried out and whose answer is on its way.  lone: nothing else was on its way from
\* the making of the last request on.  sure: neither did two requests overlap nor was one
\* given up, or a lone request has been confirmed since.
NoSubscription ==
    [subscribed |-> FALSE, sent |-> <<>>, late |-> 0, done |-> 0, lone |-> TRUE, sure |-> TRUE]

\* signIn has made all sessions and they connect.
ChatInit ==
    /\ brokers \in SUBSET Clouds /\ up = Clouds /\ connected = {}
    /\ checkers = [c \in Clouds |-> "connecting"]
    /\ chatter = [session |-> "connecting", at |-> NoCloud, subscribed |-> FALSE]
    /\ broker = NoSubscription
    /\ canvas = [line |-> {}, crosses |-> {}, maps |-> 0, marks |-> 0]

--------------------------------------------------------------------------------
(* The picture *)

\* updateCanvas clears at once and draws when the images are there.
updateCanvas ==
    /\ canvas.maps < MaxLoads
    /\ canvas' = [line |-> {}, crosses |-> {}, maps |-> canvas.maps + 1, marks |-> canvas.marks]

\* The map covers what was drawn; the line and the crosses show the flags of then.
MapLoads ==
    /\ canvas.maps > 0 /\ canvas.marks < MaxLoads
    /\ canvas' = [line |-> connected, crosses |-> {}, maps |-> canvas.maps - 1,
                  marks |-> canvas.marks + 1]
    /\ UNCHANGED <<brokers, up, connected, sessions>>

MarkLoads ==
    /\ canvas.marks > 0
    /\ canvas' = [line |-> canvas.line, crosses |-> canvas.crosses \union (Clouds \ up),
                  maps |-> canvas.maps, marks |-> canvas.marks - 1]
    /\ UNCHANGED <<brokers, up, connected, sessions>>

--------------------------------------------------------------------------------
(* CloudSessionChecker *)

\* A notice sets the flag of the cloud and has the picture drawn.
notice(c, from, to, isUp) ==
    /\ checkers[c] \in from
    /\ checkers' = [checkers EXCEPT ![c] = to]
    /\ up' = IF isUp THEN up \union {c} ELSE up \ {c}
    /\ updateCanvas
    /\ UNCHANGED <<brokers, connected, chatter, broker>>

\* A bug: the notice of a new connection is not drawn.
CheckerReconnectedUndrawn(c) ==
    /\ c \in brokers /\ checkers[c] = "reconnecting"
    /\ checkers' = [checkers EXCEPT ![c] = "up"] /\ up' = up \union {c}
    /\ UNCHANGED <<brokers, connected, chatter, broker, canvas>>

CheckerUp(c)           == c \in brokers /\ notice(c, {"connecting"}, "up", TRUE)
CheckerFails(c)        == notice(c, {"connecting"}, "failed", FALSE)
CheckerReconnecting(c) == c \notin brokers /\ notice(c, {"up"}, "reconnecting", FALSE)
CheckerReconnected(c)  == c \in brokers /\ notice(c, {"reconnecting"}, "up", TRUE)
CheckerDisconnected(c) == notice(c, {"up", "reconnecting"}, "none", FALSE)

\* connect, once more: it does nothing while there is a session, also a failed one.
CheckerConnect(c) ==
    /\ checkers[c] = "none" /\ checkers' = [checkers EXCEPT ![c] = "connecting"]
    /\ UNCHANGED <<brokers, up, connected, chatter, broker, canvas>>

--------------------------------------------------------------------------------
(* SolaceChatter *)

\* getCloudFromInfoStr: the cloud of the host is the only connected one.
getCloudFromInfoStr(c) == connected' = {c} /\ updateCanvas

Quiet == broker.done = 0 /\ broker.sent = <<>>

\* subscribe without the flag, unsubscribe with it; the page does not wait for the answer
\* to the last one.
request ==
    /\ broker.done + Len(broker.sent) < MaxRequests
    /\ broker' = [broker EXCEPT !.sent = Append(@, ~chatter.subscribed), !.lone = Quiet,
                                !.sure = @ /\ Quiet]

\* UP_NOTICE: the session of a host of hostList, and it subscribes.
ChatterUp(c) ==
    /\ chatter.session = "connecting" /\ c \in brokers
    /\ chatter' = [chatter EXCEPT !.session = "up", !.at = c]
    /\ getCloudFromInfoStr(c) /\ request
    /\ UNCHANGED <<brokers, up, checkers>>

\* CONNECT_FAILED_ERROR is logged; the session stays.
ChatterFails ==
    /\ chatter.session = "connecting" /\ chatter' = [chatter EXCEPT !.session = "failed"]
    /\ UNCHANGED <<brokers, up, connected, checkers, broker, canvas>>

ChatterReconnecting ==
    /\ chatter.session = "up" /\ chatter.at \notin brokers
    /\ chatter' = [session |-> "reconnecting", at |-> NoCloud, subscribed |-> chatter.subscribed]
    /\ UNCHANGED <<brokers, up, connected, checkers, broker, canvas>>

\* A bug: a failover does not look at the host it reached.
ChatterReconnectedAnywhere(c) ==
    /\ chatter.session = "reconnecting" /\ c \in brokers
    /\ chatter' = [chatter EXCEPT !.session = "up", !.at = c]
    /\ UNCHANGED <<brokers, up, connected, checkers, broker, canvas>>

\* The API applies the subscriptions again at the host it reached.
ChatterReconnected(c) ==
    /\ chatter.session = "reconnecting" /\ c \in brokers
    /\ chatter' = [chatter EXCEPT !.session = "up", !.at = c]
    /\ getCloudFromInfoStr(c)
    /\ UNCHANGED <<brokers, up, checkers, broker>>

\* disconnect asks a session for its end; the API gives up one it cannot connect again.
disconnect == chatter.session \in {"up", "reconnecting"}

\* A bug: the flag survives the session.
ChatterDisconnectedSubscribed ==
    /\ disconnect
    /\ chatter' = [chatter EXCEPT !.session = "none", !.at = NoCloud]
    /\ broker' = NoSubscription
    /\ UNCHANGED <<brokers, up, connected, checkers, canvas>>

\* DISCONNECTED: the session is disposed with its requests, and the cloud stays marked as
\* connected.
ChatterDisconnected ==
    /\ disconnect
    /\ chatter' = [session |-> "none", at |-> NoCloud, subscribed |-> FALSE]
    /\ broker' = NoSubscription
    /\ UNCHANGED <<brokers, up, connected, checkers, canvas>>

ChatterConnect ==
    /\ chatter.session = "none" /\ chatter' = [chatter EXCEPT !.session = "connecting"]
    /\ UNCHANGED <<brokers, up, connected, checkers, broker, canvas>>

\* The button of subscribe or of unsubscribe; the other one does nothing.
ChatterRequest ==
    /\ chatter.session = "up" /\ request
    /\ UNCHANGED <<brokers, up, connected, checkers, chatter, canvas>>

\* SUBSCRIPTION_OK does not tell which request it answers: the flag is turned over.
SubscriptionOk ==
    /\ chatter.session = "up" /\ broker.done > 0
    /\ chatter' = [chatter EXCEPT !.subscribed = ~@]
    /\ broker' = [broker EXCEPT !.done = @ - 1, !.sure = broker.lone]
    /\ UNCHANGED <<brokers, up, connected, checkers, canvas>>

\* SUBSCRIPTION_ERROR is shown: the broker refuses a request.
SubscriptionRefused ==
    /\ chatter.session = "up" /\ broker.done = 0 /\ broker.sent # <<>>
    /\ broker' = [broker EXCEPT !.sent = Tail(@), !.late = IF @ > 0 THEN @ - 1 ELSE 0]
    /\ UNCHANGED <<brokers, up, connected, checkers, chatter, canvas>>

\* SUBSCRIPTION_ERROR is shown: no answer within ten seconds, to a request that the broker
\* has carried out or may still carry out.
SubscriptionTimeout ==
    /\ chatter.session = "up"
    /\ \/ broker.done > 0
          /\ broker' = [broker EXCEPT !.done = @ - 1, !.lone = FALSE, !.sure = FALSE]
       \/ broker.done = 0 /\ broker.late < Len(broker.sent)
          /\ broker' = [broker EXCEPT !.late = @ + 1, !.lone = FALSE, !.sure = FALSE]
    /\ UNCHANGED <<brokers, up, connected, checkers, chatter, canvas>>

--------------------------------------------------------------------------------

\* External: a broker stops or starts.
BrokerTurns(c) ==
    /\ brokers' = IF c \in brokers THEN brokers \ {c} ELSE brokers \union {c}
    /\ UNCHANGED <<up, connected, sessions, canvas>>

\* External: the broker carries the requests out in their order, given up or not.
BrokerSubscribes ==
    /\ chatter.session = "up" /\ broker.sent # <<>>
    /\ broker' = [broker EXCEPT
          !.subscribed = Head(broker.sent), !.sent = Tail(@),
          !.late = IF @ > 0 THEN @ - 1 ELSE 0, !.done = IF broker.late > 0 THEN @ ELSE @ + 1]
    /\ UNCHANGED <<brokers, up, connected, checkers, chatter, canvas>>

ChatNext ==
    \/ MapLoads \/ MarkLoads
    \/ \E c \in Clouds :
          \/ CheckerUp(c) \/ CheckerFails(c) \/ CheckerReconnecting(c) \/ CheckerReconnected(c)
          \/ CheckerDisconnected(c) \/ CheckerConnect(c)
          \/ ChatterUp(c) \/ ChatterReconnected(c) \/ BrokerTurns(c)
    \/ ChatterFails \/ ChatterReconnecting \/ ChatterDisconnected \/ ChatterConnect
    \/ ChatterRequest \/ SubscriptionOk \/ SubscriptionRefused \/ SubscriptionTimeout
    \/ BrokerSubscribes

ChatSpec == ChatInit /\ [][ChatNext]_chatVars

--------------------------------------------------------------------------------

\* When no image loads the picture is that of the flags, whatever order the images of
\* several drawings came in: every handler that changes a flag has it drawn.
CanvasShowsClouds ==
    canvas.maps = 0 /\ canvas.marks = 0 =>
        canvas.line = connected /\ canvas.crosses = Clouds \ up

\* While the chat session is up its cloud is the connected one and no other, through
\* failovers and new sessions.
ChatShowsItsCloud == chatter.session = "up" => connected = {chatter.at}

\* With no request and no answer on the way the flag tells whether the broker delivers.  It
\* may be wrong after two requests overlapped, whose answers turn it over twice, or after
\* one was given up that the broker carries out all the same; but the next request that is
\* confirmed with no other beside it puts it right.
SubscribedMeansIt == Quiet /\ broker.sure => chatter.subscribed = broker.subscribed
================================================================================
