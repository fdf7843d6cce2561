-------------------------- MODULE MultiCloudChatProofs --------------------------
(***************************************************************************)
(* Proofs about MultiCloudChat for every set of clouds and both bounds.    *)
(***************************************************************************)
EXTENDS MultiCloudChat, TLAPS

\* The steps that leave the picture and the flags of the clouds as they are.
Undrawn == UNCHANGED <<up, connected, canvas>>

\* What the picture shows between two drawings.  Once no map loads, the line is that of
\* the flags and no cross is on a cloud that is up; the last cross may be missing.
PictureInv ==
    /\ canvas.maps = 0 => canvas.line = connected /\ canvas.crosses \subseteq Clouds \ up
    /\ CanvasShowsClouds

\* What is on its way with a lone request: itself, which asks for the opposite of the flag,
\* or its answer, and then the broker has done it.
LoneInv ==
    \/ broker.done = 0 /\ broker.sent = <<~chatter.subscribed>> /\ broker.late = 0
    \/ broker.done = 1 /\ broker.sent = <<>> /\ broker.subscribed = ~chatter.subscribed

\* Where it is sure, what is on its way is lone; until the broker gets to it the flag is
\* right.
FlagInv ==
    /\ ~Quiet /\ broker.lone => LoneInv
    /\ ~Quiet /\ broker.sure => broker.lone
    /\ broker.sure /\ broker.done = 0 => chatter.subscribed = broker.subscribed

\* The bounds are positive, and no cloud is NoCloud.
LEMMA ChatConstants ==
    NoCloud \notin Clouds /\ MaxLoads \in Nat /\ MaxLoads > 0 /\ MaxRequests \in Nat /\ MaxRequests > 0
  BY ChatAssumption

--------------------------------------------------------------------------------
(* Typing *)

CanvasOK == canvas \in [line : SUBSET Clouds, crosses : SUBSET Clouds, maps : 0..MaxLoads,
                        marks : 0..MaxLoads]
FlagsOK == brokers \subseteq Clouds /\ up \subseteq Clouds /\ connected \subseteq Clouds
CheckersOK == checkers \in [Clouds -> SessionStates]
ChatterOK == chatter \in [session : SessionStates, at : Clouds \union {NoCloud}, subscribed : BOOLEAN]
BrokerOK ==
    /\ broker \in [subscribed : BOOLEAN, sent : Seq(BOOLEAN), late : Nat, done : Nat,
                   lone : BOOLEAN, sure : BOOLEAN]
    /\ broker.done + Len(broker.sent) <= MaxRequests /\ broker.late <= Len(broker.sent)

LEMMA ChatTypeParts ==
    ChatTypeOK <=> FlagsOK /\ CheckersOK /\ ChatterOK /\ BrokerOK /\ CanvasOK
  BY DEF ChatTypeOK, FlagsOK, CheckersOK, ChatterOK, BrokerOK, CanvasOK

\* updateCanvas keeps the type of the picture, and has a map to load.
LEMMA Redrawn ==
    ASSUME CanvasOK, updateCanvas PROVE CanvasOK' /\ canvas'.maps # 0
  BY ChatConstants DEF CanvasOK, updateCanvas

\* The fields of the broker's record.
LEMMA BrokerFields ==
    ASSUME BrokerOK
    PROVE  /\ broker = [subscribed |-> broker.subscribed, sent |-> broker.sent, late |-> broker.late,
                        done |-> broker.done, lone |-> broker.lone, sure |-> broker.sure]
           /\ broker.subscribed \in BOOLEAN /\ broker.sent \in Seq(BOOLEAN) /\ broker.late \in Nat
           /\ broker.done \in Nat /\ broker.lone \in BOOLEAN /\ broker.sure \in BOOLEAN
           /\ Len(broker.sent) \in Nat
           /\ broker.done + Len(broker.sent) <= MaxRequests /\ broker.late <= Len(broker.sent)
<1>1. broker \in [subscribed : BOOLEAN, sent : Seq(BOOLEAN), late : Nat, done : Nat,
                  lone : BOOLEAN, sure : BOOLEAN]
  BY DEF BrokerOK
<1>2. broker.sent \in Seq(BOOLEAN)
  BY <1>1
<1>3. Len(broker.sent) \in Nat
  BY <1>2
<1> QED
  BY <1>1, <1>2, <1>3 DEF BrokerOK

\* One request more at the end.
LEMMA Longer ==
    ASSUME NEW s \in Seq(BOOLEAN), NEW b \in BOOLEAN
    PROVE  /\ Append(s, b) \in Seq(BOOLEAN) /\ Len(Append(s, b)) = Len(s) + 1
           /\ Append(s, b) # <<>> /\ (s = <<>> => Append(s, b) = <<b>>)
<1>1. Append(s, b) \in Seq(BOOLEAN) /\ Len(Append(s, b)) = Len(s) + 1
  OBVIOUS
<1>2. Append(s, b) # <<>>
  OBVIOUS
<1>3. Append(<<>>, b) = <<b>>
  OBVIOUS
<1> QED
  BY <1>1, <1>2, <1>3

\* One request less at the front.
LEMMA Shorter ==
    ASSUME NEW s \in Seq(BOOLEAN), s # <<>>
    PROVE  /\ Tail(s) \in Seq(BOOLEAN) /\ Len(Tail(s)) = Len(s) - 1 /\ Len(s) \in Nat \ {0}
           /\ Head(s) \in BOOLEAN
  OBVIOUS

\* A sequence of one request.
LEMMA OnlyOne == ASSUME NEW b PROVE Head(<<b>>) = b /\ Tail(<<b>>) = <<>> /\ <<b>> # <<>>
  OBVIOUS

\* What a request leaves.
LEMMA Requested ==
    ASSUME BrokerOK, ChatterOK, request
    PROVE  /\ BrokerOK'
           /\ broker'.subscribed = broker.subscribed /\ broker'.done = broker.done
           /\ broker'.late = broker.late /\ broker'.sent = Append(broker.sent, ~chatter.subscribed)
           /\ broker'.lone = Quiet /\ broker'.sure = (broker.sure /\ Quiet)
<1>1. chatter.subscribed \in BOOLEAN /\ Quiet \in BOOLEAN
  BY DEF ChatterOK, Quiet
<1> DEFINE longer == Append(broker.sent, ~chatter.subscribed)
<1>2. /\ longer \in Seq(BOOLEAN) /\ Len(longer) = Len(broker.sent) + 1
      /\ broker.done + Len(broker.sent) < MaxRequests
  BY <1>1, BrokerFields, Longer DEF request
<1>3. broker' = [subscribed |-> broker.subscribed, sent |-> longer, late |-> broker.late,
                 done |-> broker.done, lone |-> Quiet, sure |-> (broker.sure /\ Quiet)]
  BY BrokerFields DEF request
<1> HIDE DEF longer
<1>4. broker.done + Len(longer) <= MaxRequests /\ broker.late <= Len(longer)
  BY <1>2, BrokerFields, ChatConstants
<1>5. (broker.sure /\ Quiet) \in BOOLEAN
  OBVIOUS
<1>6. BrokerOK'
  BY <1>1, <1>2, <1>3, <1>4, <1>5, BrokerFields DEF BrokerOK
<1> QED
  BY <1>3, <1>6 DEF longer

\* What the answer to the first request leaves.
LEMMA AnswerTaken ==
    ASSUME BrokerOK, NEW lone \in BOOLEAN, NEW sure \in BOOLEAN, broker.done > 0,
           broker' = [broker EXCEPT !.done = @ - 1, !.lone = lone, !.sure = sure]
    PROVE  /\ BrokerOK'
           /\ broker'.subscribed = broker.subscribed /\ broker'.done = broker.done - 1
           /\ broker'.sent = broker.sent /\ broker'.late = broker.late
           /\ broker'.lone = lone /\ broker'.sure = sure
<1>1. broker' = [subscribed |-> broker.subscribed, sent |-> broker.sent, late |-> broker.late,
                 done |-> broker.done - 1, lone |-> lone, sure |-> sure]
  BY BrokerFields
<1>2. broker.done - 1 \in Nat /\ broker.done - 1 + Len(broker.sent) <= MaxRequests
  BY BrokerFields, ChatConstants
<1>3. BrokerOK'
  BY <1>1, <1>2, BrokerFields DEF BrokerOK
<1> QED
  BY <1>1, <1>3

\* What giving up a request leaves that the broker has not got to.
LEMMA GivenUp ==
    ASSUME BrokerOK, broker.late < Len(broker.sent),
           broker' = [broker EXCEPT !.late = @ + 1, !.lone = FALSE, !.sure = FALSE]
    PROVE  BrokerOK' /\ broker'.lone = FALSE /\ broker'.sure = FALSE
<1>1. broker' = [subscribed |-> broker.subscribed, sent |-> broker.sent, late |-> broker.late + 1,
                 done |-> broker.done, lone |-> FALSE, sure |-> FALSE]
  BY BrokerFields
<1>2. broker.late + 1 \in Nat /\ broker.late + 1 <= Len(broker.sent)
  BY BrokerFields
<1>3. BrokerOK'
  BY <1>1, <1>2, BrokerFields DEF BrokerOK
<1> QED
  BY <1>1, <1>3

\* What the broker leaves that refuses its first request.
LEMMA Refused ==
    ASSUME BrokerOK, SubscriptionRefused
    PROVE  /\ BrokerOK'
           /\ broker'.subscribed = broker.subscribed /\ broker'.done = broker.done
           /\ broker'.sent = Tail(broker.sent)
           /\ broker'.lone = broker.lone /\ broker'.sure = broker.sure
<1> DEFINE late == IF broker.late > 0 THEN broker.late - 1 ELSE 0
           rest == Tail(broker.sent)
<1>1. broker' = [subscribed |-> broker.subscribed, sent |-> rest, late |-> late,
                 done |-> broker.done, lone |-> broker.lone, sure |-> broker.sure]
  BY BrokerFields DEF SubscriptionRefused
<1>2. rest \in Seq(BOOLEAN) /\ Len(rest) = Len(broker.sent) - 1 /\ Len(broker.sent) \in Nat \ {0}
  BY BrokerFields, Shorter DEF SubscriptionRefused
<1> HIDE DEF rest
<1>3. late \in Nat /\ late <= Len(rest) /\ broker.done + Len(rest) <= MaxRequests
  BY <1>2, BrokerFields, ChatConstants
<1> HIDE DEF late
<1>4. BrokerOK'
  BY <1>1, <1>2, <1>3, BrokerFields DEF BrokerOK
<1> QED
  BY <1>1, <1>4 DEF rest

\* What the broker leaves that carries its first request out.
LEMMA CarriedOut ==
    ASSUME BrokerOK, BrokerSubscribes
    PROVE  /\ BrokerOK'
           /\ broker'.subscribed = Head(broker.sent) /\ broker'.sent = Tail(broker.sent)
           /\ broker'.done = IF broker.late > 0 THEN broker.done ELSE broker.done + 1
           /\ broker'.lone = broker.lone /\ broker'.sure = broker.sure
<1> DEFINE late == IF broker.late > 0 THEN broker.late - 1 ELSE 0
           done == IF broker.late > 0 THEN broker.done ELSE broker.done + 1
           rest == Tail(broker.sent)
           first == Head(broker.sent)
<1>1. broker' = [subscribed |-> first, sent |-> rest, late |-> late, done |-> done,
                 lone |-> broker.lone, sure |-> broker.sure]
  BY BrokerFields DEF BrokerSubscribes
<1>2. /\ rest \in Seq(BOOLEAN) /\ Len(rest) = Len(broker.sent) - 1 /\ Len(broker.sent) \in Nat \ {0}
      /\ first \in BOOLEAN
  BY BrokerFields, Shorter DEF BrokerSubscribes
<1> HIDE DEF rest, first
<1>3. /\ late \in Nat /\ done \in Nat
      /\ late <= Len(rest) /\ done + Len(rest) <= MaxRequests
  BY <1>2, BrokerFields, ChatConstants
<1>d. done = IF broker.late > 0 THEN broker.done ELSE broker.done + 1
  OBVIOUS
<1> HIDE DEF late, done
<1>4. BrokerOK'
  BY <1>1, <1>2, <1>3, BrokerFields DEF BrokerOK
<1> QED
  BY <1>1, <1>4, <1>d DEF rest, first

\* A field of a record gets another value of its type.
LEMMA SessionSet ==
    ASSUME ChatterOK, NEW to \in SessionStates, chatter' = [chatter EXCEPT !.session = to]
    PROVE  ChatterOK'
  BY DEF ChatterOK

\* No request is a sequence of them.
LEMMA NothingSent == <<>> \in Seq(BOOLEAN) /\ Len(<<>>) = 0
  OBVIOUS

\* The steps that write the session and the subscription as a whole.
LEMMA SessionWritten ==
    ASSUME ChatterOK, BrokerOK, ChatterReconnecting \/ ChatterDisconnected
    PROVE  ChatterOK' /\ BrokerOK'
<1>b. chatter.subscribed \in BOOLEAN
  BY DEF ChatterOK
<1>1. ASSUME ChatterReconnecting PROVE ChatterOK' /\ BrokerOK'
  <2>1. ChatterOK'
    BY <1>b, <1>1 DEF ChatterReconnecting, SessionStates, ChatterOK
  <2> QED
    BY <1>1, <2>1 DEF ChatterReconnecting, BrokerOK
<1>2. ASSUME ChatterDisconnected PROVE ChatterOK' /\ BrokerOK'
  <2>1. ChatterOK'
    BY <1>2 DEF ChatterDisconnected, SessionStates, ChatterOK
  <2>2. BrokerOK'
    BY <1>2, ChatConstants, NothingSent DEF ChatterDisconnected, BrokerOK, NoSubscription
  <2> QED
    BY <2>1, <2>2
<1> QED
  BY <1>1, <1>2

\* SUBSCRIPTION_OK: the flag turns, and one answer less is on its way.
LEMMA AnswerTurnsFlag ==
    ASSUME ChatterOK, BrokerOK, SubscriptionOk
    PROVE  /\ ChatterOK' /\ BrokerOK' /\ chatter'.subscribed = ~chatter.subscribed
           /\ broker'.subscribed = broker.subscribed /\ broker'.done = broker.done - 1
           /\ broker'.sent = broker.sent /\ broker'.late = broker.late
           /\ broker'.lone = broker.lone /\ broker'.sure = broker.lone
<1>1. ChatterOK' /\ chatter'.subscribed = ~chatter.subscribed
  BY DEF SubscriptionOk, ChatterOK
<1>2. broker' = [broker EXCEPT !.done = @ - 1, !.lone = broker.lone, !.sure = broker.lone]
  BY BrokerFields DEF SubscriptionOk
<1>l. broker.lone \in BOOLEAN /\ broker.done > 0
  BY BrokerFields DEF SubscriptionOk
<1>3. PICK lone \in BOOLEAN : lone = broker.lone
  BY <1>l
<1>4. broker' = [broker EXCEPT !.done = @ - 1, !.lone = lone, !.sure = lone]
  BY <1>2, <1>3
<1>5. /\ BrokerOK'
      /\ broker'.subscribed = broker.subscribed /\ broker'.done = broker.done - 1
      /\ broker'.sent = broker.sent /\ broker'.late = broker.late
      /\ broker'.lone = lone /\ broker'.sure = lone
  BY <1>l, <1>4, AnswerTaken
<1> QED
  BY <1>1, <1>3, <1>5

\* A request given up: nothing is sure any more.
LEMMA TimeoutSeen ==
    ASSUME BrokerOK, SubscriptionTimeout
    PROVE  BrokerOK' /\ broker'.lone = FALSE /\ broker'.sure = FALSE
<1>1. CASE broker.done > 0 /\ broker' = [broker EXCEPT !.done = @ - 1, !.lone = FALSE, !.sure = FALSE]
  BY <1>1, AnswerTaken
<1>2. CASE /\ broker.late < Len(broker.sent)
           /\ broker' = [broker EXCEPT !.late = @ + 1, !.lone = FALSE, !.sure = FALSE]
  BY <1>2, GivenUp
<1> QED
  BY <1>1, <1>2 DEF SubscriptionTimeout

LEMMA NoticeTypes ==
    ASSUME ChatTypeOK, NEW c \in Clouds, NEW from, NEW to \in SessionStates, NEW isUp \in BOOLEAN,
           notice(c, from, to, isUp)
    PROVE  ChatTypeOK'
<1>1. CanvasOK'
  BY Redrawn, ChatTypeParts DEF notice
<1>2. FlagsOK' /\ CheckersOK'
  BY ChatTypeParts DEF notice, FlagsOK, CheckersOK
<1>3. ChatterOK' /\ BrokerOK'
  BY ChatTypeParts DEF notice, ChatterOK, BrokerOK
<1> QED
  BY <1>1, <1>2, <1>3, ChatTypeParts DEF ChatTypeOK, FlagsOK, CheckersOK, ChatterOK, BrokerOK, CanvasOK

--------------------------------------------------------------------------------

\* The events of the sessions that check the brokers.
CheckerStep(c) ==
    \/ CheckerUp(c) \/ CheckerFails(c) \/ CheckerReconnecting(c) \/ CheckerReconnected(c)
    \/ CheckerDisconnected(c)

\* Each of them is a notice.
LEMMA CheckerNotices ==
    ASSUME NEW c \in Clouds, CheckerStep(c)
    PROVE  \E from \in SUBSET SessionStates, to \in SessionStates, isUp \in BOOLEAN :
              notice(c, from, to, isUp)
  BY DEF CheckerStep, CheckerUp, CheckerFails, CheckerReconnecting, CheckerReconnected,
         CheckerDisconnected, SessionStates

\* The steps by the part of the state they change.
LEMMA ChatSteps ==
    ASSUME ChatNext
    PROVE  \/ MapLoads \/ MarkLoads
           \/ \E c \in Clouds : CheckerStep(c) \/ CheckerConnect(c) \/ ChatterUp(c)
                                \/ ChatterReconnected(c) \/ BrokerTurns(c)
           \/ ChatterFails \/ ChatterReconnecting \/ ChatterDisconnected \/ ChatterConnect
           \/ ChatterRequest \/ SubscriptionOk \/ SubscriptionRefused \/ SubscriptionTimeout
           \/ BrokerSubscribes
  BY DEF ChatNext, CheckerStep

\* The steps keep the types.
LEMMA ChatTypeStep == ChatTypeOK /\ [ChatNext]_chatVars => ChatTypeOK'
<1> SUFFICES ASSUME ChatTypeOK, [ChatNext]_chatVars PROVE ChatTypeOK'
  OBVIOUS
<1> USE ChatConstants, ChatTypeParts
<1>t. FlagsOK /\ CheckersOK /\ ChatterOK /\ BrokerOK /\ CanvasOK
  OBVIOUS
<1>p. SUFFICES FlagsOK' /\ CheckersOK' /\ ChatterOK' /\ BrokerOK' /\ CanvasOK'
  BY DEF ChatTypeOK, FlagsOK, CheckersOK, ChatterOK, BrokerOK, CanvasOK
<1>1. CASE MapLoads \/ MarkLoads
  BY <1>t, <1>1 DEF MapLoads, MarkLoads, sessions, FlagsOK, CheckersOK, ChatterOK, BrokerOK, CanvasOK
<1>2. ASSUME NEW c \in Clouds, CheckerStep(c)
      PROVE  FlagsOK' /\ CheckersOK' /\ ChatterOK' /\ BrokerOK' /\ CanvasOK'
  <2>1. PICK from \in SUBSET SessionStates, to \in SessionStates, isUp \in BOOLEAN :
             notice(c, from, to, isUp)
    BY <1>2, CheckerNotices
  <2>2. ChatTypeOK'
    BY <2>1, NoticeTypes
  <2> QED
    BY <2>2 DEF ChatTypeOK, FlagsOK, CheckersOK, ChatterOK, BrokerOK, CanvasOK
<1>3. ASSUME NEW c \in Clouds, CheckerConnect(c) \/ BrokerTurns(c)
      PROVE  FlagsOK' /\ CheckersOK' /\ ChatterOK' /\ BrokerOK' /\ CanvasOK'
  BY <1>t, <1>3 DEF CheckerConnect, BrokerTurns, sessions, SessionStates,
                    FlagsOK, CheckersOK, ChatterOK, BrokerOK, CanvasOK
<1>4. ASSUME NEW c \in Clouds, ChatterUp(c) \/ ChatterReconnected(c)
      PROVE  FlagsOK' /\ CheckersOK' /\ ChatterOK' /\ BrokerOK' /\ CanvasOK'
  <2>1. updateCanvas /\ connected' = {c}
    BY <1>4 DEF ChatterUp, ChatterReconnected, getCloudFromInfoStr
  <2>2. CanvasOK'
    BY <1>t, <2>1, Redrawn
  <2>3. BrokerOK'
    BY <1>t, <1>4, Requested DEF ChatterUp, ChatterReconnected, BrokerOK
  <2>4. FlagsOK' /\ CheckersOK' /\ ChatterOK'
    BY <1>t, <1>4, <2>1 DEF ChatterUp, ChatterReconnected, SessionStates, FlagsOK, CheckersOK, ChatterOK
  <2> QED
    BY <2>2, <2>3, <2>4
<1>5. CASE ChatterFails \/ ChatterReconnecting \/ ChatterDisconnected \/ ChatterConnect
  <2>1. FlagsOK' /\ CheckersOK' /\ CanvasOK'
    BY <1>t, <1>5 DEF ChatterFails, ChatterReconnecting, ChatterDisconnected, ChatterConnect,
                      FlagsOK, CheckersOK, CanvasOK
  <2>2. CASE ChatterFails \/ ChatterConnect
    BY <1>t, <2>1, <2>2, SessionSet DEF ChatterFails, ChatterConnect, SessionStates, BrokerOK
  <2>3. CASE ChatterReconnecting \/ ChatterDisconnected
    BY <1>t, <2>1, <2>3, SessionWritten
  <2> QED
    BY <1>5, <2>2, <2>3
<1>6. CASE ChatterRequest
  BY <1>t, <1>6, Requested DEF ChatterRequest, FlagsOK, CheckersOK, ChatterOK, CanvasOK
<1>7. CASE SubscriptionOk \/ SubscriptionRefused \/ SubscriptionTimeout \/ BrokerSubscribes
  <2>1. FlagsOK' /\ CheckersOK' /\ CanvasOK'
    BY <1>t, <1>7 DEF SubscriptionOk, SubscriptionRefused, SubscriptionTimeout, BrokerSubscribes,
                      FlagsOK, CheckersOK, CanvasOK
  <2>2. CASE SubscriptionOk
    BY <1>t, <2>1, <2>2, AnswerTurnsFlag
  <2>3. CASE SubscriptionRefused \/ SubscriptionTimeout \/ BrokerSubscribes
    <3>1. ChatterOK'
      BY <1>t, <2>3 DEF SubscriptionRefused, SubscriptionTimeout, BrokerSubscribes, ChatterOK
    <3>2. BrokerOK'
      BY <1>t, <2>3, Refused, TimeoutSeen, CarriedOut
    <3> QED
      BY <2>1, <3>1, <3>2
  <2> QED
    BY <1>7, <2>2, <2>3
<1>8. CASE UNCHANGED chatVars
  BY <1>t, <1>8 DEF chatVars, FlagsOK, CheckersOK, ChatterOK, BrokerOK, CanvasOK
<1> QED
  BY <1>1, <1>2, <1>3, <1>4, <1>5, <1>6, <1>7, <1>8, ChatSteps

LEMMA ChatTypeInit == ChatInit => ChatTypeOK
  BY ChatConstants, NothingSent DEF ChatInit, ChatTypeOK, SessionStates, NoSubscription

\* The sessions, the flags of the clouds, the subscription and the picture keep their
\* types, and the images and requests their bounds.
THEOREM ChatTypes == ChatSpec => []ChatTypeOK
  BY ChatTypeInit, ChatTypeStep, PTL DEF ChatSpec

--------------------------------------------------------------------------------
(* The picture *)

LEMMA PictureInit == ChatInit => PictureInv
  BY DEF ChatInit, PictureInv, CanvasShowsClouds

\* After updateCanvas a map has to load.
LEMMA RedrawnPicture ==
    ASSUME ChatTypeOK, updateCanvas PROVE PictureInv'
  BY Redrawn, ChatTypeParts DEF PictureInv, CanvasShowsClouds

LEMMA PictureStep == ChatTypeOK /\ PictureInv /\ [ChatNext]_chatVars => PictureInv'
<1> SUFFICES ASSUME ChatTypeOK, PictureInv, [ChatNext]_chatVars PROVE PictureInv'
  OBVIOUS
<1>t. CanvasOK /\ MaxLoads \in Nat
  BY ChatTypeParts, ChatConstants
<1>1. CASE MapLoads
  <2>1. canvas'.maps = canvas.maps - 1 /\ canvas'.marks # 0 /\ canvas'.line = connected
        /\ canvas'.crosses = {} /\ connected' = connected
    BY <1>t, <1>1 DEF MapLoads, CanvasOK
  <2> QED
    BY <2>1 DEF PictureInv, CanvasShowsClouds
<1>2. CASE MarkLoads
  <2>1. /\ canvas'.maps = canvas.maps /\ canvas'.line = canvas.line
        /\ canvas'.crosses = canvas.crosses \union (Clouds \ up)
        /\ connected' = connected /\ up' = up
    BY <1>2 DEF MarkLoads
  <2> QED
    BY <2>1 DEF PictureInv, CanvasShowsClouds
<1>3. ASSUME NEW c \in Clouds, CheckerStep(c) \/ ChatterUp(c) \/ ChatterReconnected(c)
      PROVE  PictureInv'
  <2>1. updateCanvas
    BY <1>3, CheckerNotices DEF notice, ChatterUp, ChatterReconnected, getCloudFromInfoStr
  <2> QED
    BY <2>1, RedrawnPicture
<1>4. CASE Undrawn
  BY <1>4 DEF Undrawn, PictureInv, CanvasShowsClouds
<1>5. ASSUME NEW c \in Clouds, CheckerConnect(c) \/ BrokerTurns(c) PROVE Undrawn
  BY <1>5 DEF CheckerConnect, BrokerTurns, Undrawn
<1>6. ASSUME \/ ChatterFails \/ ChatterReconnecting \/ ChatterDisconnected \/ ChatterConnect
             \/ ChatterRequest \/ SubscriptionOk \/ SubscriptionRefused \/ SubscriptionTimeout
             \/ BrokerSubscribes \/ UNCHANGED chatVars
      PROVE  Undrawn
  BY <1>6 DEF ChatterFails, ChatterReconnecting, ChatterDisconnected, ChatterConnect,
              ChatterRequest, SubscriptionOk, SubscriptionRefused, SubscriptionTimeout,
              BrokerSubscribes, chatVars, Undrawn
<1> QED
  BY <1>1, <1>2, <1>3, <1>4, <1>5, <1>6, ChatSteps

\* Once no image loads the picture is that of the flags, in whatever order the images of
\* overlapping drawings came in: updateCanvas reads the flags when the images are there.
THEOREM PictureIsRight == ChatSpec => []CanvasShowsClouds
<1>1. PictureInv => CanvasShowsClouds
  BY DEF PictureInv
<1> QED
  BY <1>1, PictureInit, PictureStep, ChatTypeInit, ChatTypeStep, PTL DEF ChatSpec

--------------------------------------------------------------------------------
(* The chat session *)

\* The steps that change what the chat session is at, or its flag.
LEMMA CloudStep == ChatTypeOK /\ ChatShowsItsCloud /\ [ChatNext]_chatVars => ChatShowsItsCloud'
<1> SUFFICES ASSUME ChatTypeOK, ChatShowsItsCloud, [ChatNext]_chatVars PROVE ChatShowsItsCloud'
  OBVIOUS
<1>t. ChatterOK
  BY ChatTypeParts
<1>1. ASSUME NEW c \in Clouds, ChatterUp(c) \/ ChatterReconnected(c) PROVE ChatShowsItsCloud'
  BY <1>t, <1>1 DEF ChatterUp, ChatterReconnected, ChatterOK, getCloudFromInfoStr, ChatShowsItsCloud
<1>2. CASE chatter' = chatter /\ connected' = connected
  BY <1>2 DEF ChatShowsItsCloud
<1>3. ASSUME NEW c \in Clouds, CheckerStep(c) \/ CheckerConnect(c) \/ BrokerTurns(c)
      PROVE  chatter' = chatter /\ connected' = connected
  BY <1>3, CheckerNotices DEF notice, CheckerConnect, BrokerTurns, sessions
<1>4. ASSUME \/ MapLoads \/ MarkLoads \/ ChatterRequest \/ SubscriptionRefused
             \/ SubscriptionTimeout \/ BrokerSubscribes \/ UNCHANGED chatVars
      PROVE  chatter' = chatter /\ connected' = connected
  BY <1>4 DEF MapLoads, MarkLoads, ChatterRequest, SubscriptionRefused, SubscriptionTimeout,
              BrokerSubscribes, sessions, chatVars
<1>5. ASSUME ChatterFails \/ ChatterReconnecting \/ ChatterDisconnected \/ ChatterConnect
      PROVE  ChatShowsItsCloud'
  BY <1>t, <1>5 DEF ChatterFails, ChatterReconnecting, ChatterDisconnected, ChatterConnect,
                    ChatterOK, ChatShowsItsCloud
<1>6. CASE SubscriptionOk
  BY <1>t, <1>6 DEF SubscriptionOk, ChatterOK, ChatShowsItsCloud
<1> QED
  BY <1>1, <1>2, <1>3, <1>4, <1>5, <1>6, ChatSteps

\* While the chat session is up its cloud is the connected one and no other: each event
\* that says the session is up names its host, and nothing else touches the flags.
THEOREM CloudIsRight == ChatSpec => []ChatShowsItsCloud
<1>1. ChatInit => ChatShowsItsCloud
  BY DEF ChatInit, ChatShowsItsCloud
<1> QED
  BY <1>1, CloudStep, ChatTypeInit, ChatTypeStep, PTL DEF ChatSpec

(* The subscription *)

\* A request from nothing on its way is a lone one; beside another nothing is sure.
LEMMA RequestKeepsFlag ==
    ASSUME ChatterOK, BrokerOK, FlagInv, request, chatter'.subscribed = chatter.subscribed
    PROVE  FlagInv'
<1>1. /\ broker'.subscribed = broker.subscribed /\ broker'.done = broker.done
      /\ broker'.late = broker.late /\ broker'.sent = Append(broker.sent, ~chatter.subscribed)
      /\ broker'.lone = Quiet /\ broker'.sure = (broker.sure /\ Quiet)
  BY Requested
<1>2. broker.sent = <<>> => broker.late = 0
  BY BrokerFields, NothingSent
<1>3. chatter.subscribed \in BOOLEAN
  BY DEF ChatterOK
<1>4. broker.sent = <<>> => Append(broker.sent, ~chatter.subscribed) = <<~chatter.subscribed>>
  BY <1>3, BrokerFields, Longer
<1>5. broker'.lone => LoneInv'
  BY <1>1, <1>2, <1>4 DEF LoneInv, Quiet
<1>6. broker'.sure => broker'.lone
  BY <1>1
<1>7. broker'.sure /\ broker'.done = 0 => chatter'.subscribed = broker'.subscribed
  BY <1>1 DEF FlagInv
<1> QED
  BY <1>5, <1>6, <1>7 DEF FlagInv

\* The answer to a lone request leaves nothing on its way, and the flag as the broker.
LEMMA OkKeepsFlag ==
    ASSUME ChatterOK, BrokerOK, FlagInv, SubscriptionOk
    PROVE  FlagInv'
<1>1. /\ chatter'.subscribed = ~chatter.subscribed
      /\ broker'.subscribed = broker.subscribed /\ broker'.done = broker.done - 1
      /\ broker'.sent = broker.sent
      /\ broker'.lone = broker.lone /\ broker'.sure = broker.lone
  BY AnswerTurnsFlag
<1>2. ~Quiet /\ broker.done # 0
  BY BrokerFields DEF SubscriptionOk, Quiet
<1>3. broker.lone => broker.done = 1 /\ broker.sent = <<>> /\ broker.subscribed = ~chatter.subscribed
  BY <1>2 DEF FlagInv, LoneInv
<1>4. broker'.lone => Quiet'
  BY <1>1, <1>3 DEF Quiet
<1> QED
  BY <1>1, <1>3, <1>4 DEF FlagInv

\* The broker gets to a lone request: nothing else is there before or after it.
LEMMA CarriedOutKeepsFlag ==
    ASSUME BrokerOK, FlagInv, BrokerSubscribes, chatter' = chatter
    PROVE  FlagInv'
<1>1. /\ broker'.subscribed = Head(broker.sent) /\ broker'.sent = Tail(broker.sent)
      /\ broker'.done = IF broker.late > 0 THEN broker.done ELSE broker.done + 1
      /\ broker'.lone = broker.lone /\ broker'.sure = broker.sure
  BY CarriedOut
<1>2. ~Quiet /\ broker.sent # <<>>
  BY DEF BrokerSubscribes, Quiet
<1>3. broker.lone => broker.done = 0 /\ broker.sent = <<~chatter.subscribed>> /\ broker.late = 0
  BY <1>2 DEF FlagInv, LoneInv
<1>o. PICK asked : asked = ~chatter.subscribed
  OBVIOUS
<1>h. Head(<<asked>>) = asked /\ Tail(<<asked>>) = <<>>
  BY OnlyOne
<1>a. broker.lone => Head(broker.sent) = asked /\ Tail(broker.sent) = <<>>
  BY <1>3, <1>o, <1>h
<1>b. broker.lone => broker'.done = 1
  BY <1>1, <1>3
<1>4. broker'.lone => /\ broker'.done = 1 /\ broker'.sent = <<>>
                      /\ broker'.subscribed = ~chatter'.subscribed
  BY <1>1, <1>a, <1>b, <1>o
<1>5. broker'.sure => broker'.lone
  BY <1>1, <1>2 DEF FlagInv
<1> QED
  BY <1>4, <1>5 DEF FlagInv, LoneInv

\* A refused request leaves the broker as it was.
LEMMA RefusedKeepsFlag ==
    ASSUME BrokerOK, FlagInv, SubscriptionRefused, chatter' = chatter
    PROVE  FlagInv'
<1>1. /\ broker'.subscribed = broker.subscribed /\ broker'.done = broker.done
      /\ broker'.sent = Tail(broker.sent)
      /\ broker'.lone = broker.lone /\ broker'.sure = broker.sure
  BY Refused
<1>2. ~Quiet /\ broker.sent # <<>> /\ broker.done = 0
  BY DEF SubscriptionRefused, Quiet
<1>3. broker.lone => broker.sent = <<~chatter.subscribed>>
  BY <1>2 DEF FlagInv, LoneInv
<1>4. broker'.lone => Quiet'
  BY <1>1, <1>2, <1>3, OnlyOne DEF Quiet
<1>5. broker'.sure => broker'.lone
  BY <1>1, <1>2 DEF FlagInv
<1> QED
  BY <1>1, <1>2, <1>4, <1>5 DEF FlagInv

LEMMA FlagStep == ChatTypeOK /\ FlagInv /\ [ChatNext]_chatVars => FlagInv'
<1> SUFFICES ASSUME ChatTypeOK, FlagInv, [ChatNext]_chatVars PROVE FlagInv'
  OBVIOUS
<1>t. ChatterOK /\ BrokerOK
  BY ChatTypeParts
<1>1. ASSUME chatter'.subscribed = chatter.subscribed, broker' = broker PROVE FlagInv'
  BY <1>1 DEF FlagInv, LoneInv, Quiet
<1>2. ASSUME NEW c \in Clouds, ChatterUp(c) PROVE FlagInv'
  BY <1>t, <1>2, RequestKeepsFlag DEF ChatterUp, ChatterOK
<1>r. ASSUME NEW c \in Clouds, ChatterReconnected(c) PROVE FlagInv'
  BY <1>t, <1>1, <1>r DEF ChatterReconnected, ChatterOK
<1>3. ASSUME NEW c \in Clouds, CheckerStep(c) \/ CheckerConnect(c) \/ BrokerTurns(c)
      PROVE  FlagInv'
  BY <1>1, <1>3, CheckerNotices DEF notice, CheckerConnect, BrokerTurns, sessions
<1>4. CASE MapLoads \/ MarkLoads \/ UNCHANGED chatVars
  BY <1>1, <1>4 DEF MapLoads, MarkLoads, sessions, chatVars
<1>5. CASE ChatterFails \/ ChatterReconnecting \/ ChatterConnect
  BY <1>t, <1>1, <1>5 DEF ChatterFails, ChatterReconnecting, ChatterConnect, ChatterOK
<1>6. CASE ChatterDisconnected
  BY <1>6 DEF ChatterDisconnected, NoSubscription, FlagInv, Quiet
<1>7. CASE ChatterRequest
  BY <1>t, <1>7, RequestKeepsFlag DEF ChatterRequest
<1>8. CASE SubscriptionOk
  BY <1>t, <1>8, OkKeepsFlag
<1>9. CASE SubscriptionRefused
  BY <1>t, <1>9, RefusedKeepsFlag DEF SubscriptionRefused
<1>10. CASE SubscriptionTimeout
  BY <1>t, <1>10, TimeoutSeen DEF FlagInv
<1>11. CASE BrokerSubscribes
  BY <1>t, <1>11, CarriedOutKeepsFlag DEF BrokerSubscribes
<1> QED
  BY <1>2, <1>r, <1>3, <1>4, <1>5, <1>6, <1>7, <1>8, <1>9, <1>10, <1>11, ChatSteps

\* With nothing on its way the flag of the page tells whether the broker delivers, as long
\* as no two requests overlapped and none was given up, and again from the next request on
\* that is confirmed with no other beside it: such a request asked for the opposite of the
\* flag, and nothing turned the flag before its answer.
THEOREM FlagIsRight == ChatSpec => []SubscribedMeansIt
<1>1. ChatInit => FlagInv
  BY DEF ChatInit, FlagInv, NoSubscription, Quiet
<1>2. FlagInv => SubscribedMeansIt
  BY DEF FlagInv, SubscribedMeansIt, Quiet
<1> QED
  BY <1>1, <1>2, FlagStep, ChatTypeInit, ChatTypeStep, PTL DEF ChatSpec
================================================================================
