------------------------------- MODULE PubSub -------------------------------
(***************************************************************************)
(* EventPubSub of packages/plugin-communication (pubsub.ts): publishers    *)
(* call the handlers of a channel and wait for all of them, whatever they  *)
(* do; handlers come and go meanwhile.  RedisPubSub refuses every call.    *)
(***************************************************************************)
EXTENDS Naturals

CONSTANTS
  Handlers,
  Publishers   \* calls of publish() that may be under way at once

VARIABLES
  channel,     \* handlers subscribed to the channel
  publishing,  \* per publisher: idle, waiting, or what the call returned
  waitsFor,    \* per publisher: handlers called that have not ended
  owed,        \* history: per publisher, handlers subscribed when it called
  ran          \* history: per publisher, handlers that ended for it

pubsubVars == <<channel, publishing, waitsFor, owed, ran>>

PubSubInit ==
  /\ channel = {}
  /\ publishing = [p \in Publishers |-> "idle"]
  /\ waitsFor = [p \in Publishers |-> {}]
  /\ owed = [p \in Publishers |-> {}]
  /\ ran = [p \in Publishers |-> {}]

SubscribeHandler(h) ==
  channel' = channel \cup {h} /\ UNCHANGED <<publishing, waitsFor, owed, ran>>

UnsubscribeHandler(h) ==
  channel' = channel \ {h} /\ UNCHANGED <<publishing, waitsFor, owed, ran>>

CloseChannels == channel' = {} /\ UNCHANGED <<publishing, waitsFor, owed, ran>>

\* publish(): a malformed message is thrown back; a copy of the handlers is
\* called, and without any there is nothing to wait for.
Publish(p) ==
  /\ publishing[p] = "idle"
  /\ \/ publishing' = [publishing EXCEPT ![p] = "refused"] /\ UNCHANGED <<waitsFor, owed>>
     \/ /\ publishing' = [publishing EXCEPT ![p] = IF channel = {} THEN "done" ELSE "waiting"]
        /\ waitsFor' = [waitsFor EXCEPT ![p] = channel]
        /\ owed' = [owed EXCEPT ![p] = channel]
  /\ UNCHANGED <<channel, ran>>

\* A handler ends, by returning or by throwing, which is caught.
Finish(p, h) ==
  /\ h \in waitsFor[p]
  /\ ran' = [ran EXCEPT ![p] = @ \cup {h}]
  /\ waitsFor' = [waitsFor EXCEPT ![p] = @ \ {h}]
  /\ publishing' = [publishing EXCEPT ![p] = IF waitsFor[p] = {h} THEN "done" ELSE @]
  /\ UNCHANGED <<channel, owed>>

\* The caller takes the answer and may publish again.
Return(p) ==
  /\ publishing[p] \in {"done", "refused"}
  /\ publishing' = [publishing EXCEPT ![p] = "idle"]
  /\ owed' = [owed EXCEPT ![p] = {}]
  /\ ran' = [ran EXCEPT ![p] = {}]
  /\ UNCHANGED <<channel, waitsFor>>

PubSubNext ==
  \/ \E h \in Handlers : SubscribeHandler(h) \/ UnsubscribeHandler(h)
  \/ CloseChannels
  \/ \E p \in Publishers :
       Publish(p) \/ Return(p) \/ \E h \in Handlers : Finish(p, h)

-----------------------------------------------------------------------------

\* A publish() that has returned has run to their end the handlers that were
\* subscribed when it was called, and no other, whichever of them threw, left
\* or came while it waited.
PublishWaitsForAll ==
  \A p \in Publishers : publishing[p] = "done" => ran[p] = owed[p]
=============================================================================
