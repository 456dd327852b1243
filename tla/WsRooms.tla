------------------------------- MODULE WsRooms -------------------------------
(***************************************************************************)
(* WsManager and RoomsManager of packages/websocket: who is connected, who *)
(* subscribed to what, and to whom a change of a record is sent.  All the  *)
(* calls are synchronous; their order is up to the sockets.  A user has    *)
(* one entry (authenticateWs), however many sockets of his are open.       *)
(***************************************************************************)
EXTENDS Naturals, Sequences, FiniteSets, Arrays

CONSTANTS
  Clients,     \* "tenant:user", the id that authenticateWs() makes
  TenantOf,    \* the tenant in it
  Topics,      \* collections
  EventNames   \* what a client may name; changes are of the three below

Actions == {"create", "update", "delete"}
Entries == [topic : Topics, events : SUBSET Actions]

VARIABLES
  connected,   \* WsManager.clients
  subs,        \* RoomsManager.subscriptions: per client, [topic, events] ...
  asked,       \* history: per client and topic, what it last asked for
  change,      \* the change that was handled last
  sentTo       \* per client: how often it was sent

wsVars == <<connected, subs, asked, change, sentTo>>
NoChange == [tenant |-> "none", topic |-> "none", action |-> "none"]
SentToNobody == [c \in Clients |-> 0]

WsInit ==
  /\ connected = {}
  /\ subs = [c \in Clients |-> <<>>]
  /\ asked = [c \in Clients |-> [t \in Topics |-> {}]]
  /\ change = NoChange
  /\ sentTo = SentToNobody

Quiet == change' = NoChange /\ sentTo' = SentToNobody

RegisterClient(c) ==
  /\ connected' = connected \cup {c}
  /\ Quiet /\ UNCHANGED <<subs, asked>>

RemoveClient(c) ==
  /\ connected' = connected \ {c}
  /\ subs' = [subs EXCEPT ![c] = <<>>]
  /\ asked' = [asked EXCEPT ![c] = [t \in Topics |-> {}]]
  /\ Quiet

\* The first entry for a collection is replaced by a new one.
Subscribed(list, sub) ==
  LET same == {i \in DOMAIN list : list[i].topic = sub.topic}
  IN  IF same = {} THEN Append(list, sub)
      ELSE [list EXCEPT ![CHOOSE i \in same : \A j \in same : i <= j] = sub]

\* Nothing asks whether the client is connected.
Subscribe(c, topic, events) ==
  /\ subs' = [subs EXCEPT ![c] = Subscribed(@, [topic |-> topic, events |-> events \cap Actions])]
  /\ asked' = [asked EXCEPT ![c][topic] = events \cap Actions]
  /\ Quiet /\ UNCHANGED connected

Unsubscribe(c, topic) ==
  /\ subs' = [subs EXCEPT ![c] = Filter(@, {e \in Entries : e.topic # topic})]
  /\ asked' = [asked EXCEPT ![c][topic] = {}]
  /\ Quiet /\ UNCHANGED connected

\* A client is in the list as often as entries of its match.
GetSubscribers(topic, action) ==
  [c \in Clients |-> Cardinality({i \in DOMAIN subs[c] : subs[c][i].topic = topic /\ action \in subs[c][i].events})]

\* handleChangeEvent(), by broadcast() or the adapter of the event bus.
HandleChangeEvent(tenant, topic, action) ==
  /\ change' = [tenant |-> tenant, topic |-> topic, action |-> action]
  /\ sentTo' = [c \in Clients |-> IF c \in connected /\ TenantOf[c] = tenant
                                 THEN GetSubscribers(topic, action)[c] ELSE 0]
  /\ UNCHANGED <<connected, subs, asked>>

WsNext ==
  \/ \E c \in Clients :
       \/ RegisterClient(c) \/ RemoveClient(c)
       \/ \E topic \in Topics :
            Unsubscribe(c, topic) \/ \E events \in SUBSET EventNames : Subscribe(c, topic, events)
  \/ \E tenant \in {TenantOf[c] : c \in Clients}, topic \in Topics, action \in Actions :
       HandleChangeEvent(tenant, topic, action)

-----------------------------------------------------------------------------

\* A change is sent once to each connected client of its tenant whose last
\* word on the collection, since it was last removed, names the action, and
\* to nobody else: whatever the order of connects, removals and subscriptions.
SentToThoseWhoAsked ==
  change # NoChange =>
    \A c \in Clients :
      sentTo[c] = IF /\ c \in connected /\ TenantOf[c] = change.tenant
                     /\ change.action \in asked[c][change.topic]
                  THEN 1 ELSE 0
=============================================================================
