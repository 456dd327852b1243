------------------------------ MODULE PluginRpc ------------------------------
(***************************************************************************)
(* Messages between plugins: the JSON-RPC client and server of                *)
(* packages/plugin-communication (json-rpc.ts) over their in-process       *)
(* transport, and the registry of services behind the server               *)
(* (registry.ts).                                                          *)
(*                                                                         *)
(* A call is dispatched at once and then awaits the handler, racing it     *)
(* against a timer; handlers make calls of their own; and plugins come and *)
(* go while their handlers run.  Each plugin may have a client of its own, *)
(* with its own time limit, so that timers fire in any order.              *)
(***************************************************************************)
EXTENDS Naturals, FiniteSets

CONSTANTS
  Peers,     \* plugins, which own services and make calls
  Methods,     \* names of methods
  Guarded,     \* the methods that are registered with allowedCallers...
  Friends,     \* ... and the plugins on their lists
  Typed,       \* the methods that are registered with a paramSchema
  NoOne,        \* neither a plugin, nor a method, nor a call
  Messages        \* bound: calls and notifications ever sent

ASSUME NoOneAssumption == NoOne \notin Peers \cup Methods \cup Messages
ASSUME SubsetsAssumption ==
  Guarded \subseteq Methods /\ Typed \subseteq Methods /\ Friends \subseteq Peers

VARIABLES
  services,    \* ServiceRegistry.#services: method -> the plugin that registered it
  call,        \* what the sender of each call knows
  handler,     \* the handler that each call started
  departed     \* history: plugins taken out of the registry and not back since

rpcVars == <<services, call, handler, departed>>

Unsent == [kind |-> "unsent"]
NoHandler == [state |-> "none"]
Sent == {c \in Messages : call[c] # Unsent}
Waiting(c) == call[c] # Unsent /\ call[c].outcome = "waiting"
Running(c) == handler[c].state = "running"

RpcInit ==
  /\ services = [m \in Methods |-> NoOne]
  /\ call = [c \in Messages |-> Unsent]
  /\ handler = [c \in Messages |-> NoHandler]
  /\ departed = {}

-----------------------------------------------------------------------------
(* The registry.                                                           *)

\* register: a method that is taken is an error.
RegisterService(m, p) ==
  /\ services[m] = NoOne
  /\ services' = [services EXCEPT ![m] = p]
  /\ departed' = departed \ {p}
  /\ UNCHANGED <<call, handler>>

Unregister(m) ==
  /\ services' = [services EXCEPT ![m] = NoOne]
  /\ UNCHANGED <<call, handler, departed>>

\* Mutant of UnregisterByPlugin: it stops at the first method it finds.
UnregisterFirst(p) ==
  /\ IF \E m \in Methods : services[m] = p
     THEN services' = [services EXCEPT ![CHOOSE m \in Methods : services[m] = p] = NoOne]
     ELSE UNCHANGED services
  /\ departed' = departed \cup {p}
  /\ UNCHANGED <<call, handler>>

UnregisterByPlugin(p) ==
  /\ services' = [m \in Methods |-> IF services[m] = p THEN NoOne ELSE services[m]]
  /\ departed' = departed \cup {p}
  /\ UNCHANGED <<call, handler>>

-----------------------------------------------------------------------------
(* Messages.                                                                  *)

Allowed(m, sender) == m \in Guarded /\ Friends # {} => sender \in Friends

\* What the server does with a request before it calls the handler: the code
\* of the error it answers with, or "accepted".  NoOne stands for an empty
\* method, which is not a valid request.
Verdict(m, sender, typed) ==
  IF m = NoOne THEN "INVALID_REQUEST"
  ELSE IF services[m] = NoOne THEN "METHOD_NOT_FOUND"
  ELSE IF ~Allowed(m, sender) THEN "FORBIDDEN"
  ELSE IF m \in Typed /\ ~typed THEN "INVALID_PARAMS"
  ELSE "accepted"

Starts(c, m, parent) ==
  handler' = [handler EXCEPT ![c] =
                [state |-> "running", method |-> m, plugin |-> services[m], parent |-> parent]]

\* A caller outside all handlers, or the handler of an earlier call.
Parents == {NoOne} \cup {c \in Messages : Running(c)}
Sender(parent, p) == parent # NoOne => handler[parent].plugin = p

\* A handler awaits each call it makes: at most one of them is open.
Free(parent) ==
  parent = NoOne \/ ~\E c \in Sent : call[c].parent = parent /\ Waiting(c)

\* call: the request is dispatched, which answers it or starts the handler.
\* typed says whether the parameters would pass the schema.
Request(c, m, p, typed, parent) ==
  /\ call[c] = Unsent
  /\ Sender(parent, p) /\ Free(parent)
  /\ LET verdict == Verdict(m, p, typed)
     IN  /\ call' = [call EXCEPT ![c] =
                       [kind |-> "request", parent |-> parent,
                        outcome |-> IF verdict = "accepted" THEN "waiting" ELSE verdict]]
         /\ IF verdict = "accepted" THEN Starts(c, m, parent) ELSE UNCHANGED handler
  /\ UNCHANGED <<services, departed>>

\* notify: a notification starts the handler as well, whoever sends it and
\* whatever it holds; the sender waits for the handler, without a time limit.
\* One that is malformed or that no service answers is dropped.
Notify(c, m, p, parent) ==
  /\ call[c] = Unsent
  /\ Sender(parent, p) /\ Free(parent)
  /\ LET taken == m # NoOne /\ services[m] # NoOne
     IN  /\ call' = [call EXCEPT ![c] =
                       [kind |-> "notification", parent |-> parent,
                        outcome |-> IF taken THEN "waiting" ELSE "returned"]]
         /\ IF taken THEN Starts(c, m, parent) ELSE UNCHANGED handler
  /\ UNCHANGED <<services, departed>>

\* Mutant of Answer: a handler that throws is taken to return nothing.
AnswerAnyway(c, ending) ==
  IF call[c].kind = "notification" THEN "returned" ELSE "result"

\* What the sender of c is told when the handler ends.
Answer(c, ending) ==
  IF call[c].kind = "notification" THEN "returned"
  ELSE IF ending = "returned" THEN "result" ELSE "APP_ERROR"

\* The handler of c returns or throws, once it waits for nothing itself.  If
\* the sender still waits it is told.
HandlerEnds(c, ending) ==
  /\ Running(c)
  /\ Free(c)
  /\ handler' = [handler EXCEPT ![c].state = ending]
  /\ call' = IF Waiting(c) THEN [call EXCEPT ![c].outcome = Answer(c, ending)] ELSE call
  /\ UNCHANGED <<services, departed>>

\* The timer of a request fires before the handler ends; the handler goes on.
Timeout(c) ==
  /\ Waiting(c) /\ call[c].kind = "request"
  /\ call' = [call EXCEPT ![c].outcome = "timeout"]
  /\ UNCHANGED <<services, handler, departed>>

-----------------------------------------------------------------------------
Registry ==
  \/ \E m \in Methods, p \in Peers : RegisterService(m, p)
  \/ \E m \in Methods : Unregister(m)
  \/ \E p \in Peers : UnregisterByPlugin(p)

Send ==
  \E c \in Messages, m \in Methods \cup {NoOne}, p \in Peers, parent \in Parents :
    Notify(c, m, p, parent) \/ \E typed \in BOOLEAN : Request(c, m, p, typed, parent)

Progress ==
  \E c \in Messages : Timeout(c) \/ \E ending \in {"returned", "threw"} : HandlerEnds(c, ending)

RpcNext == Registry \/ Send \/ Progress

RpcSpec == RpcInit /\ [][RpcNext]_rpcVars

-----------------------------------------------------------------------------
(* Properties.                                                             *)

Outcomes == {"waiting", "returned", "result", "timeout", "APP_ERROR", "INVALID_REQUEST",
             "METHOD_NOT_FOUND", "FORBIDDEN", "INVALID_PARAMS"}

\* Type correctness of the registry, the calls and the handlers.
RpcTypeOK ==
  /\ services \in [Methods -> Peers \cup {NoOne}]
  /\ \A c \in Messages :
       /\ call[c] = Unsent \/
            call[c] \in [kind : {"request", "notification"}, parent : Messages \cup {NoOne},
                         outcome : Outcomes]
       /\ handler[c] = NoHandler \/
            handler[c] \in [state : {"running", "returned", "threw"}, method : Methods,
                            plugin : Peers, parent : Messages \cup {NoOne}]
  /\ departed \subseteq Peers

\* A sender is told what its own handler did: a result says that the handler
\* returned and an application error that it threw, and while the sender waits
\* the handler runs, however many calls are nested in it.
ToldTheTruth ==
  \A c \in Sent :
    /\ call[c].outcome = "waiting" => handler[c].state = "running"
    /\ call[c].outcome = "result" => handler[c].state = "returned"
    /\ call[c].outcome = "APP_ERROR" => handler[c].state = "threw"

\* After unregisterByPlugin no handler of the plugin is started, until the
\* plugin registers again: nothing of it is left in the registry.
DepartedIsSilent ==
  [][\A c \in Messages : handler[c] = NoHandler /\ handler'[c] # NoHandler
       => handler'[c].plugin \notin departed]_rpcVars

\* Every call ends, though handlers wait for one another and may never end.
RequestsEnd ==
  \A c \in Messages : (call[c] # Unsent /\ call[c].kind = "request") ~> ~Waiting(c)
=============================================================================
