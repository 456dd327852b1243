---------------------------- MODULE Notifications ----------------------------
(***************************************************************************)
(* NotificationManager of packages/notification and its providers: sendAll *)
(* sends by one provider after the other, over a copy of their names, and  *)
(* awaits each; providers are registered and removed meanwhile.            *)
(***************************************************************************)
EXTENDS Naturals, Sequences, SequencesExt, Arrays

CONSTANTS
  Providers,   \* names: "email" and "in-app" are the ones of the package
  Recipients   \* [email]: whether the recipient has an address

VARIABLES
  registered,  \* NotificationManager.providers, a map in order of insertion
  fanout,      \* the call of sendAll(): names to send by, results so far
  sent,        \* history: per provider, notifications that left in this call
  removed      \* history: providers removed during this call

notifyVars == <<registered, fanout, sent, removed>>

NoFanout == [at |-> "idle", names |-> <<>>, results |-> <<>>, to |-> "nobody"]

NotifyInit ==
  /\ registered = <<>>
  /\ fanout = NoFanout
  /\ sent = [p \in Providers |-> 0]
  /\ removed = {}

\* registerProvider() throws on a name it has.
RegisterProvider(p) ==
  /\ p \notin ToSet(registered)
  /\ registered' = Append(registered, p)
  /\ UNCHANGED <<fanout, sent, removed>>

UnregisterProvider(p) ==
  /\ p \in ToSet(registered)
  /\ registered' = Filter(registered, Providers \ {p})
  /\ removed' = removed \cup {p}
  /\ UNCHANGED <<fanout, sent>>

SendAll(recipient) ==
  /\ fanout.at = "idle"
  /\ fanout' = [at |-> "next", names |-> registered, results |-> <<>>, to |-> recipient]
  /\ sent' = [p \in Providers |-> 0]
  /\ removed' = {}
  /\ UNCHANGED registered

Current == fanout.names[Len(fanout.results) + 1]
Unsent == Len(fanout.results) < Len(fanout.names)

\* The turn of a provider: send() throws if the name is gone by now, which
\* ends the whole call; else the provider is called and awaited.
CallProvider ==
  /\ fanout.at = "next" /\ Unsent
  /\ fanout' = [fanout EXCEPT !.at = IF Current \in ToSet(registered) THEN "waiting" ELSE "rejected"]
  /\ UNCHANGED <<registered, sent, removed>>

\* Email needs an address before it tries.
CanReach(p, recipient) == p = "email" => recipient.email

\* Mutant of ProviderEnds: an error of a provider goes up to the caller.
ProviderEndsAll ==
  /\ fanout.at = "waiting"
  /\ \/ fanout' = [fanout EXCEPT !.at = "rejected"] /\ UNCHANGED sent
     \/ /\ CanReach(Current, fanout.to)
        /\ sent' = [sent EXCEPT ![Current] = @ + 1]
        /\ fanout' = [fanout EXCEPT !.at = "next",
                                    !.results = Append(@, [by |-> Current, success |-> TRUE])]
  /\ UNCHANGED <<registered, removed>>

\* It has sent, or has failed before or after that, by an answer or an error.
ProviderEnds ==
  /\ fanout.at = "waiting"
  /\ \E left, ok \in BOOLEAN :
       /\ ok => left
       /\ left => CanReach(Current, fanout.to)
       /\ sent' = [sent EXCEPT ![Current] = IF left THEN @ + 1 ELSE @]
       /\ fanout' = [fanout EXCEPT !.at = "next",
                                   !.results = Append(@, [by |-> Current, success |-> ok])]
  /\ UNCHANGED <<registered, removed>>

AllSent ==
  /\ fanout.at = "next" /\ ~Unsent
  /\ fanout' = [fanout EXCEPT !.at = "resolved"]
  /\ UNCHANGED <<registered, sent, removed>>

CallerReads ==
  /\ fanout.at \in {"resolved", "rejected"}
  /\ fanout' = NoFanout
  /\ UNCHANGED <<registered, sent, removed>>

NotifyNext ==
  \/ \E p \in Providers : RegisterProvider(p) \/ UnregisterProvider(p)
  \/ \E r \in Recipients : SendAll(r)
  \/ CallProvider \/ ProviderEnds \/ AllSent \/ CallerReads

-----------------------------------------------------------------------------

\* sendAll() answers for every provider that was registered when it was called,
\* in their order, each called once at most, and those that report success have
\* sent; it is rejected only where a provider was removed before its turn.
FanoutIsTrue ==
  /\ \A i \in DOMAIN fanout.results :
       /\ fanout.results[i].by = fanout.names[i]
       /\ fanout.results[i].success => sent[fanout.names[i]] = 1
  /\ \A p \in Providers : sent[p] <= 1
  /\ fanout.at = "resolved" => Len(fanout.results) = Len(fanout.names)
  /\ fanout.at = "rejected" => Current \in removed

=============================================================================
