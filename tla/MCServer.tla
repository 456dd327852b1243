------------------------------ MODULE MCServer ------------------------------
(***************************************************************************)
(* What a running server keeps for its requests and its plugins: sessions  *)
(* (AuthSession), who has which role and may do what (PermissionEngine),   *)
(* collections (CollectionRegistry) and instances of workflows             *)
(* (WorkflowEngine).  They share no state: `part' says which one a         *)
(* behaviour is about, and the others stand still.                         *)
(***************************************************************************)
EXTENDS AuthSession, PermissionEngine, CollectionRegistry, WorkflowEngine, TLC

CONSTANTS u1, u2, r1, r2, k1, k2, a, b, text, number, broken, orders, i1, i2, low, high

OneUser == {u1}
TwoUsers == {u1, u2}
OneRole == {r1}
TwoRoles == {r1, r2}
NoCalls == {}
OneCall == {k1}
TwoCalls == {k1, k2}

\* One permission, enough where only its presence matters.
ReadPosts == {[action |-> "read", resource |-> "posts"]}

\* A wildcard action on one resource, and a permission on another.
ManagePosts == {[action |-> "manage", resource |-> "posts"],
                [action |-> "read", resource |-> "users"]}

OneCollection == {orders}
Types == {text, number}

\* Up to two fields, valid or not, strict or not, of different names or of one
\* name and one type or two.
Field == [name : {a, b}, type : {text, number, broken}, strict : SUBSET {"required"}]
FewFields ==
  {<<>>} \cup {<<f>> : f \in Field}
  \cup {<<f, g>> : f \in [name : {a}, type : {text}, strict : {{}, {"unique"}}],
                   g \in [name : {a, b}, type : {text, number}, strict : {{}, {"required"}}]}
NoFields == {}

\* Review: a check of the amount, an approval for high amounts whose result is
\* announced, and a task for all amounts that a script closes.
ReviewNodes == {"start", "check", "approve", "announce", "work", "close", "end"}
ReviewKind ==
  "start" :> "start" @@ "check" :> "condition" @@ "approve" :> "approval" @@
  "announce" :> "notification" @@ "work" :> "task" @@ "close" :> "script" @@
  "end" :> "end"
ReviewOut ==
  "start" :> <<"check">> @@ "check" :> <<"work", "approve">> @@
  "approve" :> <<"announce">> @@ "announce" :> <<"work">> @@
  "work" :> <<"close">> @@ "close" :> <<"end">> @@ "end" :> <<>>
TwoInstances == {i1, i2}
TwoContexts == {low, high}
ReviewMatch ==
  low :> [n \in ReviewNodes |-> NoMatch] @@
  high :> [n \in ReviewNodes |-> IF n = "check" THEN "approve" ELSE NoMatch]

\* What the theorems ask of a workflow holds of this one.
ReviewRank ==
  "start" :> 2 @@ "check" :> 1 @@ "approve" :> 0 @@ "announce" :> 1 @@
  "work" :> 0 @@ "close" :> 1 @@ "end" :> 0
ASSUME ReviewIsLayered == LeadsOn /\ MatchesLeave /\ Layered(ReviewRank)

\* No definition tells the calls apart, nor the roles.
Alike == Permutations({k1, k2}) \cup Permutations({r1, r2})

VARIABLE part

ServerInit ==
  /\ part \in {"passwords", "rotation", "roles", "collections", "flows"}
  /\ SessionInit /\ Init /\ RegistryInit
  /\ part = "roles" \/ (roles = Roles /\ userRoles = Users \X Roles /\ rolePerms = {})
  /\ FlowInit /\ (part = "flows" \/ context = [i \in Instances |-> low])

ServerNext ==
  /\ UNCHANGED part
  /\ \/ /\ part = "passwords" /\ SessionNext /\ Len(tokens') <= 2
        /\ UNCHANGED <<vars, collections, flowVars>>
     \/ /\ part = "rotation" /\ SessionNext
        /\ \A k \in Clients : request'[k].op # "change"
        /\ UNCHANGED <<vars, collections, flowVars>>
     \/ part = "roles" /\ Next /\ UNCHANGED <<sessionVars, collections, flowVars>>
     \/ part = "collections" /\ RegistryNext /\ UNCHANGED <<sessionVars, vars, flowVars>>
     \/ part = "flows" /\ FlowNext /\ UNCHANGED <<sessionVars, vars, collections>>

ServerSpec == ServerInit /\ [][ServerNext]_<<part, sessionVars, vars, collections, flowVars>>

\* Type correctness of the sessions, of the roles and their cache, and of the
\* instances, tasks and calls of the workflow engine.
ServerTypeOK == SessionTypeOK /\ TypeOK /\ FlowTypeOK
=============================================================================
