-------------------------------- MODULE Audit --------------------------------
(***************************************************************************)
(* packages/audit: the onResponse hook (auditCapture) makes an event of a  *)
(* successful write and logs it without waiting; a reader goes through the *)
(* log page by page with AuditService.query() while rows are written and   *)
(* purged.                                                                 *)
(***************************************************************************)
EXTENDS Naturals, Sequences, FiniteSets, SequencesExt, TLC, Arrays

CONSTANTS
  Requests,      \* [method, excluded, segments, body, tenant] as the hook gets them
  Sensitive,     \* DEFAULT_SENSITIVE_FIELDS
  NoTenantYet,   \* request.user is not set
  ZeroTenant,    \* 00000000-0000-0000-0000-000000000000
  PageSize,
  MaxEvents, MaxNow

ASSUME AuditAssumption == PageSize \in Nat \ {0} /\ MaxEvents \in Nat /\ MaxNow \in Nat

VARIABLES
  now,           \* the clock, in milliseconds
  writing,       \* events whose insert is under way
  audit_log,     \* its rows in order of insertion
  events,        \* history: number of events built
  walk           \* the reader: [at, page, tenant, seen, since]

auditVars == <<now, writing, audit_log, events, walk>>

NoWalk == [at |-> "idle", page |-> 0, tenant |-> NoTenantYet, seen |-> {}, since |-> {}]

AuditInit == now = 0 /\ writing = {} /\ audit_log = <<>> /\ events = 0 /\ walk = NoWalk

WriteMethods == {"POST", "PUT", "PATCH", "DELETE"}

MapMethodToAction(method) ==
  CASE method = "POST" -> "create"
    [] method \in {"PUT", "PATCH"} -> "update"
    [] method = "DELETE" -> "delete"

\* The fields of the body itself; what is inside of them stays as it is.
SanitizeValues(body) == [f \in DOMAIN body |-> IF f \in Sensitive THEN "[REDACTED]" ELSE body[f]]

\* extractResourceType and extractResourceId: the segments behind /api/.
ResourceOf(segments) ==
  [type |-> IF segments = <<>> THEN "unknown" ELSE segments[1],
   id |-> IF Len(segments) < 2 THEN "none" ELSE segments[2]]

BuildAuditEvent(request) ==
  [action |-> MapMethodToAction(request.method),
   resource |-> ResourceOf(request.segments),
   tenant |-> IF request.tenant = NoTenantYet THEN ZeroTenant ELSE request.tenant,
   values |-> IF request.method = "DELETE" THEN <<>> ELSE SanitizeValues(request.body)]

\* log() gives the row its time, the database its number.
Stamped(event, id, at) ==
  [f \in DOMAIN event \cup {"id", "at"} |-> CASE f = "id" -> id [] f = "at" -> at [] OTHER -> event[f]]

\* The hook, after the response: log() starts the insert.
AuditCapture(request, status) ==
  /\ request.method \in WriteMethods /\ status \in 200..299 /\ ~request.excluded
  /\ events < MaxEvents
  /\ events' = events + 1
  /\ writing' = writing \cup {Stamped(BuildAuditEvent(request), events + 1, now)}
  /\ UNCHANGED <<now, audit_log, walk>>

\* The insert ends; what fails is dropped.  Inserts of two events may overtake.
InsertEnds(event) ==
  /\ event \in writing
  /\ writing' = writing \ {event}
  /\ audit_log' \in {audit_log, Append(audit_log, event)}
  /\ UNCHANGED <<now, events, walk>>

\* Rows older than the date; a database error makes it none.
Purge(before) ==
  /\ \E i \in DOMAIN audit_log : audit_log[i].at < before
  /\ audit_log' = Filter(audit_log, {r \in Range(audit_log) : r.at >= before})
  /\ UNCHANGED <<now, writing, events, walk>>

-----------------------------------------------------------------------------

\* The rows a tenant asks for; a query without a tenant takes all.
Selected(tenant) == {r \in Range(audit_log) : tenant \in {NoTenantYet, r.tenant}}

\* The orders PostgreSQL may give them in: latest first, equal times anyhow.
Ordered(set) ==
  {s \in SetToSeqs(set) : \A i, j \in DOMAIN s : i < j => s[i].at >= s[j].at}

\* Mutant of EstimateTotal: a full page is taken for the last one.
EstimateSeen(count, page) == (page - 1) * PageSize + count

\* The total of query(), from the one page it has read.
EstimateTotal(count, page) ==
  CASE count = 0 -> 0
    [] count \in 1..(PageSize - 1) -> (page - 1) * PageSize + count
    [] OTHER -> (page + 1) * PageSize

TotalPages(total) == (total + PageSize - 1) \div PageSize

StartWalk(tenant) ==
  /\ walk.at = "idle"
  /\ walk' = [at |-> "reading", page |-> 1, tenant |-> tenant, seen |-> {}, since |-> Selected(tenant)]
  /\ UNCHANGED <<now, writing, audit_log, events>>

\* A query for the next page; the reader goes on while meta names more pages.
Query ==
  /\ walk.at = "reading"
  /\ \E order \in Ordered(Selected(walk.tenant)) :
       LET offset == (walk.page - 1) * PageSize
           page == SubSeq(order, offset + 1, IF offset + PageSize < Len(order) THEN offset + PageSize
                                             ELSE Len(order))
           more == walk.page < TotalPages(EstimateTotal(Len(page), walk.page))
       IN walk' = [walk EXCEPT !.seen = @ \cup Range(page), !.page = IF more THEN @ + 1 ELSE @,
                               !.at = IF more THEN "reading" ELSE "read"]
  /\ UNCHANGED <<now, writing, audit_log, events>>

EndWalk ==
  /\ walk.at = "read"
  /\ walk' = NoWalk
  /\ UNCHANGED <<now, writing, audit_log, events>>

Tick ==
  /\ now < MaxNow
  /\ now' = now + 1
  /\ UNCHANGED <<writing, audit_log, events, walk>>

AuditNext ==
  \/ \E r \in Requests, status \in {201, 404} : AuditCapture(r, status)
  \/ \E e \in writing : InsertEnds(e)
  \/ \E before \in 1..MaxNow : Purge(before)
  \/ \E t \in {r.tenant : r \in Requests} : StartWalk(t)
  \/ Query \/ EndWalk \/ Tick

AuditSpec == AuditInit /\ [][AuditNext]_auditVars

-----------------------------------------------------------------------------

\* Whoever goes through the pages until meta names no more has seen every row there
\* was when he began and that is there still, though rows come, late ones among
\* them, and are purged meanwhile; only a row that shares its millisecond with
\* another may slip by.  No row is seen that is not of the tenant asked for.
WalkSeesAll ==
  walk.at = "read" =>
    /\ \A r \in walk.since \cap Range(audit_log) :
         r \in walk.seen \/ \E q \in walk.seen \cup Range(audit_log) : q.at = r.at /\ q # r
    /\ walk.tenant # NoTenantYet => \A r \in walk.seen : r.tenant = walk.tenant
=============================================================================
