--------------------------- MODULE ContractReads ---------------------------
(***************************************************************************)
(* Reading contracts while they are uploaded and analyzed: the list, which *)
(* a client walks page by page, and the detail, the summary and the lists  *)
(* of one contract, which the API answers from several SELECTs.  Each      *)
(* SELECT is an action, because at READ COMMITTED each one sees what is    *)
(* committed by then.  Uploads and analyses are single transactions here,  *)
(* as Uploads and AnalysisProtocol show them to be.                        *)
(*                                                                         *)
(* Of a contract, kind stands for the columns that the WHERE of a list     *)
(* compares (type and dates) and parties for what is searched in Python.   *)
(***************************************************************************)
EXTENDS Naturals, FiniteSets

CONSTANTS
  Clients,
  Tenants,
  Contracts,   \* identifiers, in their order
  Times,       \* values of created_at, as the clocks of the servers give them
  Kinds,       \* values of the columns that a filter compares
  Names,       \* parties
  Parts,       \* obligations, clauses and risks
  PageSize,    \* the limit that a client asks for
  None

ASSUME ReadsAssumption ==
  /\ Contracts \subseteq Nat /\ IsFiniteSet(Contracts)
  /\ Times \subseteq Nat
  /\ PageSize \in Nat \ {0}

VARIABLES
  contract,   \* what is committed of each contract
  read,       \* for each client, the contract it is being told about
  walk        \* for each client, its walk through the list

vars == <<contract, read, walk>>

Stored == DOMAIN contract

Statuses == {"pending", "processing", "completed", "failed"}

Idle == [active |-> FALSE]

Init ==
  /\ contract = [k \in {} |-> None]
  /\ read = [c \in Clients |-> Idle]
  /\ walk = [c \in Clients |-> Idle]

-----------------------------------------------------------------------------
\* The list.

Filters == [kind : Kinds \cup {None}, party : Names \cup {None}]

\* A column that is NULL equals nothing.
Matches(k, f) ==
  /\ f.kind = None \/ f.kind = contract[k].kind
  /\ f.party = None \/ f.party \in contract[k].parties

\* Mutant of Listed: the tenant is not compared.
ListedToAll(t, f) == {k \in Stored : Matches(k, f)}

Listed(t, f) == {k \in Stored : contract[k].tenant = t /\ Matches(k, f)}

\* Mutant of Before: ordered by updated_at, which an analysis moves.
BeforeByUpdate(j, k) ==
  LET Changed(i) == contract[i].status = "completed"
  IN  \/ Changed(j) /\ ~Changed(k)
      \/ (Changed(j) <=> Changed(k)) /\ j < k

\* ORDER BY created_at DESC, id
Before(j, k) ==
  \/ contract[j].created > contract[k].created
  \/ contract[j].created = contract[k].created /\ j < k

Rank(t, f, k) == Cardinality({j \in Listed(t, f) : Before(j, k)})

\* OFFSET and LIMIT; with a party, a slice of what its search leaves.
Page(t, f, offset) ==
  {k \in Listed(t, f) : Rank(t, f, k) \in offset .. offset + PageSize - 1}

\* The page is not full: fewer than PageSize contracts are left at the offset.
IsLast(t, f, offset) == Cardinality(Listed(t, f)) < offset + PageSize

\* A client begins to walk through the contracts of its tenant that match a
\* filter.  (A blank filter or an empty range of dates is refused.)
Browse(c, t, f) ==
  /\ ~walk[c].active
  /\ walk' = [walk EXCEPT ![c] =
       [active |-> TRUE, tenant |-> t, filter |-> f, offset |-> 0,
        wanted |-> Listed(t, f), seen |-> {}, last |-> FALSE]]
  /\ UNCHANGED <<contract, read>>

\* Mutant of Following: the last contract of a page is asked for again.
FollowingOverlaps(offset) == offset + PageSize - 1

Following(offset) == offset + PageSize

NextPage(c) ==
  LET w == walk[c]
  IN  /\ w.active /\ ~w.last
      /\ walk' = [walk EXCEPT ![c] = [w EXCEPT
           !.seen = w.seen \cup Page(w.tenant, w.filter, w.offset),
           !.offset = Following(w.offset),
           !.last = IsLast(w.tenant, w.filter, w.offset)]]
      /\ UNCHANGED <<contract, read>>

\* It has seen the last page, or enough.
StopBrowsing(c) ==
  /\ walk[c].active
  /\ walk' = [walk EXCEPT ![c] = Idle]
  /\ UNCHANGED <<contract, read>>

-----------------------------------------------------------------------------
\* The detail (with all parts), the summary (likewise) and the lists of a
\* contract (with one part).

Reading(t, k, parts, status) ==
  [active |-> TRUE, tenant |-> t, contract |-> k, status |-> status,
   parts |-> parts, left |-> parts, found |-> {}]

\* The row of the contract is read; that of another tenant is not found.
Open(c, t, k, parts) ==
  /\ ~read[c].active
  /\ k \in Stored /\ contract[k].tenant = t
  /\ read' = [read EXCEPT ![c] = Reading(t, k, parts, contract[k].status)]
  /\ UNCHANGED <<contract, walk>>

\* The SELECT of one of the parts.
Load(c, p) ==
  LET r == read[c]
  IN  /\ r.active /\ p \in r.left
      /\ read' = [read EXCEPT ![c] = [r EXCEPT
           !.left = r.left \ {p},
           !.found = r.found \cup ({p} \cap contract[r.contract].results)]]
      /\ UNCHANGED <<contract, walk>>

Answer(c) ==
  /\ read[c].active /\ read[c].left = {}
  /\ read' = [read EXCEPT ![c] = Idle]
  /\ UNCHANGED <<contract, walk>>

-----------------------------------------------------------------------------
\* Uploads and analyses.

\* An upload stores a contract, stamped before its transaction ends by the
\* clock of some server, and reads back what its session does not hold yet.
Upload(c, t, k, time) ==
  /\ ~read[c].active
  /\ k \in Contracts \ Stored
  /\ contract' = [j \in Stored \cup {k} |->
       IF j = k THEN [tenant |-> t, created |-> time, status |-> "pending",
                      kind |-> None, parties |-> {}, results |-> {}]
                ELSE contract[j]]
  /\ read' = [read EXCEPT ![c] = Reading(t, k, Parts, "pending")]
  /\ UNCHANGED walk

Claim(k) ==
  /\ k \in Stored /\ contract[k].status \in {"pending", "failed"}
  /\ contract' = [contract EXCEPT ![k].status = "processing"]
  /\ UNCHANGED <<read, walk>>

\* Mutant of Publish: the status is committed before the results.
PublishStatusFirst(k, kind, parties) ==
  /\ k \in Stored
  /\ \/ /\ contract[k].status = "processing"
        /\ contract' = [contract EXCEPT ![k].status = "completed"]
     \/ /\ contract[k].status = "completed" /\ contract[k].results = {}
        /\ contract' = [contract EXCEPT ![k].kind = kind, ![k].parties = parties,
                                        ![k].results = Parts]
  /\ UNCHANGED <<read, walk>>

\* The metadata, the rows of all parts and the status, in one commit.
Publish(k, kind, parties) ==
  /\ k \in Stored /\ contract[k].status = "processing"
  /\ contract' = [contract EXCEPT
       ![k].status = "completed", ![k].kind = kind, ![k].parties = parties,
       ![k].results = Parts]
  /\ UNCHANGED <<read, walk>>

Fail(k) ==
  /\ k \in Stored /\ contract[k].status = "processing"
  /\ contract' = [contract EXCEPT ![k].status = "failed"]
  /\ UNCHANGED <<read, walk>>

Next ==
  \/ \E c \in Clients, t \in Tenants :
       \/ \E f \in Filters : Browse(c, t, f)
       \/ \E k \in Contracts, parts \in {Parts} \cup {{p} : p \in Parts} :
            Open(c, t, k, parts)
       \/ \E k \in Contracts, time \in Times : Upload(c, t, k, time)
  \/ \E c \in Clients :
       NextPage(c) \/ StopBrowsing(c) \/ (\E p \in Parts : Load(c, p)) \/ Answer(c)
  \/ \E k \in Contracts :
       \/ Claim(k) \/ Fail(k)
       \/ \E kind \in Kinds \cup {None}, parties \in SUBSET Names :
            Publish(k, kind, parties)

Spec == Init /\ [][Next]_vars

-----------------------------------------------------------------------------
\* Properties.

Rows == [tenant : Tenants, created : Times, status : Statuses,
         kind : Kinds \cup {None}, parties : SUBSET Names, results : SUBSET Parts]

Reads == [active : {TRUE}, tenant : Tenants, contract : Contracts,
          status : Statuses, parts : SUBSET Parts, left : SUBSET Parts,
          found : SUBSET Parts]

Walks == [active : {TRUE}, tenant : Tenants, filter : Filters, offset : Nat,
          wanted : SUBSET Contracts, seen : SUBSET Contracts, last : BOOLEAN]

(* The type of every variable.                                             *)
TypeOK ==
  /\ Stored \subseteq Contracts
  /\ contract \in [Stored -> Rows]
  /\ read \in [Clients -> {Idle} \cup Reads]
  /\ walk \in [Clients -> {Idle} \cup Walks]

(* What an analysis found of a contract and its completion are committed   *)
(* together.                                                               *)
CompletedInv ==
  \A k \in Stored :
    IF contract[k].status = "completed"
    THEN contract[k].results = Parts
    ELSE contract[k].results = {} /\ contract[k].kind = None /\ contract[k].parties = {}

(* A request reads a contract of its tenant; once it has read that the     *)
(* contract is completed, the SELECTs that follow find all there is.       *)
ReadInv ==
  \A c \in Clients : read[c].active =>
    LET r == read[c]
    IN  /\ r.contract \in Stored /\ contract[r.contract].tenant = r.tenant
        /\ r.left \subseteq r.parts
        /\ r.status = "completed" =>
             contract[r.contract].status = "completed" /\ r.found = r.parts \ r.left

(* A walk was shown contracts that its tenant owns and that match, and     *)
(* what it still misses of the contracts that matched when it began lies   *)
(* ahead of it.  While nothing else has come to match, what it was shown   *)
(* lies behind.                                                            *)
WalkInv ==
  \A c \in Clients : walk[c].active =>
    LET w == walk[c]
    IN  /\ w.wanted \cup w.seen \subseteq Listed(w.tenant, w.filter)
        /\ \A k \in w.seen : contract[k].tenant = w.tenant
        /\ \A k \in w.wanted \ w.seen :
             ~w.last /\ Rank(w.tenant, w.filter, k) >= w.offset
        /\ w.wanted = Listed(w.tenant, w.filter) =>
             \A k \in w.seen : Rank(w.tenant, w.filter, k) < w.offset

(* The strengthening that is inductive: types, the database, requests in   *)
(* progress and walks (repositories.py:56-116).                            *)
ReadsInv ==
  /\ TypeOK
  /\ CompletedInv
  /\ ReadInv
  /\ WalkInv

(* An answer that calls a contract completed holds everything its analysis *)
(* found, although analyses commit between the SELECTs behind the answer   *)
(* (repositories.py:56-70).                                                *)
CompletedReadIsWhole ==
  \A c \in Clients :
    read[c].active /\ read[c].left = {} /\ read[c].status = "completed" =>
      read[c].found = read[c].parts

(* Pages are cut by OFFSET from a list that others change.  A client that  *)
(* walks to the last page has nonetheless been shown every contract that   *)
(* matched when it began (repositories.py:102-116).                        *)
PagingSkipsNothing ==
  \A c \in Clients :
    walk[c].active /\ walk[c].last => walk[c].wanted \subseteq walk[c].seen

(* A contract is shown twice only if others have come to match since the   *)
(* walk began (repositories.py:102-116).                                   *)
RepeatsOnlyAfterArrivals ==
  [][\A c \in Clients :
       LET w == walk[c]
       IN  NextPage(c) /\ w.wanted = Listed(w.tenant, w.filter) =>
             w.seen \cap Page(w.tenant, w.filter, w.offset) = {}]_vars

=============================================================================
