------------------------ MODULE ContractReadsProofs ------------------------
(***************************************************************************)
(* Theorems about ContractReads, for any number of clients, tenants and    *)
(* contracts, any page size and any clocks.                                *)
(***************************************************************************)
EXTENDS ContractReads, FiniteSetTheorems, TLAPS

-----------------------------------------------------------------------------
\* Ranks.

(* Any list is finite, and so is what lies before a contract in it.        *)
LEMMA ListsAreFinite ==
  ASSUME TypeOK, NEW t, NEW f, NEW S, S \subseteq Listed(t, f)
  PROVE  /\ IsFiniteSet(S)
         /\ Cardinality(S) \in Nat
         /\ Cardinality(S) <= Cardinality(Listed(t, f))
         /\ S # Listed(t, f) => Cardinality(S) < Cardinality(Listed(t, f))
  <1>1. Listed(t, f) \subseteq Contracts
    BY DEF TypeOK, Listed
  <1>2. IsFiniteSet(Listed(t, f))
    BY <1>1, FS_Subset, ReadsAssumption
  <1>3. /\ IsFiniteSet(S)
        /\ Cardinality(S) <= Cardinality(Listed(t, f))
        /\ Cardinality(Listed(t, f)) = Cardinality(S) => Listed(t, f) = S
    BY <1>2, FS_Subset
  <1>4. Cardinality(S) \in Nat /\ Cardinality(Listed(t, f)) \in Nat
    BY <1>2, <1>3, FS_CardinalityType
  <1> QED
    BY <1>3, <1>4

(* A rank is a number below the length of the list.                        *)
LEMMA RankIsBelow ==
  ASSUME TypeOK, NEW t, NEW f, NEW k \in Listed(t, f)
  PROVE  /\ Rank(t, f, k) \in Nat
         /\ Cardinality(Listed(t, f)) \in Nat
         /\ Rank(t, f, k) < Cardinality(Listed(t, f))
  <1> DEFINE S == {j \in Listed(t, f) : Before(j, k)}
  <1>1. k \in Contracts /\ k \in Stored /\ contract[k].created \in Nat
    BY ReadsAssumption DEF TypeOK, Listed, Rows, Stored
  <1>2. k \notin S
    BY <1>1, ReadsAssumption DEF Before
  <1>3. S \subseteq Listed(t, f) /\ S # Listed(t, f)
    BY <1>2
  <1>4. Cardinality(S) \in Nat /\ Cardinality(S) < Cardinality(Listed(t, f))
    BY <1>3, ListsAreFinite
  <1>5. Cardinality(Listed(t, f)) \in Nat
    BY ListsAreFinite
  <1> QED
    BY <1>4, <1>5 DEF Rank

(* What a step may do to the database: contracts are added, and what is    *)
(* stored keeps its tenant, its place in the order and the filters that it *)
(* matches.                                                                *)
Grows ==
  /\ Stored \subseteq Stored'
  /\ \A k \in Stored :
       /\ contract'[k].tenant = contract[k].tenant
       /\ contract'[k].created = contract[k].created
       /\ contract[k].status = "completed" => contract'[k] = contract[k]
       /\ \A f \in Filters : Matches(k, f) => Matches(k, f)'

(* While the database grows, lists grow and no rank shrinks.               *)
LEMMA RanksGrow ==
  ASSUME TypeOK, TypeOK', Grows, NEW t, NEW f \in Filters, NEW k \in Listed(t, f)
  PROVE  /\ Listed(t, f) \subseteq Listed(t, f)'
         /\ Rank(t, f, k) <= Rank(t, f, k)'
         /\ Listed(t, f)' = Listed(t, f) => Rank(t, f, k)' = Rank(t, f, k)
  <1> DEFINE S == {j \in Listed(t, f) : Before(j, k)}
             T == {j \in Listed(t, f)' : Before(j, k)'}
  <1>1. Listed(t, f) \subseteq Listed(t, f)'
    BY DEF Grows, Listed
  <1>2. \A j \in Listed(t, f) : Before(j, k)' <=> Before(j, k)
    BY DEF Grows, Listed, Before
  <1>3. S \subseteq T
    BY <1>1, <1>2
  <1>4. T \subseteq Contracts
    BY DEF TypeOK, Listed
  <1>5. IsFiniteSet(T)
    BY <1>4, FS_Subset, ReadsAssumption
  <1>6. Cardinality(S) <= Cardinality(T)
    BY <1>3, <1>5, FS_Subset
  <1>7. Listed(t, f)' = Listed(t, f) => T = S
    BY <1>2
  <1>8. Rank(t, f, k) = Cardinality(S) /\ Rank(t, f, k)' = Cardinality(T)
    BY DEF Rank
  <1> QED
    BY <1>1, <1>6, <1>7, <1>8

-----------------------------------------------------------------------------
\* Types.

(* A request that starts is of the type of requests.                       *)
LEMMA ReadingType ==
  ASSUME NEW t \in Tenants, NEW k \in Contracts, NEW parts \in SUBSET Parts,
         NEW status \in Statuses
  PROVE  Reading(t, k, parts, status) \in Reads
  BY DEF Reading, Reads

(* A step keeps every variable in its type.                                *)
LEMMA ReadsTypeStep ==
  ASSUME TypeOK, [Next]_vars
  PROVE  TypeOK'
  <1> USE DEF TypeOK, Stored
  <1>1. ASSUME NEW c \in Clients, NEW t \in Tenants, NEW f \in Filters, Browse(c, t, f)
        PROVE  TypeOK'
    <2>1. Listed(t, f) \subseteq Contracts
      BY DEF Listed
    <2>2. [active |-> TRUE, tenant |-> t, filter |-> f, offset |-> 0,
           wanted |-> Listed(t, f), seen |-> {}, last |-> FALSE] \in Walks
      BY <2>1 DEF Walks
    <2> QED
      BY <1>1, <2>2 DEF Browse
  <1>2. ASSUME NEW c \in Clients, NextPage(c)
        PROVE  TypeOK'
    <2> DEFINE w == walk[c]
    <2>1. w \in Walks
      BY <1>2 DEF NextPage, Idle
    <2>2. Page(w.tenant, w.filter, w.offset) \subseteq Contracts
      BY DEF Page, Listed
    <2>3. /\ Following(w.offset) \in Nat
          /\ IsLast(w.tenant, w.filter, w.offset) \in BOOLEAN
      BY <2>1, ReadsAssumption DEF Following, Walks, IsLast
    <2>4. [w EXCEPT !.seen = w.seen \cup Page(w.tenant, w.filter, w.offset),
                    !.offset = Following(w.offset),
                    !.last = IsLast(w.tenant, w.filter, w.offset)] \in Walks
      BY <2>1, <2>2, <2>3 DEF Walks
    <2> QED
      BY <1>2, <2>4 DEF NextPage
  <1>3. ASSUME NEW c \in Clients, StopBrowsing(c) \/ Answer(c)
        PROVE  TypeOK'
    BY <1>3 DEF StopBrowsing, Answer
  <1>4. ASSUME NEW c \in Clients, NEW t \in Tenants, NEW k \in Contracts,
               NEW parts \in {Parts} \cup {{p} : p \in Parts}, Open(c, t, k, parts)
        PROVE  TypeOK'
    <2>1. contract[k].status \in Statuses /\ parts \in SUBSET Parts
      BY <1>4 DEF Open, Rows
    <2>2. Reading(t, k, parts, contract[k].status) \in Reads
      BY <2>1, ReadingType
    <2> QED
      BY <1>4, <2>2 DEF Open
  <1>5. ASSUME NEW c \in Clients, NEW p \in Parts, Load(c, p)
        PROVE  TypeOK'
    <2> DEFINE r == read[c]
               loaded == {p} \cap contract[r.contract].results
    <2>1. r \in Reads
      BY <1>5 DEF Load, Idle
    <2>2. loaded \subseteq Parts
      OBVIOUS
    <2>3. [r EXCEPT !.left = r.left \ {p}, !.found = r.found \cup loaded] \in Reads
      BY <2>1, <2>2 DEF Reads
    <2> QED
      BY <1>5, <2>3 DEF Load
  <1>6. ASSUME NEW c \in Clients, NEW t \in Tenants, NEW k \in Contracts,
               NEW time \in Times, Upload(c, t, k, time)
        PROVE  TypeOK'
    <2>1. Reading(t, k, Parts, "pending") \in Reads
      BY ReadingType DEF Statuses
    <2>2. contract' \in [Stored \cup {k} -> Rows]
      BY <1>6 DEF Upload, Rows, Statuses
    <2>3. DOMAIN contract' = Stored \cup {k}
      BY <1>6 DEF Upload
    <2> QED
      BY <1>6, <2>1, <2>2, <2>3 DEF Upload
  <1>7. ASSUME NEW k \in Contracts, Claim(k) \/ Fail(k)
        PROVE  TypeOK'
    BY <1>7 DEF Claim, Fail, Rows, Statuses
  <1>8. ASSUME NEW k \in Contracts, NEW kind \in Kinds \cup {None},
               NEW parties \in SUBSET Names, Publish(k, kind, parties)
        PROVE  TypeOK'
    BY <1>8 DEF Publish, Rows, Statuses
  <1>9. CASE UNCHANGED vars
    BY <1>9 DEF vars
  <1> QED
    BY <1>1, <1>2, <1>3, <1>4, <1>5, <1>6, <1>7, <1>8, <1>9 DEF Next

-----------------------------------------------------------------------------
\* The invariant.

(* Uploads, claims, publications and failures grow the database, and the   *)
(* other steps leave it alone.                                             *)
LEMMA DatabaseGrows ==
  ASSUME TypeOK, CompletedInv, [Next]_vars
  PROVE  Grows
  <1> USE DEF Grows, Stored
  <1>1. CASE UNCHANGED contract
    BY <1>1 DEF Matches
  <1>2. ASSUME NEW c \in Clients, NEW t \in Tenants, NEW k \in Contracts,
               NEW time \in Times, Upload(c, t, k, time)
        PROVE  Grows
    <2>1. DOMAIN contract \subseteq DOMAIN contract'
      BY <1>2 DEF Upload
    <2>2. \A j \in DOMAIN contract : contract'[j] = contract[j]
      BY <1>2 DEF Upload
    <2> QED
      BY <2>1, <2>2 DEF Matches
  <1>3. ASSUME NEW k \in Contracts, Claim(k) \/ Fail(k)
        PROVE  Grows
    <2>1. DOMAIN contract' = DOMAIN contract
      BY <1>3 DEF Claim, Fail
    <2>2. \A j \in DOMAIN contract :
            /\ contract'[j].tenant = contract[j].tenant
            /\ contract'[j].created = contract[j].created
            /\ contract'[j].kind = contract[j].kind
            /\ contract'[j].parties = contract[j].parties
            /\ contract[j].status = "completed" => contract'[j] = contract[j]
      BY <1>3 DEF Claim, Fail, TypeOK, Rows, Statuses
    <2> QED
      BY <2>1, <2>2 DEF Matches
  <1>4. ASSUME NEW k \in Contracts, NEW kind \in Kinds \cup {None},
               NEW parties \in SUBSET Names, Publish(k, kind, parties)
        PROVE  Grows
    <2>1. DOMAIN contract' = DOMAIN contract
      BY <1>4 DEF Publish
    <2>2. \A j \in DOMAIN contract :
            /\ contract'[j].tenant = contract[j].tenant
            /\ contract'[j].created = contract[j].created
            /\ j # k => contract'[j] = contract[j]
            /\ contract[j].status = "completed" => contract'[j] = contract[j]
      BY <1>4 DEF Publish, TypeOK, Rows, Statuses
    <2>3. contract[k].kind = None /\ contract[k].parties = {}
      BY <1>4 DEF Publish, CompletedInv
    <2>4. \A f \in Filters : Matches(k, f) => f.kind = None /\ f.party = None
      BY <2>3 DEF Matches
    <2> QED
      BY <2>1, <2>2, <2>4 DEF Matches
  <1> QED
    BY <1>1, <1>2, <1>3, <1>4
    DEF Next, vars, Browse, NextPage, StopBrowsing, Open, Load, Answer

(* A step keeps results and completion together.                           *)
LEMMA CompletedStep ==
  ASSUME TypeOK, CompletedInv, [Next]_vars
  PROVE  CompletedInv'
  <1> USE DEF CompletedInv, Stored
  <1>1. CASE UNCHANGED contract
    BY <1>1
  <1>2. ASSUME NEW c \in Clients, NEW t \in Tenants, NEW k \in Contracts,
               NEW time \in Times, Upload(c, t, k, time)
        PROVE  CompletedInv'
    BY <1>2 DEF Upload
  <1>3. ASSUME NEW k \in Contracts, Claim(k) \/ Fail(k)
        PROVE  CompletedInv'
    BY <1>3 DEF Claim, Fail, TypeOK, Rows, Statuses
  <1>4. ASSUME NEW k \in Contracts, NEW kind \in Kinds \cup {None},
               NEW parties \in SUBSET Names, Publish(k, kind, parties)
        PROVE  CompletedInv'
    BY <1>4 DEF Publish, TypeOK, Rows, Statuses
  <1> QED
    BY <1>1, <1>2, <1>3, <1>4
    DEF Next, vars, Browse, NextPage, StopBrowsing, Open, Load, Answer

(* What ReadInv says of one request.                                       *)
ReadOK(r) ==
  /\ r.contract \in Stored /\ contract[r.contract].tenant = r.tenant
  /\ r.left \subseteq r.parts
  /\ r.status = "completed" =>
       contract[r.contract].status = "completed" /\ r.found = r.parts \ r.left

(* A request that goes on is not affected by what happens to the database. *)
LEMMA ReadStays ==
  ASSUME Grows, NEW r, ReadOK(r)
  PROVE  ReadOK(r)'
  BY DEF Grows, ReadOK

(* A step keeps the invariant on requests.                                 *)
LEMMA ReadStep ==
  ASSUME TypeOK, CompletedInv, ReadInv, [Next]_vars
  PROVE  ReadInv'
  <1>0. Grows
    BY DatabaseGrows
  <1> SUFFICES ASSUME NEW d \in Clients, read'[d].active
               PROVE  ReadOK(read[d])'
    BY DEF ReadInv, ReadOK
  <1>1. ASSUME read'[d] = read[d]
        PROVE  ReadOK(read[d])'
    BY <1>0, <1>1, ReadStays DEF ReadInv, ReadOK, Grows
  <1>2. ASSUME NEW c \in Clients, NEW t \in Tenants, NEW k \in Contracts,
               NEW parts, Open(c, t, k, parts), d = c
        PROVE  ReadOK(read[d])'
    <2>1. /\ read'[d] = Reading(t, k, parts, contract[k].status)
          /\ contract' = contract /\ k \in Stored /\ contract[k].tenant = t
      BY <1>2 DEF Open, TypeOK
    <2> QED
      BY <2>1 DEF Reading, ReadOK, Stored
  <1>3. ASSUME NEW c \in Clients, NEW p \in Parts, Load(c, p), d = c
        PROVE  ReadOK(read[d])'
    <2> DEFINE r == read[d]
               s == read'[d]
    <2>1. r \in Reads /\ ReadOK(r)
      BY <1>3 DEF Load, TypeOK, Idle, ReadInv, ReadOK
    <2>2. /\ s.contract = r.contract /\ s.tenant = r.tenant /\ s.status = r.status
          /\ s.parts = r.parts /\ s.left = r.left \ {p}
          /\ s.found = r.found \cup ({p} \cap contract[r.contract].results)
          /\ p \in r.left /\ contract' = contract
      BY <1>3, <2>1 DEF Load, TypeOK, Reads
    <2>3. r.status = "completed" => contract[r.contract].results = Parts
      BY <2>1 DEF ReadOK, CompletedInv
    <2>4. r.status = "completed" => s.found = s.parts \ s.left
      BY <2>1, <2>2, <2>3 DEF ReadOK
    <2> QED
      BY <2>1, <2>2, <2>4 DEF ReadOK, Stored
  <1>4. ASSUME NEW c \in Clients, NEW t \in Tenants, NEW k \in Contracts,
               NEW time \in Times, Upload(c, t, k, time), d = c
        PROVE  ReadOK(read[d])'
    <2>1. read'[d] = Reading(t, k, Parts, "pending")
      BY <1>4 DEF Upload, TypeOK
    <2>2. k \in DOMAIN contract' /\ contract'[k].tenant = t
      BY <1>4 DEF Upload
    <2> QED
      BY <2>1, <2>2 DEF Reading, ReadOK, Stored
  <1>5. ASSUME Answer(d)
        PROVE  FALSE
    BY <1>5 DEF Answer, Idle, TypeOK
  <1>6. ASSUME NEW c \in Clients, NEW t \in Tenants,
               \/ \E f \in Filters : Browse(c, t, f)
               \/ \E k \in Contracts, parts \in {Parts} \cup {{p} : p \in Parts} :
                    Open(c, t, k, parts)
               \/ \E k \in Contracts, time \in Times : Upload(c, t, k, time)
        PROVE  ReadOK(read[d])'
    <2>1. c # d => read'[d] = read[d]
      BY <1>6 DEF Browse, Open, Upload, TypeOK
    <2>2. (\E f \in Filters : Browse(c, t, f)) => read'[d] = read[d]
      BY DEF Browse
    <2> QED
      BY <1>1, <1>2, <1>4, <1>6, <2>1, <2>2
  <1>7. ASSUME NEW c \in Clients,
               \/ NextPage(c) \/ StopBrowsing(c)
               \/ \E p \in Parts : Load(c, p)
               \/ Answer(c)
        PROVE  ReadOK(read[d])'
    <2>1. c # d => read'[d] = read[d]
      BY <1>7 DEF NextPage, StopBrowsing, Load, Answer, TypeOK
    <2>2. NextPage(c) \/ StopBrowsing(c) => read'[d] = read[d]
      BY DEF NextPage, StopBrowsing
    <2> QED
      BY <1>1, <1>3, <1>5, <1>7, <2>1, <2>2
  <1>8. ASSUME NEW k \in Contracts,
               \/ Claim(k) \/ Fail(k)
               \/ \E kind \in Kinds \cup {None}, parties \in SUBSET Names :
                    Publish(k, kind, parties)
        PROVE  ReadOK(read[d])'
    BY <1>1, <1>8 DEF Claim, Fail, Publish
  <1>9. CASE UNCHANGED vars
    BY <1>1, <1>9 DEF vars
  <1> QED
    BY <1>6, <1>7, <1>8, <1>9 DEF Next

(* What WalkInv says of one walk.                                          *)
WalkOK(w) ==
  /\ w.wanted \cup w.seen \subseteq Listed(w.tenant, w.filter)
  /\ \A k \in w.seen : contract[k].tenant = w.tenant
  /\ \A k \in w.wanted \ w.seen :
       ~w.last /\ Rank(w.tenant, w.filter, k) >= w.offset
  /\ w.wanted = Listed(w.tenant, w.filter) =>
       \A k \in w.seen : Rank(w.tenant, w.filter, k) < w.offset

(* A walk that stands is not disturbed by a database that grows.           *)
LEMMA WalkStays ==
  ASSUME TypeOK, TypeOK', Grows, NEW w \in Walks, WalkOK(w)
  PROVE  WalkOK(w)'
  <1> DEFINE t == w.tenant
             f == w.filter
  <1>1. f \in Filters /\ w.offset \in Nat
    BY DEF Walks
  <1>2. Listed(t, f) \subseteq Listed(t, f)'
    BY DEF Grows, Listed, Walks
  <1>3. \A k \in Listed(t, f) :
          /\ Rank(t, f, k) <= Rank(t, f, k)'
          /\ Listed(t, f)' = Listed(t, f) => Rank(t, f, k)' = Rank(t, f, k)
    BY <1>1, RanksGrow
  <1>4. \A k \in Listed(t, f) : Rank(t, f, k) \in Nat
    BY RankIsBelow
  <1>5. \A k \in Listed(t, f)' : Rank(t, f, k)' \in Nat
    <2>1. ASSUME NEW k \in Listed(t, f)'
          PROVE  Rank(t, f, k)' \in Nat
      <3> DEFINE T == {j \in Listed(t, f)' : Before(j, k)'}
      <3>1. T \subseteq Contracts
        BY DEF TypeOK, Listed
      <3>2. IsFiniteSet(T)
        BY <3>1, FS_Subset, ReadsAssumption
      <3>3. Cardinality(T) \in Nat
        BY <3>2, FS_CardinalityType
      <3> QED
        BY <3>3 DEF Rank
    <2> QED
      BY <2>1
  <1>6. \A k \in w.wanted \ w.seen : ~w.last /\ Rank(t, f, k)' >= w.offset
    BY <1>1, <1>2, <1>3, <1>4, <1>5 DEF WalkOK
  <1>7. ASSUME w.wanted = Listed(t, f)'
        PROVE  \A k \in w.seen : Rank(t, f, k)' < w.offset
    <2>1. Listed(t, f)' = Listed(t, f)
      BY <1>2, <1>7 DEF WalkOK
    <2> QED
      BY <1>3, <1>7, <2>1 DEF WalkOK
  <1>8. \A k \in w.seen : contract'[k].tenant = w.tenant
    BY DEF WalkOK, Grows, Listed
  <1>9. w.wanted \cup w.seen \subseteq Listed(t, f)'
    BY <1>2 DEF WalkOK
  <1> QED
    BY <1>6, <1>7, <1>8, <1>9 DEF WalkOK

(* A page advances a walk: what it skips is shown, and what is ahead of it *)
(* still has the rank of the offset or more, unless there is nothing.      *)
LEMMA PageAdvances ==
  ASSUME TypeOK, NEW w \in Walks, WalkOK(w), ~w.last
  PROVE  WalkOK([w EXCEPT
           !.seen = w.seen \cup Page(w.tenant, w.filter, w.offset),
           !.offset = Following(w.offset),
           !.last = IsLast(w.tenant, w.filter, w.offset)])
  <1> DEFINE t == w.tenant
             f == w.filter
             o == w.offset
             v == [w EXCEPT !.seen = w.seen \cup Page(t, f, o),
                            !.offset = Following(o), !.last = IsLast(t, f, o)]
  <1>1. o \in Nat /\ PageSize \in Nat \ {0} /\ Following(o) = o + PageSize
    BY ReadsAssumption DEF Walks, Following
  <1>2. /\ v.tenant = t /\ v.filter = f /\ v.wanted = w.wanted
        /\ v.seen = w.seen \cup Page(t, f, o)
        /\ v.offset = o + PageSize /\ v.last = IsLast(t, f, o)
    BY <1>1 DEF Walks
  <1>3. \A k \in Listed(t, f) :
          /\ Rank(t, f, k) \in Nat
          /\ Cardinality(Listed(t, f)) \in Nat
          /\ Rank(t, f, k) < Cardinality(Listed(t, f))
    BY RankIsBelow
  <1>4. \A k \in Listed(t, f) :
          k \in Page(t, f, o) <=> Rank(t, f, k) >= o /\ Rank(t, f, k) < o + PageSize
    BY <1>1, <1>3 DEF Page
  <1>5. Page(t, f, o) \subseteq Listed(t, f)
    BY DEF Page
  <1>6. \A k \in v.seen : contract[k].tenant = t
    BY <1>2, <1>5 DEF WalkOK, Listed
  <1>7. ASSUME NEW k \in v.wanted \ v.seen
        PROVE  ~v.last /\ Rank(t, f, k) >= v.offset
    <2>1. k \in w.wanted \ w.seen /\ k \in Listed(t, f) /\ k \notin Page(t, f, o)
      BY <1>2, <1>7 DEF WalkOK
    <2>2. Rank(t, f, k) >= o + PageSize
      BY <1>1, <1>3, <1>4, <2>1 DEF WalkOK
    <2>3. ~(Cardinality(Listed(t, f)) < o + PageSize)
      BY <1>1, <1>3, <2>1, <2>2
    <2> QED
      BY <1>2, <2>2, <2>3 DEF IsLast
  <1>8. ASSUME v.wanted = Listed(t, f), NEW k \in v.seen
        PROVE  Rank(t, f, k) < v.offset
    BY <1>1, <1>2, <1>3, <1>4, <1>5, <1>8 DEF WalkOK
  <1>9. v.wanted \cup v.seen \subseteq Listed(t, f)
    BY <1>2, <1>5 DEF WalkOK
  <1> HIDE DEF v
  <1> QED
    BY <1>2, <1>6, <1>7, <1>8, <1>9 DEF WalkOK, v

(* A step keeps the invariant on walks.                                    *)
LEMMA WalkStep ==
  ASSUME TypeOK, CompletedInv, WalkInv, [Next]_vars
  PROVE  WalkInv'
  <1>0. Grows /\ TypeOK'
    BY DatabaseGrows, ReadsTypeStep
  <1> SUFFICES ASSUME NEW d \in Clients, NEW v, v = walk'[d], v.active
               PROVE  WalkOK(v)'
    BY DEF WalkInv, WalkOK
  <1>1. ASSUME walk'[d] = walk[d]
        PROVE  WalkOK(v)'
    <2>1. walk[d] \in Walks /\ WalkOK(walk[d])
      BY <1>1 DEF TypeOK, Idle, WalkInv, WalkOK
    <2>2. \A w \in Walks : WalkOK(w) => WalkOK(w)'
      BY <1>0, WalkStays
    <2> QED
      BY <1>1, <2>1, <2>2
  <1>2. ASSUME NEW t \in Tenants, NEW f \in Filters, Browse(d, t, f)
        PROVE  WalkOK(v)'
    <2> DEFINE w == [active |-> TRUE, tenant |-> t, filter |-> f, offset |-> 0,
                     wanted |-> Listed(t, f), seen |-> {}, last |-> FALSE]
    <2>1. v = w /\ contract' = contract
      BY <1>2 DEF Browse, TypeOK
    <2>2. \A k \in Listed(t, f) : Rank(t, f, k) >= 0
      BY RankIsBelow
    <2>3. WalkOK(v)
      BY <2>1, <2>2 DEF WalkOK
    <2> HIDE DEF w
    <2> QED
      BY <2>1, <2>3 DEF WalkOK, Listed, Rank, Before, Matches, Stored
  <1>3. ASSUME NextPage(d)
        PROVE  WalkOK(v)'
    <2> DEFINE w == walk[d]
               u == [w EXCEPT
                 !.seen = w.seen \cup Page(w.tenant, w.filter, w.offset),
                 !.offset = Following(w.offset),
                 !.last = IsLast(w.tenant, w.filter, w.offset)]
    <2>1. w \in Walks /\ WalkOK(w) /\ ~w.last
      BY <1>3 DEF NextPage, TypeOK, Idle, WalkInv, WalkOK
    <2>2. v = u /\ contract' = contract
      BY <1>3 DEF NextPage, TypeOK
    <2>3. WalkOK(u)
      BY <2>1, PageAdvances
    <2> HIDE DEF u
    <2>4. WalkOK(v) => WalkOK(v)'
      BY <2>2 DEF WalkOK, Listed, Rank, Before, Matches, Stored
    <2> QED
      BY <2>2, <2>3, <2>4
  <1>4. ASSUME StopBrowsing(d)
        PROVE  FALSE
    BY <1>4 DEF StopBrowsing, Idle, TypeOK
  <1>5. ASSUME NEW c \in Clients, NEW t \in Tenants,
               \/ \E f \in Filters : Browse(c, t, f)
               \/ \E k \in Contracts, parts \in {Parts} \cup {{p} : p \in Parts} :
                    Open(c, t, k, parts)
               \/ \E k \in Contracts, time \in Times : Upload(c, t, k, time)
        PROVE  WalkOK(v)'
    <2>1. c # d => walk'[d] = walk[d]
      BY <1>5 DEF Browse, Open, Upload, TypeOK
    <2>2. \/ \E f \in Filters : Browse(c, t, f)
          \/ walk' = walk
      BY <1>5 DEF Open, Upload
    <2> QED
      BY <1>1, <1>2, <2>1, <2>2
  <1>6. ASSUME NEW c \in Clients,
               \/ NextPage(c) \/ StopBrowsing(c)
               \/ \E p \in Parts : Load(c, p)
               \/ Answer(c)
        PROVE  WalkOK(v)'
    <2>1. c # d => walk'[d] = walk[d]
      BY <1>6 DEF NextPage, StopBrowsing, Load, Answer, TypeOK
    <2>2. NextPage(c) \/ StopBrowsing(c) \/ walk' = walk
      BY <1>6 DEF Load, Answer
    <2> QED
      BY <1>1, <1>3, <1>4, <2>1, <2>2
  <1>7. ASSUME NEW k \in Contracts,
               \/ Claim(k) \/ Fail(k)
               \/ \E kind \in Kinds \cup {None}, parties \in SUBSET Names :
                    Publish(k, kind, parties)
        PROVE  WalkOK(v)'
    BY <1>1, <1>7 DEF Claim, Fail, Publish
  <1>8. CASE UNCHANGED vars
    BY <1>1, <1>8 DEF vars
  <1> QED
    BY <1>5, <1>6, <1>7, <1>8 DEF Next

-----------------------------------------------------------------------------
\* Theorems.

(* ReadsInv holds in every state, whatever the numbers of clients, tenants *)
(* and contracts and the size of a page (repositories.py:56-116).          *)
THEOREM ReadsInvariance == Spec => []ReadsInv
  <1>1. Init => ReadsInv
    BY DEF Init, ReadsInv, TypeOK, CompletedInv, ReadInv, WalkInv, Idle, Stored
  <1>2. ReadsInv /\ [Next]_vars => ReadsInv'
    BY ReadsTypeStep, CompletedStep, ReadStep, WalkStep DEF ReadsInv
  <1> QED
    BY <1>1, <1>2, PTL DEF Spec

(* An answer that calls a contract completed is whole, for any number of   *)
(* parts and of analyses that commit meanwhile (repositories.py:56-70).    *)
THEOREM CompletedReads == Spec => []CompletedReadIsWhole
  <1>1. ReadsInv => CompletedReadIsWhole
    <2> SUFFICES ASSUME ReadsInv, NEW c \in Clients, read[c].active,
                        read[c].left = {}, read[c].status = "completed"
                 PROVE  read[c].found = read[c].parts
      BY DEF CompletedReadIsWhole
    <2> QED
      BY DEF ReadsInv, ReadInv
  <1> QED
    BY <1>1, ReadsInvariance, PTL

(* A walk that reaches the last page has shown all that matched when it    *)
(* began, whatever is uploaded and analyzed meanwhile                      *)
(* (repositories.py:102-116).                                              *)
THEOREM PagingIsComplete == Spec => []PagingSkipsNothing
  <1>1. ReadsInv => PagingSkipsNothing
    <2> SUFFICES ASSUME ReadsInv, NEW c \in Clients, walk[c].active, walk[c].last
                 PROVE  walk[c].wanted \subseteq walk[c].seen
      BY DEF PagingSkipsNothing
    <2> QED
      BY DEF ReadsInv, WalkInv
  <1> QED
    BY <1>1, ReadsInvariance, PTL

(* Nothing is shown twice in a walk unless something has come to match     *)
(* since it began (repositories.py:102-116).                               *)
THEOREM RepeatsNeedArrivals == Spec => RepeatsOnlyAfterArrivals
  <1>1. ReadsInv /\ [Next]_vars =>
          [\A c \in Clients :
             LET w == walk[c]
             IN  NextPage(c) /\ w.wanted = Listed(w.tenant, w.filter) =>
                   w.seen \cap Page(w.tenant, w.filter, w.offset) = {}]_vars
    <2> SUFFICES ASSUME ReadsInv, NEW c \in Clients, NextPage(c),
                        walk[c].wanted = Listed(walk[c].tenant, walk[c].filter),
                        NEW k \in walk[c].seen,
                        k \in Page(walk[c].tenant, walk[c].filter, walk[c].offset)
                 PROVE  FALSE
      BY DEF vars
    <2> DEFINE w == walk[c]
    <2>1. w \in Walks /\ Rank(w.tenant, w.filter, k) < w.offset
      BY DEF NextPage, ReadsInv, WalkInv, TypeOK, Idle
    <2>2. /\ k \in Listed(w.tenant, w.filter)
          /\ Rank(w.tenant, w.filter, k) \in w.offset .. w.offset + PageSize - 1
      BY DEF Page
    <2>3. w.offset \in Nat /\ PageSize \in Nat
      BY <2>1, ReadsAssumption DEF Walks
    <2> QED
      BY <2>1, <2>2, <2>3
  <1> QED
    BY <1>1, ReadsInvariance, PTL DEF Spec, RepeatsOnlyAfterArrivals

=============================================================================
