----------------------- MODULE PersonalTokens_proofs ------------------------
(* Theorems about PersonalTokens, for every value of its constants.        *)
EXTENDS PersonalTokens, WellFoundedInduction, TLAPS

-----------------------------------------------------------------------------
(* Type correctness.                                                       *)

\* What a process holds at each of its points.
LEMMA ProcessType ==
    ASSUME TypeOK, NEW w \in Processes
    PROVE  /\ proc \in [Processes -> ProcessState] /\ now \in Nat
           /\ proc[w] = Idle <=> proc[w].pc = "idle"
           /\ proc[w].pc # "idle" => proc[w].owner \in Principals
           /\ proc[w].pc = "insert" =>
                  proc[w].created \in Nat /\ proc[w].expires \in Nat \cup {Never}
           /\ proc[w].pc = "update" => proc[w].id \in Nat
           /\ proc[w].pc \in {"idle", "insert", "update"}
    BY DEF TypeOK, ProcessState, Idle

\* A row of the table.
LEMMA RowType ==
    ASSUME TypeOK, NEW i \in DOMAIN pats
    PROVE  /\ i \in 1..Len(pats) /\ pats[i] \in TokenRow
           /\ pats[i].owner \in Principals /\ pats[i].created \in Nat
           /\ pats[i].expires \in Nat \cup {Never} /\ pats[i].revoked \in BOOLEAN
<1>1. pats \in Seq(TokenRow)
    BY DEF TypeOK
<1>2. i \in 1..Len(pats) /\ pats[i] \in TokenRow
    BY <1>1
<1> QED
    BY <1>2 DEF TokenRow

\* What a commit does to the table: the principal's rows are revoked, one is added.
Committed(w) ==
    LET n == Len(pats) + 1 IN
    /\ DOMAIN pats' = DOMAIN pats \cup {n}
    /\ n \in Nat /\ \A i \in DOMAIN pats : i \in Nat /\ i < n
    /\ pats'[n].owner = proc[w].owner /\ pats'[n].created = proc[w].created
    /\ pats'[n].expires = proc[w].expires /\ pats'[n].revoked = FALSE
    /\ \A i \in DOMAIN pats :
           /\ pats'[i].owner = pats[i].owner /\ pats'[i].created = pats[i].created
           /\ pats'[i].expires = pats[i].expires
           /\ pats'[i].revoked = (pats[i].revoked \/ pats[i].owner = proc[w].owner)

LEMMA CommitRows ==
    ASSUME TypeOK, NEW w \in Processes, IssueCommit(w)
    PROVE  pats' \in Seq(TokenRow) /\ Committed(w)
<1> DEFINE p == proc[w].owner
           rows == Superseded(p)
<1>1. NewRow(proc[w]) \in TokenRow
    BY ProcessType DEF IssueCommit, NewRow, TokenRow
<1>2. ASSUME NEW i \in DOMAIN pats
      PROVE  /\ rows[i] \in TokenRow
             /\ rows[i].owner = pats[i].owner /\ rows[i].created = pats[i].created
             /\ rows[i].expires = pats[i].expires
             /\ rows[i].revoked = (pats[i].revoked \/ pats[i].owner = p)
    <2>1. pats[i] \in TokenRow
        BY <1>2, RowType
    <2>2. rows[i] = IF i \in Unrevoked(p) THEN [pats[i] EXCEPT !.revoked = TRUE] ELSE pats[i]
        BY DEF Superseded
    <2>3. CASE i \in Unrevoked(p)
        BY <2>1, <2>2, <2>3 DEF Unrevoked, Matches, TokenRow
    <2>4. CASE i \notin Unrevoked(p)
        BY <2>1, <2>2, <2>4 DEF Unrevoked, Matches, TokenRow
    <2> QED
        BY <2>3, <2>4
<1>3. rows \in Seq(TokenRow) /\ DOMAIN rows = DOMAIN pats /\ Len(rows) = Len(pats)
    <2>1. pats \in Seq(TokenRow) /\ DOMAIN pats = 1..Len(pats) /\ Len(pats) \in Nat
        BY DEF TypeOK
    <2>2. rows \in [1..Len(pats) -> TokenRow]
        BY <1>2, <2>1 DEF Superseded
    <2> HIDE DEF rows
    <2> QED
        BY <2>1, <2>2
<1>4. pats' = Append(rows, NewRow(proc[w]))
    BY DEF IssueCommit
<1>5. pats' \in Seq(TokenRow) /\ DOMAIN pats' = DOMAIN pats \cup {Len(pats) + 1}
      /\ Len(pats) + 1 \in Nat /\ \A i \in DOMAIN pats : i \in Nat /\ i < Len(pats) + 1
    <2>1. Len(pats) \in Nat /\ DOMAIN pats = 1..Len(pats)
        BY DEF TypeOK
    <2> HIDE DEF rows
    <2> QED
        BY <1>1, <1>3, <1>4, <2>1
<1>6. pats'[Len(pats) + 1] = NewRow(proc[w])
    <2> HIDE DEF rows
    <2> QED
        BY <1>1, <1>3, <1>4
<1>7. \A i \in DOMAIN pats : pats'[i] = rows[i]
    <2> HIDE DEF rows
    <2> QED
        BY <1>1, <1>3, <1>4
<1>8. \A i \in DOMAIN pats :
          /\ pats'[i].owner = pats[i].owner /\ pats'[i].created = pats[i].created
          /\ pats'[i].expires = pats[i].expires
          /\ pats'[i].revoked = (pats[i].revoked \/ pats[i].owner = p)
    <2> HIDE DEF rows
    <2> QED
        BY <1>2, <1>7
<1> QED
    BY <1>5, <1>6, <1>8 DEF NewRow, Committed

\* What an update does to it: one row is revoked.
Updated(w) ==
    /\ DOMAIN pats' = DOMAIN pats
    /\ \A i \in DOMAIN pats :
           /\ pats'[i].owner = pats[i].owner /\ pats'[i].created = pats[i].created
           /\ pats'[i].expires = pats[i].expires
           /\ pats'[i].revoked = (pats[i].revoked \/ i = proc[w].id)

LEMMA UpdateRows ==
    ASSUME TypeOK, NEW w \in Processes, RevokeUpdate(w)
    PROVE  pats' \in Seq(TokenRow) /\ Updated(w)
<1>1. pats' = [pats EXCEPT ![proc[w].id].revoked = TRUE]
    BY DEF RevokeUpdate
<1>2. ASSUME NEW i \in DOMAIN pats
      PROVE  /\ pats'[i] \in TokenRow
             /\ pats'[i].owner = pats[i].owner /\ pats'[i].created = pats[i].created
             /\ pats'[i].expires = pats[i].expires
             /\ pats'[i].revoked = (pats[i].revoked \/ i = proc[w].id)
    <2>1. pats[i] \in TokenRow
        BY RowType
    <2>2. pats'[i] = IF i = proc[w].id THEN [pats[i] EXCEPT !.revoked = TRUE] ELSE pats[i]
        BY <1>1
    <2>3. CASE i = proc[w].id
        BY <2>1, <2>2, <2>3 DEF TokenRow
    <2>4. CASE i # proc[w].id
        BY <2>1, <2>2, <2>4 DEF TokenRow
    <2> QED
        BY <2>3, <2>4
<1>3. DOMAIN pats' = DOMAIN pats
    BY <1>1
<1>4. pats' \in Seq(TokenRow)
    <2>1. pats \in Seq(TokenRow) /\ DOMAIN pats = 1..Len(pats) /\ Len(pats) \in Nat
        BY DEF TypeOK
    <2>2. pats' \in [1..Len(pats) -> TokenRow]
        BY <1>1, <1>2, <2>1
    <2> QED
        BY <2>1, <2>2
<1> QED
    BY <1>2, <1>3, <1>4 DEF Updated

\* The numbers a non-empty set holds include a least one (no induction is needed: the
\* library's well-founded relation on the naturals has minimal elements).
LEMMA LeastNat ==
    ASSUME NEW S \in SUBSET Nat, S # {}
    PROVE  \E x \in S : \A y \in S : x <= y
<1> DEFINE Lt == {ss \in Nat \X Nat : ss[1] < ss[2]}
<1>1. IsWellFoundedOn(Lt, Nat)
    BY NatLessThanWellFounded DEF OpToRel
<1>2. \E x \in S : \A y \in S : <<y, x>> \notin Lt
    <2> HIDE DEF Lt
    <2> QED
        BY <1>1, WFMin
<1>3. PICK x \in S : \A y \in S : <<y, x>> \notin Lt
    BY <1>2
<1>4. ASSUME NEW y \in S PROVE x <= y
    <2>1. <<y, x>> \in Nat \X Nat /\ ~(y < x)
        BY <1>3
    <2> QED
        BY <2>1
<1> QED
    BY <1>3, <1>4

-----------------------------------------------------------------------------
(* The inductive invariant.                                                *)

\* No row and no issue is ahead of the clock.
ClockBehind ==
    /\ \A i \in DOMAIN pats : pats[i].created <= now
    /\ \A w \in Processes : proc[w].pc = "insert" => proc[w].created <= now

\* Only the last row of a principal may be unrevoked.
LastIsActive ==
    \A i, j \in DOMAIN pats : pats[i].owner = pats[j].owner /\ ~pats[i].revoked => j <= i

\* The clock of an issue that no other has overtaken is not behind its principal's rows.
IssueIsNewest ==
    \A w \in Processes : proc[w].pc = "insert" /\ w \notin overtaken =>
        \A j \in DOMAIN pats : pats[j].owner = proc[w].owner =>
            pats[j].created <= proc[w].created

\* The last row of a principal is its newest, unless its issue was overtaken.
LastIsNewest ==
    \A i, j \in DOMAIN pats :
        /\ pats[i].owner \notin crossed /\ pats[i].owner = pats[j].owner /\ j <= i
        => pats[j].created <= pats[i].created \/ \E k \in DOMAIN pats :
               pats[k].owner = pats[i].owner /\ i < k

\* A revocation that no issue has overtaken is about to revoke all there is.
UpdateTakesAll ==
    \A w \in Processes : proc[w].pc = "update" /\ w \notin overtaken =>
        \A i \in DOMAIN pats :
            pats[i].owner = proc[w].owner /\ ~pats[i].revoked => i = proc[w].id

IInv ==
    /\ TypeOK /\ ClockBehind /\ LastIsActive /\ IssueIsNewest /\ LastIsNewest
    /\ UpdateTakesAll /\ RevokeLeavesNothing

\* The order of ORDER BY created_at DESC, id DESC.
NotLater(j, i) ==
    \/ pats[j].created < pats[i].created
    \/ pats[j].created = pats[i].created /\ j <= i

\* LIMIT 1 finds a row if there is one.
LEMMA NewestFound ==
    ASSUME TypeOK, ClockBehind, NEW ids, ids \subseteq DOMAIN pats, ids # {}
    PROVE  Newest(ids) \in ids /\ \A j \in ids : NotLater(j, Newest(ids))
<1>1. \A i \in ids : i \in Nat /\ i <= Len(pats) /\ pats[i].created \in Nat
    BY RowType
<1>2. Len(pats) \in Nat /\ now \in Nat
    BY DEF TypeOK
<1> DEFINE ages == {now - pats[i].created : i \in ids}
<1>3. ages \subseteq Nat /\ ages # {}
    BY <1>1, <1>2 DEF ClockBehind
<1>4. PICK age \in ages : \A a \in ages : age <= a
    <2> HIDE DEF ages
    <2> QED
        BY <1>3, LeastNat
<1>5. PICK m \in ids : age = now - pats[m].created
    BY <1>4
<1>6. \A j \in ids : pats[j].created <= pats[m].created
    <2> SUFFICES ASSUME NEW j \in ids PROVE pats[j].created <= pats[m].created
        OBVIOUS
    <2>1. age <= now - pats[j].created
        BY <1>4
    <2> QED
        BY <1>1, <1>2, <1>5, <2>1
<1> DEFINE latest == {i \in ids : pats[i].created = pats[m].created}
           depths == {Len(pats) - i : i \in latest}
<1>7. depths \subseteq Nat /\ depths # {}
    BY <1>1, <1>2
<1>8. PICK depth \in depths : \A d \in depths : depth <= d
    <2> HIDE DEF depths
    <2> QED
        BY <1>7, LeastNat
<1>9. PICK n \in latest : depth = Len(pats) - n
    BY <1>8
<1>10. \A j \in latest : j <= n
    <2> SUFFICES ASSUME NEW j \in latest PROVE j <= n
        OBVIOUS
    <2>1. depth <= Len(pats) - j
        BY <1>8
    <2> QED
        BY <1>1, <1>2, <1>9, <2>1
<1>11. n \in ids /\ pats[n].created = pats[m].created
    BY <1>9
<1>12. \A j \in ids : NotLater(j, n)
    <2> SUFFICES ASSUME NEW j \in ids PROVE NotLater(j, n)
        OBVIOUS
    <2>1. CASE pats[j].created = pats[m].created
        <3>1. j <= n
            BY <1>10, <2>1
        <3> QED
            BY <1>11, <2>1, <3>1 DEF NotLater
    <2>2. CASE pats[j].created # pats[m].created
        <3> HIDE DEF latest, depths, ages
        <3>1. pats[j].created < pats[m].created
            BY <1>1, <1>6, <2>2
        <3> QED
            BY <1>11, <3>1 DEF NotLater
    <2> QED
        BY <2>1, <2>2
<1> QED
    BY <1>11, <1>12 DEF Newest, NotLater

\* The newest unrevoked token is the only one.
LEMMA NewestUnrevoked ==
    ASSUME TypeOK, ClockBehind, LastIsActive, NEW p, Unrevoked(p) # {}
    PROVE  /\ Newest(Unrevoked(p)) \in Unrevoked(p)
           /\ \A i \in Unrevoked(p) : i = Newest(Unrevoked(p))
<1>1. Unrevoked(p) \subseteq DOMAIN pats
    BY DEF Unrevoked, Matches
<1>2. Newest(Unrevoked(p)) \in Unrevoked(p)
    BY <1>1, NewestFound
<1>3. \A i, j \in Unrevoked(p) : i <= j /\ j <= i
    BY DEF Unrevoked, Matches, LastIsActive
<1>4. \A i \in Unrevoked(p) : i \in Nat
    BY <1>1, RowType
<1> QED
    BY <1>2, <1>3, <1>4

-----------------------------------------------------------------------------
(* Steps.                                                                  *)

\* A step keeps the state well typed.
LEMMA TypeStep ==
    TypeOK /\ ClockBehind /\ [Next]_vars => TypeOK'
    <1> SUFFICES ASSUME TypeOK, ClockBehind, [Next]_vars PROVE TypeOK'
        OBVIOUS
    <1> USE DEF history, TypeOK
    <1>1. ASSUME NEW w \in Processes, NEW p \in Principals, NEW ttl \in WebTTLs \cup CliTTLs,
                 IssueStart(w, p, ttl)
          PROVE  TypeOK'
        <2>1. [pc |-> "insert", owner |-> p, created |-> now,
               expires |-> IF ttl = 0 THEN Never ELSE now + ttl] \in ProcessState
            BY TokensAssumption DEF ProcessState
        <2>2. proc' \in [Processes -> ProcessState]
            BY <1>1, <2>1 DEF IssueStart
        <2> QED
            BY <1>1, <2>2 DEF IssueStart
    <1>2. ASSUME NEW w \in Processes, IssueCommit(w) PROVE TypeOK'
        <2>1. pats' \in Seq(TokenRow) /\ DOMAIN pats \subseteq DOMAIN pats'
              /\ \A i \in DOMAIN pats : pats'[i].owner = pats[i].owner
            BY <1>2, CommitRows DEF Committed
        <2>2. proc' = [proc EXCEPT ![w] = Idle] /\ Idle \in ProcessState
            BY <1>2 DEF IssueCommit, ProcessState
        <2>3. proc' \in [Processes -> ProcessState]
            BY <2>2
        <2>4. ASSUME NEW v \in Processes, proc'[v].pc = "update"
              PROVE  proc'[v].id \in DOMAIN pats' /\ pats'[proc'[v].id].owner = proc'[v].owner
            <3>1. v # w /\ proc'[v] = proc[v]
                BY <2>2, <2>4 DEF Idle
            <3> QED
                BY <2>1, <2>4, <3>1
        <2>5. overtaken' \subseteq Processes /\ crossed' \subseteq Principals
              /\ cleared' \subseteq Principals /\ now' \in Nat
            BY <1>2, ProcessType DEF IssueCommit, Idle
        <2> QED
            BY <2>1, <2>3, <2>4, <2>5
    <1>3. ASSUME NEW w \in Processes, NEW p \in Principals, RevokeNone(w, p)
          PROVE  TypeOK'
        BY <1>3 DEF RevokeNone
    <1>4. ASSUME NEW w \in Processes, NEW p \in Principals, RevokeSelect(w, p)
          PROVE  TypeOK'
        <2> DEFINE id == Newest(Unrevoked(p))
        <2>1. id \in DOMAIN pats /\ pats[id].owner = p
            BY <1>4, NewestFound DEF RevokeSelect, Unrevoked, Matches
        <2>2. id \in Nat
            BY <2>1, RowType
        <2> HIDE DEF id
        <2>3. proc' = [proc EXCEPT ![w] = [pc |-> "update", owner |-> p, id |-> id]]
            BY <1>4 DEF RevokeSelect, id
        <2>4. [pc |-> "update", owner |-> p, id |-> id] \in ProcessState
            BY <2>2 DEF ProcessState
        <2>5. proc' \in [Processes -> ProcessState]
            BY <2>3, <2>4
        <2> QED
            BY <1>4, <2>1, <2>3, <2>5 DEF RevokeSelect
    <1>5. ASSUME NEW w \in Processes, RevokeUpdate(w) PROVE TypeOK'
        <2>1. pats' \in Seq(TokenRow) /\ DOMAIN pats' = DOMAIN pats
              /\ \A i \in DOMAIN pats : pats'[i].owner = pats[i].owner
            BY <1>5, UpdateRows DEF Updated
        <2>2. proc' = [proc EXCEPT ![w] = Idle] /\ Idle \in ProcessState
            BY <1>5 DEF RevokeUpdate, ProcessState
        <2>3. \A v \in Processes : proc'[v] = IF v = w THEN Idle ELSE proc[v]
            BY <2>2
        <2>4. proc' \in [Processes -> ProcessState]
            BY <2>2
        <2>5. now' \in Nat /\ overtaken' \subseteq Processes /\ crossed' \subseteq Principals
              /\ cleared' \subseteq Principals
            BY <1>5, ProcessType DEF RevokeUpdate
        <2> QED
            BY <2>1, <2>3, <2>4, <2>5 DEF Idle
    <1>6. ASSUME NEW w \in Processes, Crash(w) PROVE TypeOK'
        <2>1. proc' = [proc EXCEPT ![w] = Idle] /\ Idle \in ProcessState
            BY <1>6 DEF Crash, ProcessState
        <2>2. proc' \in [Processes -> ProcessState]
            BY <2>1
        <2> QED
            BY <1>6, <2>1, <2>2 DEF Crash, Idle
    <1>7. ASSUME Tick PROVE TypeOK'
        BY <1>7 DEF Tick
    <1>8. CASE UNCHANGED vars
        BY <1>8 DEF vars
    <1> QED
        BY <1>1, <1>2, <1>3, <1>4, <1>5, <1>6, <1>7, <1>8 DEF Next

\* The clock only goes on, and nothing is written ahead of it.
LEMMA ClockStep ==
    TypeOK /\ ClockBehind /\ [Next]_vars => ClockBehind'
    <1> SUFFICES ASSUME TypeOK, ClockBehind, [Next]_vars PROVE ClockBehind'
        OBVIOUS
    <1> USE DEF history, ClockBehind
    <1>1. ASSUME NEW w \in Processes, NEW p \in Principals, NEW ttl \in WebTTLs \cup CliTTLs,
                 IssueStart(w, p, ttl)
          PROVE  ClockBehind'
        BY <1>1, ProcessType, RowType DEF IssueStart, Idle
    <1>2. ASSUME NEW w \in Processes, IssueCommit(w) PROVE ClockBehind'
        <2>a. Committed(w)
            BY <1>2, CommitRows
        <2>1. \A i \in DOMAIN pats' : i \in DOMAIN pats \/ i = Len(pats) + 1
            BY <1>2, <2>a DEF Committed
        <2>2. \A i \in DOMAIN pats' : pats'[i].created <= now
            BY <1>2, <2>1, <2>a DEF IssueCommit, Committed
        <2> QED
            BY <1>2, <2>2 DEF IssueCommit, Idle
    <1>3. ASSUME NEW w \in Processes, NEW p \in Principals, RevokeNone(w, p)
          PROVE  ClockBehind'
        BY <1>3, ProcessType, RowType DEF RevokeNone, Idle
    <1>4. ASSUME NEW w \in Processes, NEW p \in Principals, RevokeSelect(w, p)
          PROVE  ClockBehind'
        BY <1>4, ProcessType, RowType DEF RevokeSelect, Idle
    <1>5. ASSUME NEW w \in Processes, RevokeUpdate(w) PROVE ClockBehind'
        <2>a. Updated(w)
            BY <1>5, UpdateRows
        <2> QED
            BY <1>5, <2>a, ProcessType DEF RevokeUpdate, Idle, Updated
    <1>6. ASSUME NEW w \in Processes, Crash(w) PROVE ClockBehind'
        BY <1>6, ProcessType, RowType DEF Crash, Idle
    <1>7. ASSUME Tick PROVE ClockBehind'
        <2>1. now \in Nat /\ now' = now + 1
            BY <1>7 DEF Tick, TypeOK
        <2> QED
            BY <1>7, <2>1, ProcessType, RowType DEF Tick
    <1>8. CASE UNCHANGED vars
        BY <1>8, ProcessType, RowType DEF vars, Idle
    <1> QED
        BY <1>1, <1>2, <1>3, <1>4, <1>5, <1>6, <1>7, <1>8 DEF Next

\* A commit revokes every row before the one it adds.
LEMMA LastIsActiveStep ==
    TypeOK /\ LastIsActive /\ [Next]_vars => LastIsActive'
    <1> SUFFICES ASSUME TypeOK, LastIsActive, [Next]_vars PROVE LastIsActive'
        OBVIOUS
    <1> USE DEF history, LastIsActive
    <1>1. ASSUME NEW w \in Processes, NEW p \in Principals, NEW ttl \in WebTTLs \cup CliTTLs,
                 IssueStart(w, p, ttl)
          PROVE  LastIsActive'
        BY <1>1 DEF IssueStart
    <1>2. ASSUME NEW w \in Processes, IssueCommit(w) PROVE LastIsActive'
        <2>a. Committed(w)
            BY <1>2, CommitRows
        <2> DEFINE n == Len(pats) + 1
        <2> SUFFICES ASSUME NEW i \in DOMAIN pats', NEW j \in DOMAIN pats',
                            pats'[i].owner = pats'[j].owner, ~pats'[i].revoked
                     PROVE  j <= i
            OBVIOUS
        <2>1. CASE i = n
            BY <2>1, <2>a DEF Committed
        <2>2. CASE i # n
            <3>1. i \in DOMAIN pats /\ ~pats[i].revoked /\ pats[i].owner # proc[w].owner
                BY <2>2, <2>a DEF Committed
            <3>2. j \in DOMAIN pats
                BY <3>1, <2>a DEF Committed
            <3> QED
                BY <3>1, <3>2, <2>a DEF Committed
        <2> QED
            BY <2>1, <2>2
    <1>3. ASSUME NEW w \in Processes, NEW p \in Principals, RevokeNone(w, p)
          PROVE  LastIsActive'
        BY <1>3 DEF RevokeNone
    <1>4. ASSUME NEW w \in Processes, NEW p \in Principals, RevokeSelect(w, p)
          PROVE  LastIsActive'
        BY <1>4 DEF RevokeSelect
    <1>5. ASSUME NEW w \in Processes, RevokeUpdate(w) PROVE LastIsActive'
        <2>a. Updated(w)
            BY <1>5, UpdateRows
        <2> QED
            BY <1>5, <2>a DEF Updated
    <1>6. ASSUME NEW w \in Processes, Crash(w) PROVE LastIsActive'
        BY <1>6 DEF Crash
    <1>7. ASSUME Tick PROVE LastIsActive'
        BY <1>7 DEF Tick
    <1>8. CASE UNCHANGED vars
        BY <1>8 DEF vars
    <1> QED
        BY <1>1, <1>2, <1>3, <1>4, <1>5, <1>6, <1>7, <1>8 DEF Next

\* An issue to the principal is what overtakes.
LEMMA IssueIsNewestStep ==
    TypeOK /\ ClockBehind /\ IssueIsNewest /\ [Next]_vars => IssueIsNewest'
    <1> SUFFICES ASSUME TypeOK, ClockBehind, IssueIsNewest,
                        [Next]_vars
                 PROVE  IssueIsNewest'
        OBVIOUS
    <1> USE DEF history, IssueIsNewest
    <1>1. ASSUME NEW w \in Processes, NEW p \in Principals, NEW ttl \in WebTTLs \cup CliTTLs,
                 IssueStart(w, p, ttl)
          PROVE  IssueIsNewest'
        BY <1>1, ProcessType, RowType DEF IssueStart, ClockBehind, Idle
    <1>2. ASSUME NEW w \in Processes, IssueCommit(w) PROVE IssueIsNewest'
        <2>a. Committed(w)
            BY <1>2, CommitRows
        <2> SUFFICES ASSUME NEW v \in Processes, proc'[v].pc = "insert", v \notin overtaken',
                            NEW j \in DOMAIN pats', pats'[j].owner = proc'[v].owner
                     PROVE  pats'[j].created <= proc'[v].created
            OBVIOUS
        <2>1. v # w /\ proc'[v] = proc[v] /\ proc[v] # Idle /\ v \notin overtaken
            BY <1>2, ProcessType DEF IssueCommit, Idle
        <2>2. proc[v].owner # proc[w].owner
            BY <1>2, <2>1 DEF IssueCommit
        <2>3. j \in DOMAIN pats
            BY <1>2, <2>1, <2>2, <2>a DEF Committed
        <2> QED
            BY <1>2, <2>1, <2>3, <2>a DEF Committed
    <1>3. ASSUME NEW w \in Processes, NEW p \in Principals, RevokeNone(w, p)
          PROVE  IssueIsNewest'
        BY <1>3, ProcessType DEF RevokeNone, Idle
    <1>4. ASSUME NEW w \in Processes, NEW p \in Principals, RevokeSelect(w, p)
          PROVE  IssueIsNewest'
        BY <1>4, ProcessType DEF RevokeSelect, Idle
    <1>5. ASSUME NEW w \in Processes, RevokeUpdate(w) PROVE IssueIsNewest'
        <2>a. Updated(w)
            BY <1>5, UpdateRows
        <2> QED
            BY <1>5, <2>a, ProcessType DEF RevokeUpdate, Idle, Updated
    <1>6. ASSUME NEW w \in Processes, Crash(w) PROVE IssueIsNewest'
        BY <1>6, ProcessType DEF Crash, Idle
    <1>7. ASSUME Tick PROVE IssueIsNewest'
        BY <1>7, ProcessType DEF Tick, Idle
    <1>8. CASE UNCHANGED vars
        BY <1>8, ProcessType DEF vars, Idle
    <1> QED
        BY <1>1, <1>2, <1>3, <1>4, <1>5, <1>6, <1>7, <1>8 DEF Next

\* The row a commit adds is the newest, unless its issue was overtaken.
LEMMA LastIsNewestStep ==
    TypeOK /\ IssueIsNewest /\ LastIsNewest /\ [Next]_vars => LastIsNewest'
    <1> SUFFICES ASSUME TypeOK, IssueIsNewest, LastIsNewest,
                        [Next]_vars
                 PROVE  LastIsNewest'
        OBVIOUS
    <1> USE DEF history, LastIsNewest
    <1>1. ASSUME NEW w \in Processes, NEW p \in Principals, NEW ttl \in WebTTLs \cup CliTTLs,
                 IssueStart(w, p, ttl)
          PROVE  LastIsNewest'
        BY <1>1 DEF IssueStart
    <1>2. ASSUME NEW w \in Processes, IssueCommit(w) PROVE LastIsNewest'
        <2>a. Committed(w)
            BY <1>2, CommitRows
        <2> SUFFICES ASSUME NEW i \in DOMAIN pats', NEW j \in DOMAIN pats', pats'[i].owner \notin crossed',
                            pats'[i].owner = pats'[j].owner, j <= i,
                            ~\E k \in DOMAIN pats' : pats'[k].owner = pats'[i].owner /\ i < k
                     PROVE  pats'[j].created <= pats'[i].created
            OBVIOUS
        <2> DEFINE n == Len(pats) + 1
        <2>1. n \in Nat /\ n \in DOMAIN pats' /\ pats'[n].owner = proc[w].owner
              /\ pats'[n].created = proc[w].created
            BY <1>2, <2>a DEF Committed
        <2>2. \A k \in DOMAIN pats : k \in Nat /\ k < n /\ pats[k].created \in Nat
            BY RowType
        <2>3. CASE i = n
            <3>1. w \notin overtaken
                BY <1>2, <2>1, <2>3 DEF IssueCommit
            <3>2. proc[w].pc = "insert" /\ proc[w].created \in Nat
                BY <1>2, ProcessType DEF IssueCommit
            <3>3. CASE j \in DOMAIN pats
                BY <1>2, <2>1, <2>3, <3>1, <3>2, <3>3, <2>a DEF IssueIsNewest, Committed
            <3>4. CASE j = n
                BY <2>1, <2>3, <3>2, <3>4
            <3> QED
                BY <1>2, <3>3, <3>4, <2>a DEF Committed
        <2>4. CASE i # n
            <3>1. i \in DOMAIN pats /\ j \in DOMAIN pats
                BY <1>2, <2>1, <2>2, <2>4, <2>a DEF Committed
            <3>2. pats[i].owner # proc[w].owner
                BY <1>2, <2>1, <2>2, <3>1, <2>a DEF Committed
            <3>3. pats[i].owner \notin crossed
                BY <1>2, <3>1, <3>2, <2>a DEF IssueCommit, Committed
            <3>4. ~\E k \in DOMAIN pats : pats[k].owner = pats[i].owner /\ i < k
                BY <1>2, <3>1, <2>a DEF Committed
            <3> QED
                BY <1>2, <3>1, <3>3, <3>4, <2>a DEF Committed
        <2> QED
            BY <2>3, <2>4
    <1>3. ASSUME NEW w \in Processes, NEW p \in Principals, RevokeNone(w, p)
          PROVE  LastIsNewest'
        BY <1>3 DEF RevokeNone
    <1>4. ASSUME NEW w \in Processes, NEW p \in Principals, RevokeSelect(w, p)
          PROVE  LastIsNewest'
        BY <1>4 DEF RevokeSelect
    <1>5. ASSUME NEW w \in Processes, RevokeUpdate(w) PROVE LastIsNewest'
        <2>a. Updated(w)
            BY <1>5, UpdateRows
        <2> QED
            BY <1>5, <2>a, ProcessType DEF RevokeUpdate, Updated
    <1>6. ASSUME NEW w \in Processes, Crash(w) PROVE LastIsNewest'
        BY <1>6 DEF Crash
    <1>7. ASSUME Tick PROVE LastIsNewest'
        BY <1>7 DEF Tick
    <1>8. CASE UNCHANGED vars
        BY <1>8 DEF vars
    <1> QED
        BY <1>1, <1>2, <1>3, <1>4, <1>5, <1>6, <1>7, <1>8 DEF Next

\* A revocation selects the one unrevoked token; only a commit brings another.
LEMMA UpdateTakesAllStep ==
    TypeOK /\ ClockBehind /\ LastIsActive /\ UpdateTakesAll /\ [Next]_vars
        => UpdateTakesAll'
    <1> SUFFICES ASSUME TypeOK, ClockBehind, LastIsActive, UpdateTakesAll,
                        [Next]_vars
                 PROVE  UpdateTakesAll'
        OBVIOUS
    <1> USE DEF history, UpdateTakesAll
    <1>1. ASSUME NEW w \in Processes, NEW p \in Principals, NEW ttl \in WebTTLs \cup CliTTLs,
                 IssueStart(w, p, ttl)
          PROVE  UpdateTakesAll'
        BY <1>1, ProcessType DEF IssueStart, Idle
    <1>2. ASSUME NEW w \in Processes, IssueCommit(w) PROVE UpdateTakesAll'
        <2>a. Committed(w)
            BY <1>2, CommitRows
        <2> SUFFICES ASSUME NEW v \in Processes, proc'[v].pc = "update", v \notin overtaken',
                            NEW i \in DOMAIN pats', pats'[i].owner = proc'[v].owner,
                            ~pats'[i].revoked
                     PROVE  i = proc'[v].id
            OBVIOUS
        <2>1. v # w /\ proc'[v] = proc[v] /\ proc[v] # Idle /\ v \notin overtaken
            BY <1>2, ProcessType DEF IssueCommit, Idle
        <2>2. proc[v].owner # proc[w].owner
            BY <1>2, <2>1 DEF IssueCommit
        <2>3. i \in DOMAIN pats
            BY <1>2, <2>1, <2>2, <2>a DEF Committed
        <2> QED
            BY <1>2, <2>1, <2>3, <2>a DEF Committed
    <1>3. ASSUME NEW w \in Processes, NEW p \in Principals, RevokeNone(w, p)
          PROVE  UpdateTakesAll'
        BY <1>3, ProcessType DEF RevokeNone, Idle
    <1>4. ASSUME NEW w \in Processes, NEW p \in Principals, RevokeSelect(w, p)
          PROVE  UpdateTakesAll'
        <2> SUFFICES ASSUME NEW v \in Processes, proc'[v].pc = "update", v \notin overtaken,
                            NEW i \in DOMAIN pats, pats[i].owner = proc'[v].owner,
                            ~pats[i].revoked
                     PROVE  i = proc'[v].id
            BY <1>4, ProcessType DEF RevokeSelect
        <2>1. proc' = [proc EXCEPT ![w] =
                  [pc |-> "update", owner |-> p, id |-> Newest(Unrevoked(p))]]
            BY <1>4, ProcessType DEF RevokeSelect
        <2>2. CASE v = w
            <3>1. proc'[v].owner = p /\ proc'[v].id = Newest(Unrevoked(p))
                BY <2>1, <2>2, ProcessType
            <3>2. i \in Unrevoked(p)
                BY <3>1 DEF Unrevoked, Matches
            <3> QED
                BY <3>1, <3>2, NewestUnrevoked
        <2>3. CASE v # w
            BY <2>1, <2>3
        <2> QED
            BY <2>2, <2>3
    <1>5. ASSUME NEW w \in Processes, RevokeUpdate(w) PROVE UpdateTakesAll'
        <2>a. Updated(w)
            BY <1>5, UpdateRows
        <2> QED
            BY <1>5, <2>a, ProcessType DEF RevokeUpdate, Idle, Updated
    <1>6. ASSUME NEW w \in Processes, Crash(w) PROVE UpdateTakesAll'
        BY <1>6, ProcessType DEF Crash, Idle
    <1>7. ASSUME Tick PROVE UpdateTakesAll'
        BY <1>7, ProcessType DEF Tick, Idle
    <1>8. CASE UNCHANGED vars
        BY <1>8, ProcessType DEF vars, Idle
    <1> QED
        BY <1>1, <1>2, <1>3, <1>4, <1>5, <1>6, <1>7, <1>8 DEF Next

\* What was told of a principal stays true until a commit.
LEMMA RevokeLeavesNothingStep ==
    TypeOK /\ ClockBehind /\ LastIsActive /\ UpdateTakesAll /\ RevokeLeavesNothing /\ [Next]_vars
        => RevokeLeavesNothing'
    <1> SUFFICES ASSUME TypeOK, ClockBehind, LastIsActive, UpdateTakesAll, RevokeLeavesNothing,
                        [Next]_vars
                 PROVE  RevokeLeavesNothing'
        OBVIOUS
    <1> USE DEF history, RevokeLeavesNothing, TokensOf, Usable, Expired
    <1>1. ASSUME NEW w \in Processes, NEW p \in Principals, NEW ttl \in WebTTLs \cup CliTTLs,
                 IssueStart(w, p, ttl)
          PROVE  RevokeLeavesNothing'
        BY <1>1 DEF IssueStart
    <1>2. ASSUME NEW w \in Processes, IssueCommit(w) PROVE RevokeLeavesNothing'
        <2>a. Committed(w)
            BY <1>2, CommitRows
        <2> SUFFICES ASSUME NEW p \in cleared, p # proc[w].owner,
                            NEW i \in DOMAIN pats', pats'[i].owner = p, ~pats'[i].revoked
                     PROVE  pats'[i].expires # Never /\ pats'[i].expires <= now
            BY <1>2, ProcessType DEF IssueCommit
        <2>1. i \in DOMAIN pats
            BY <1>2, <2>a DEF Committed
        <2> QED
            BY <1>2, <2>1, <2>a DEF Committed
    <1>3. ASSUME NEW w \in Processes, NEW p \in Principals, RevokeNone(w, p)
          PROVE  RevokeLeavesNothing'
        <2>1. ASSUME NEW i \in DOMAIN pats, pats[i].owner = p, ~pats[i].revoked
              PROVE  Expired(i)
            <3>1. i \in Unrevoked(p)
                BY <2>1 DEF Unrevoked, Matches
            <3>2. i = Newest(Unrevoked(p))
                BY <3>1, NewestUnrevoked
            <3> QED
                BY <1>3, <3>1, <3>2 DEF RevokeNone
        <2> QED
            BY <1>3, <2>1 DEF RevokeNone
    <1>4. ASSUME NEW w \in Processes, NEW p \in Principals, RevokeSelect(w, p)
          PROVE  RevokeLeavesNothing'
        BY <1>4 DEF RevokeSelect
    <1>5. ASSUME NEW w \in Processes, RevokeUpdate(w) PROVE RevokeLeavesNothing'
        <2>a. Updated(w)
            BY <1>5, UpdateRows
        <2> SUFFICES ASSUME NEW p \in cleared', NEW i \in DOMAIN pats, pats[i].owner = p,
                            ~pats'[i].revoked
                     PROVE  pats[i].expires # Never /\ pats[i].expires <= now
            BY <1>5, <2>a, ProcessType DEF RevokeUpdate, Updated
        <2>1. ~pats[i].revoked /\ i # proc[w].id
            BY <1>5, <2>a DEF Updated
        <2>2. p \in cleared
            BY <1>5, <2>1 DEF RevokeUpdate, UpdateTakesAll
        <2> QED
            BY <2>1, <2>2
    <1>6. ASSUME NEW w \in Processes, Crash(w) PROVE RevokeLeavesNothing'
        BY <1>6 DEF Crash
    <1>7. ASSUME Tick PROVE RevokeLeavesNothing'
        <2>1. now \in Nat /\ now' = now + 1
            BY <1>7, ProcessType DEF Tick, TypeOK
        <2>2. \A i \in DOMAIN pats : pats[i].expires \in Nat \cup {Never}
            BY RowType
        <2> QED
            BY <1>7, <2>1, <2>2 DEF Tick, Never
    <1>8. CASE UNCHANGED vars
        BY <1>8 DEF vars
    <1> QED
        BY <1>1, <1>2, <1>3, <1>4, <1>5, <1>6, <1>7, <1>8 DEF Next

-----------------------------------------------------------------------------
(* Theorems.                                                               *)

\* The initial table.
LEMMA InitInv == Init => IInv
<1> SUFFICES ASSUME Init PROVE IInv
    OBVIOUS
<1>1. PICK n \in 0..MaxLegacy : pats \in [1..n -> LegacyRow]
    BY DEF Init
<1>2. n \in Nat /\ LegacyRow \subseteq TokenRow
    BY <1>1, TokensAssumption DEF LegacyRow, TokenRow, Principals
<1>3. pats \in Seq(TokenRow)
    BY <1>1, <1>2
<1>4. \A i \in DOMAIN pats : pats[i].created = 0
    BY <1>1 DEF LegacyRow
<1>5. \A w \in Processes : proc[w].pc = "idle"
    BY DEF Init, Idle
<1>6. TypeOK
    BY <1>3, <1>5 DEF Init, TypeOK, ProcessState
<1>7. ClockBehind /\ LastIsActive /\ IssueIsNewest /\ LastIsNewest /\ UpdateTakesAll
    BY <1>4, <1>5 DEF Init, ClockBehind, LastIsActive, IssueIsNewest, LastIsNewest,
                      UpdateTakesAll
<1> QED
    BY <1>6, <1>7 DEF Init, IInv, RevokeLeavesNothing

\* The invariant is inductive.
LEMMA Invariant == Spec => []IInv
<1>1. IInv /\ [Next]_vars => IInv'
    BY TypeStep, ClockStep, LastIsActiveStep, IssueIsNewestStep, LastIsNewestStep,
       UpdateTakesAllStep, RevokeLeavesNothingStep DEF IInv
<1> QED
    BY InitInv, <1>1, PTL DEF Spec

\* Every reachable state is well typed.
THEOREM TypeCorrect == Spec => []TypeOK
<1>1. IInv => TypeOK
    BY DEF IInv
<1> QED
    BY Invariant, <1>1, PTL

\* However issues and revocations interleave, a principal never has two unrevoked tokens.
THEOREM OneActiveToken == Spec => []AtMostOneActive
<1>1. IInv => AtMostOneActive
    <2> SUFFICES ASSUME IInv, NEW i \in DOMAIN pats, NEW j \in DOMAIN pats,
                        pats[i].owner = pats[j].owner, ~pats[i].revoked, ~pats[j].revoked
                 PROVE  i = j
        BY DEF AtMostOneActive, TokensOf
    <2>1. i <= j /\ j <= i
        BY DEF IInv, LastIsActive
    <2>2. i \in Nat /\ j \in Nat
        BY RowType DEF IInv
    <2> QED
        BY <2>1, <2>2
<1> QED
    BY Invariant, <1>1, PTL

\* An answered revocation holds until the next issue.
THEOREM RevocationHolds == Spec => []RevokeLeavesNothing
<1>1. IInv => RevokeLeavesNothing
    BY DEF IInv
<1> QED
    BY Invariant, <1>1, PTL

\* The status shown and the verdict on a request agree, but for overtaken issues.
THEOREM StatusIsVerdict == Spec => []StatusAgrees
<1>1. IInv => StatusAgrees
    <2> SUFFICES ASSUME IInv, NEW p \in Principals
                 PROVE  /\ Status(p) = "active" => \E i \in TokensOf(p) : Usable(i)
                        /\ p \notin crossed /\ (\E i \in TokensOf(p) : Usable(i))
                               => Status(p) = "active"
        BY DEF StatusAgrees
    <2> USE DEF IInv
    <2>1. Matches(p) \subseteq DOMAIN pats /\ TokensOf(p) = Matches(p)
        BY DEF Matches, TokensOf
    <2>2. CASE Matches(p) = {}
        BY <2>1, <2>2 DEF Status
    <2>3. CASE Matches(p) # {}
        <3> DEFINE n == Newest(Matches(p))
        <3>1. n \in Matches(p) /\ \A j \in Matches(p) : NotLater(j, n)
            BY <2>1, <2>3, NewestFound
        <3>2. Status(p) = IF pats[n].revoked THEN "revoked"
                          ELSE IF Expired(n) THEN "expired" ELSE "active"
            BY <2>3 DEF Status
        <3> HIDE DEF n
        <3>3. Status(p) = "active" <=> Usable(n)
            BY <3>2 DEF Usable
        <3>4. ASSUME p \notin crossed, NEW i \in Matches(p), Usable(i) PROVE i = n
            <4>1. \A j \in Matches(p) : j <= i /\ j \in Nat /\ pats[j].created \in Nat
                BY <2>1, <3>4, RowType DEF Usable, LastIsActive, Matches
            <4>2. \A j \in Matches(p) : pats[j].created <= pats[i].created
                <5>1. ~\E k \in DOMAIN pats : pats[k].owner = pats[i].owner /\ i < k
                    BY <3>4, <4>1 DEF Matches
                <5> QED
                    BY <2>1, <3>4, <4>1, <5>1 DEF LastIsNewest, Matches
            <4>3. pats[n].created <= pats[i].created /\ n <= i /\ NotLater(i, n)
                BY <3>1, <3>4, <4>1, <4>2
            <4> QED
                BY <3>1, <3>4, <4>1, <4>3 DEF NotLater
        <3> QED
            BY <2>1, <3>1, <3>3, <3>4
    <2> QED
        BY <2>2, <2>3
<1> QED
    BY Invariant, <1>1, PTL

-----------------------------------------------------------------------------
(* The table implements TokenSlots.                                        *)

WorkingRows == {<<pats[i].owner, i>> : i \in Verified}

\* A step that adds no row and lets none through that did not get through.
LEMMA LapseStep ==
    ASSUME TypeOK, DOMAIN pats' = DOMAIN pats,
           \A i \in DOMAIN pats : pats'[i].owner = pats[i].owner,
           Verified' \subseteq Verified
    PROVE  [Slots!Next]_(Slots!vars)
<1>1. WorkingRows' \subseteq WorkingRows
    BY DEF WorkingRows, Verified
<1>2. DOMAIN pats \subseteq Nat \ {0}
    BY DEF TypeOK
<1> QED
    BY <1>1, <1>2 DEF Slots!Next, Slots!Lapse, WorkingRows

\* A commit issues, or hands out a token that its delay has let expire.
LEMMA CommitStep ==
    ASSUME TypeOK, NEW w \in Processes, IssueCommit(w)
    PROVE  Slots!Next
<1> DEFINE p == proc[w].owner
           n == Len(pats) + 1
<1>1. /\ p \in Principals /\ UNCHANGED now
      /\ Committed(w)
    BY CommitRows, ProcessType DEF IssueCommit
<1>2. n \in Nat \ {0} /\ n \notin DOMAIN pats /\ DOMAIN pats' = DOMAIN pats \cup {n}
      /\ DOMAIN pats' \subseteq Nat \ {0}
    <2>1. DOMAIN pats = 1..Len(pats) /\ Len(pats) \in Nat
        BY DEF TypeOK
    <2> QED
        BY <1>1, <2>1 DEF Committed
<1>3. pats'[n].owner = p /\ \A i \in DOMAIN pats : pats'[i].owner = pats[i].owner
    BY <1>1 DEF Committed
<1>4. \A i \in DOMAIN pats : i \in Verified' <=> i \in Verified /\ pats[i].owner # p
    BY <1>1 DEF Committed, Verified, Usable, Expired
<1> HIDE DEF p, n
<1>5. \A x : x \in WorkingRows' <=>
         \/ \E i \in Verified : pats[i].owner # p /\ x = <<pats[i].owner, i>>
         \/ n \in Verified' /\ x = <<p, n>>
    <2>1. \A x : x \in WorkingRows' <=> \E i \in Verified' : x = <<pats'[i].owner, i>>
        BY DEF WorkingRows
    <2>2. /\ Verified \subseteq DOMAIN pats /\ Verified' \subseteq DOMAIN pats \cup {n}
        BY <1>2 DEF Verified
    <2> QED
        BY <1>2, <1>3, <1>4, <2>1, <2>2
<1>6. \A x : x \in {y \in WorkingRows : y[1] # p} <=>
         \E i \in Verified : pats[i].owner # p /\ x = <<pats[i].owner, i>>
    BY DEF WorkingRows
<1>7. CASE n \in Verified'
    <2>1. WorkingRows' = {y \in WorkingRows : y[1] # p} \cup {<<p, n>>}
        BY <1>5, <1>6, <1>7
    <2> QED
        BY <1>1, <1>2, <2>1 DEF Slots!Next, Slots!Issue, WorkingRows
<1>8. CASE n \notin Verified'
    <2>1. WorkingRows' \subseteq WorkingRows
        BY <1>5, <1>6, <1>8
    <2> QED
        BY <1>2, <2>1 DEF Slots!Next, Slots!Lapse, WorkingRows
<1> QED
    BY <1>7, <1>8

\* Every step of a process is a step of TokenSlots or changes nothing it sees.
LEMMA SlotsStep == TypeOK /\ [Next]_vars => [Slots!Next]_(Slots!vars)
    <1> SUFFICES ASSUME TypeOK, [Next]_vars PROVE [Slots!Next]_(Slots!vars)
        OBVIOUS
    <1>1. ASSUME UNCHANGED <<now, pats>> PROVE [Slots!Next]_(Slots!vars)
        BY <1>1, LapseStep DEF Verified, Usable, Expired
    <1>2. ASSUME NEW w \in Processes, IssueCommit(w) PROVE [Slots!Next]_(Slots!vars)
        BY <1>2, CommitStep
    <1>3. ASSUME NEW w \in Processes, RevokeUpdate(w) PROVE [Slots!Next]_(Slots!vars)
        <2>1. Updated(w) /\ UNCHANGED now
            BY <1>3, UpdateRows DEF RevokeUpdate
        <2> QED
            BY <2>1, LapseStep DEF Updated, Verified, Usable, Expired
    <1>4. ASSUME Tick PROVE [Slots!Next]_(Slots!vars)
        <2>1. now \in Nat /\ now' = now + 1 /\ pats' = pats
            BY <1>4, ProcessType DEF Tick, TypeOK
        <2>2. \A i \in DOMAIN pats : pats[i].expires \in Nat \cup {Never}
            BY RowType
        <2>3. Verified' \subseteq Verified
            BY <2>1, <2>2 DEF Verified, Usable, Expired, Never
        <2> QED
            BY <2>1, <2>3, LapseStep
    <1> QED
        BY <1>1, <1>2, <1>3, <1>4
        DEF Next, vars, history, IssueStart, RevokeNone, RevokeSelect, Crash

\* For any number of principals, processes and tokens: a request gets through with the last
\* token of its principal only, and with no token that once failed.
THEOREM TableImplementsSlots == Spec => ImplementsSlots
<1>1. Init => Slots!Init
    <2> SUFFICES ASSUME Init PROVE Slots!Init
        OBVIOUS
    <2>1. DOMAIN pats \subseteq Nat \ {0}
        BY InitInv DEF IInv, TypeOK
    <2>2. \A i \in DOMAIN pats : pats[i].owner \in Principals
        BY InitInv, RowType DEF IInv
    <2>3. ASSUME NEW i \in Verified, NEW j \in Verified,
                 pats[i].owner = pats[j].owner
          PROVE  i = j
        BY <2>1, <2>3 DEF Init, Verified, Usable
    <2> QED
        BY <2>1, <2>2, <2>3 DEF Slots!Init, Verified
<1>2. IInv /\ [Next]_vars => [Slots!Next]_(Slots!vars)
    BY SlotsStep DEF IInv
<1> QED
    BY <1>1, <1>2, Invariant, PTL DEF Spec, ImplementsSlots, Slots!Spec

\* What TokenSlots promises by itself, here of the table: one working token each, and a
\* token that has failed fails for ever.
THEOREM TokensNeverRevive == Spec => []Slots!OneEach /\ Slots!NeverRevives
<1>1. Slots!Init => Slots!OneEach
    BY DEF Slots!Init, Slots!OneEach
<1>2. Slots!OneEach /\ [Slots!Next]_(Slots!vars) => Slots!OneEach'
    <2> SUFFICES ASSUME Slots!OneEach, [Slots!Next]_(Slots!vars) PROVE Slots!OneEach'
        OBVIOUS
    <2>1. CASE Slots!Lapse
        BY <2>1 DEF Slots!OneEach, Slots!Lapse
    <2>2. ASSUME NEW p \in Principals, Slots!Issue(p) PROVE Slots!OneEach'
        BY <2>2 DEF Slots!OneEach, Slots!Issue
    <2>3. CASE UNCHANGED Slots!vars
        BY <2>3 DEF Slots!OneEach, Slots!vars
    <2> QED
        BY <2>1, <2>2, <2>3 DEF Slots!Next
<1>3. Slots!OneEach /\ [Slots!Next]_(Slots!vars) => [~Slots!Revives]_(Slots!vars)
    <2> SUFFICES ASSUME Slots!OneEach, Slots!Next PROVE ~Slots!Revives
        OBVIOUS
    <2>1. CASE Slots!Lapse
        BY <2>1 DEF Slots!Lapse, Slots!Revives
    <2>2. ASSUME NEW p \in Principals, Slots!Issue(p) PROVE ~Slots!Revives
        BY <2>2 DEF Slots!Issue, Slots!Revives
    <2> QED
        BY <2>1, <2>2 DEF Slots!Next
<1> QED
    BY <1>1, <1>2, <1>3, TableImplementsSlots, PTL
    DEF ImplementsSlots, Slots!Spec, Slots!NeverRevives

=============================================================================
