--------------------------- MODULE ConditionOrder ---------------------------
(***************************************************************************)
(* The order of a license's conditions: the position column, the requests  *)
(* that number rows (appending, moving a condition to another descriptor,  *)
(* copying conditions to a renewed license) and the item numbers computed  *)
(* from it on read.                                                        *)
(*                                                                         *)
(* An append runs at READ COMMITTED and a move SERIALIZABLE; both first    *)
(* read the highest position and then write, and other transactions may    *)
(* commit between the two.  Two serializable moves on a license, or a move *)
(* and a renewal, conflict; an append conflicts with nothing.              *)
(*                                                                         *)
(* The table is the sequence of the rows ever inserted.  created is        *)
(* created_at, a stamp several inserts may share; rows that tie on it and  *)
(* on the position may be read in either order, whatever ids they drew.    *)
(* batch, seen, source and moved are not columns: they remember which      *)
(* insert wrote the row, how many rows there were when that request read   *)
(* the highest position, which row it copies, and whether it ever moved.   *)
(***************************************************************************)
EXTENDS Naturals, SequencesExt

CONSTANTS
    Requests,      \* appends and moves the server receives
    Licenses,      \* licenses with conditions
    Descriptors,   \* environmental descriptors
    MaxRows,       \* bound on the rows ever inserted
    MaxLegacy      \* bound on the rows older than the position column

ASSUME BoundsAssumption ==
    MaxRows \in Nat /\ MaxLegacy \in Nat /\ MaxLegacy <= MaxRows

VARIABLES
    rows,    \* license_condition, in insertion order
    pc,      \* how far each request has come
    job      \* what each request does and the position it computed

vars == <<rows, pc, job>>

Batches == UNION {[1..n -> Descriptors] : n \in 1..2}

NoJob == [kind |-> "none"]

-----------------------------------------------------------------------------
(* Positions *)

RowsOf(l) == {i \in DOMAIN rows : rows[i].live /\ rows[i].license = l}

(* CONDITION_ORDER up to the id: row i is read before row j for certain. *)
Before(i, j) ==
    \/ rows[i].position < rows[j].position
    \/ rows[i].position = rows[j].position /\ rows[i].created < rows[j].created

(* The orders in which a query may return the rows of S. *)
Readings(S) ==
    {s \in SetToSeqs(S) :
        \A a, b \in DOMAIN s : Before(s[a], s[b]) => a < b}

MutantNextPosition(l) == Max({0} \cup {rows[i].position : i \in RowsOf(l)})

(* The position right after the last condition of the license. *)
NextPosition(l) == Max({0} \cup {rows[i].position : i \in RowsOf(l)}) + 1

LastStamp == Max({0} \cup {rows[i].created : i \in DOMAIN rows})

NewRow(l, descriptor, position, stamp, seen, source) ==
    [license |-> l, descriptor |-> descriptor, position |-> position,
     created |-> stamp, batch |-> Len(rows), seen |-> seen,
     source |-> source, moved |-> FALSE, live |-> TRUE]

MutantPlaced(first, k) == first

(* withNextPositions: where the k-th row of an insert goes. *)
Placed(first, k) == first + k - 1

Advance(r, from, to) == pc[r] = from /\ pc' = [pc EXCEPT ![r] = to]

-----------------------------------------------------------------------------
(* Requests *)

(* createConditions and addMany: the transaction reads the last position... *)
BeginAppend(r, l, descriptors) ==
    /\ Advance(r, "idle", "read")
    /\ job' = [job EXCEPT ![r] =
                 [kind |-> "append", license |-> l, descriptors |-> descriptors,
                  position |-> NextPosition(l), seen |-> Len(rows)]]
    /\ UNCHANGED rows

(* ...and inserts the rows after it, at the same instant as the last insert *)
(* or later.                                                                *)
InsertAppend(r, stamp) ==
    LET mine == job[r] IN
    /\ mine.kind = "append"
    /\ Len(rows) + Len(mine.descriptors) <= MaxRows
    /\ Advance(r, "read", "done")
    /\ rows' = rows \o
         [k \in DOMAIN mine.descriptors |->
            NewRow(mine.license, mine.descriptors[k], Placed(mine.position, k),
                   stamp, mine.seen, 0)]
    /\ UNCHANGED job

(* updateCondition with another descriptor: finds the row and reads the     *)
(* last position of its license...                                          *)
BeginMove(r, i, descriptor) ==
    /\ rows[i].live
    /\ rows[i].descriptor # descriptor
    /\ Advance(r, "idle", "read")
    /\ job' = [job EXCEPT ![r] =
                 [kind |-> "move", license |-> rows[i].license, row |-> i,
                  descriptor |-> descriptor,
                  position |-> NextPosition(rows[i].license),
                  seen |-> Len(rows)]]
    /\ UNCHANGED rows

OpenMove(r) == pc[r] = "read" /\ job[r].kind = "move"

(* The open moves of a license: a renewal, or another move on it, that      *)
(* commits first makes the database refuse them.                            *)
MovesOn(l) == {r \in Requests : OpenMove(r) /\ job[r].license = l}

Refuse(S) == pc' = [r \in Requests |-> IF r \in S THEN "failed" ELSE pc[r]]

MutantMoved(row, descriptor, position) ==
    [row EXCEPT !.descriptor = descriptor, !.moved = TRUE]

Moved(row, descriptor, position) ==
    [row EXCEPT !.descriptor = descriptor, !.position = position, !.moved = TRUE]

(* ...and puts the row after it. *)
CommitMove(r) ==
    LET mine == job[r] IN
    /\ OpenMove(r)
    /\ rows' = [rows EXCEPT ![mine.row] =
                  Moved(@, mine.descriptor, mine.position)]
    /\ pc' = [q \in Requests |->
                IF q = r THEN "done"
                ELSE IF q \in MovesOn(mine.license) THEN "failed" ELSE pc[q]]
    /\ UNCHANGED job

(* deleteCondition: an open move of the same row can no longer commit. *)
DeleteRow(i) ==
    /\ rows[i].live
    /\ rows' = [rows EXCEPT ![i].live = FALSE]
    /\ Refuse({r \in Requests : OpenMove(r) /\ job[r].row = i})
    /\ UNCHANGED job

MutantSources(S) == SetToSeqs(S)

(* renew copies the conditions in the order its query returned them. *)
Sources(S) == Readings(S)

(* renew: copies of the marked conditions, numbered from 1 on a license     *)
(* that has none.                                                           *)
CopyToRenewal(old, new, S, stamp) ==
    /\ S # {}
    /\ \A i \in DOMAIN rows : rows[i].license # new
    /\ Len(rows) + Cardinality(S) <= MaxRows
    /\ \E sources \in Sources(S) :
          rows' = rows \o
            [k \in DOMAIN sources |->
               NewRow(new, rows[sources[k]].descriptor,
                      Placed(NextPosition(new), k), stamp, Len(rows),
                      sources[k])]
    /\ Refuse(MovesOn(old))
    /\ UNCHANGED job

(* The connection fails or the process stops. *)
Fail(r) == Advance(r, "read", "failed") /\ UNCHANGED <<rows, job>>

-----------------------------------------------------------------------------

(* Rows written before the position column existed all hold 0. *)
Init ==
    /\ \E n \in 0..MaxLegacy :
         \E where \in [1..n -> Licenses], what \in [1..n -> Descriptors] :
            rows = [k \in 1..n |->
                      [license |-> where[k], descriptor |-> what[k],
                       position |-> 0, created |-> k, batch |-> k - 1,
                       seen |-> k - 1, source |-> 0, moved |-> FALSE,
                       live |-> TRUE]]
    /\ pc = [r \in Requests |-> "idle"]
    /\ job = [r \in Requests |-> NoJob]

Next ==
    \/ \E r \in Requests :
          \/ \E l \in Licenses, descriptors \in Batches :
                BeginAppend(r, l, descriptors)
          \/ \E stamp \in {LastStamp, LastStamp + 1} : InsertAppend(r, stamp)
          \/ \E i \in DOMAIN rows, descriptor \in Descriptors :
                BeginMove(r, i, descriptor)
          \/ CommitMove(r)
          \/ Fail(r)
    \/ \E i \in DOMAIN rows : DeleteRow(i)
    \/ \E old, new \in Licenses : \E S \in SUBSET RowsOf(old) :
          CopyToRenewal(old, new, S, LastStamp + 1)

Spec == Init /\ [][Next]_vars

-----------------------------------------------------------------------------
(* The details page *)

(* One row joins the group of its descriptor, a new group if there is none. *)
MutantJoin(groups, i) ==
    IF groups # <<>> /\ rows[Last(Last(groups))].descriptor = rows[i].descriptor
    THEN [groups EXCEPT ![Len(groups)] = Append(@, i)]
    ELSE Append(groups, <<i>>)

Join(groups, i) ==
    LET mine == {g \in DOMAIN groups :
                   rows[groups[g][1]].descriptor = rows[i].descriptor}
    IN IF mine = {} THEN Append(groups, <<i>>)
       ELSE [g \in DOMAIN groups |->
               IF g \in mine THEN Append(groups[g], i) ELSE groups[g]]

(* toNumberedEnvironmentalDescriptorRows: the row in place c of group g is  *)
(* item "g.c".                                                              *)
Numbered(reading) == FoldLeft(Join, <<>>, reading)

-----------------------------------------------------------------------------
(* Properties *)

(* The rows of one insert are read in the order they were given in, until   *)
(* they are moved, whatever other requests appended at the same time        *)
(* (withNextPositions: "keeping the order they were given in").             *)
BatchOrder ==
    \A i, j \in DOMAIN rows :
        /\ i < j /\ rows[i].batch = rows[j].batch
        /\ ~rows[i].moved /\ ~rows[j].moved
        => Before(i, j)

(* A condition comes after every condition of its license that the request  *)
(* could see when it read the last position (withNextPositions: "Appends    *)
(* the rows after the conditions each license already has").                *)
AfterWhatItRead ==
    \A l \in Licenses : \A i, j \in RowsOf(l) :
        i <= rows[j].seen /\ ~rows[i].moved /\ ~rows[j].moved => Before(i, j)

(* Both promises of withNextPositions, for every interleaving.              *)
AppendsInOrder == BatchOrder /\ AfterWhatItRead

(* A moved condition is the last of its license, and so of its new group:   *)
(* only what was inserted while the move ran may come after it or tie       *)
(* (updateCondition: "numbered last in its new group").                     *)
MovedLast ==
    [][\A r \in Requests : OpenMove(r) /\ pc'[r] = "done" =>
          \A i \in RowsOf(job[r].license) :
             i # job[r].row /\ i <= job[r].seen => Before(i, job[r].row)']_vars

(* The conditions copied to a renewed license are read in the order of the  *)
(* ones they copy (PrismaLicenseRepository.renew: "`conditions` is in the   *)
(* previous license's order, so the copies are numbered the same way").     *)
CopiesKeepOrder ==
    [][\A i, j \in Len(rows) + 1 .. Len(rows') :
          LET a == rows'[i].source
              b == rows'[j].source
          IN a # 0 /\ b # 0 => (Before(a, b) => Before(i, j)')]_vars

(* However the rows of a license are read, each gets exactly one number,    *)
(* every descriptor gets one group, groups stand in the order of their      *)
(* first rows and rows in the order they were read: deleting or moving a    *)
(* condition leaves no gap and no empty group.                              *)
NumberedWithoutGaps ==
    \A l \in Licenses : \A reading \in Readings(RowsOf(l)) :
        LET groups == Numbered(reading)
            place(i) == CHOOSE k \in DOMAIN reading : reading[k] = i
            descriptor(g) == rows[groups[g][1]].descriptor
        IN
        /\ FlattenSeq(groups) \in SetToSeqs(RowsOf(l))
        /\ \A g \in DOMAIN groups :
             /\ \A c, d \in DOMAIN groups[g] :
                  /\ rows[groups[g][c]].descriptor = descriptor(g)
                  /\ c < d => place(groups[g][c]) < place(groups[g][d])
             /\ \A h \in DOMAIN groups : g < h =>
                  /\ descriptor(g) # descriptor(h)
                  /\ place(groups[g][1]) < place(groups[h][1])
=============================================================================
