----------------------------- MODULE Repositories -----------------------------
(***************************************************************************)
(* The database as the handlers see it: lookups through the repositories,  *)
(* the entries of a change tracker, and SaveChanges, for the two back      *)
(* ends.  PostgreSQL hands out copies of its rows and checks the version   *)
(* of a row when it updates it; the memory back end hands out the objects  *)
(* it keeps, so that a setter changes what everybody sees, saved or not,   *)
(* and an update puts the object back if it was deleted in between.        *)
(*                                                                         *)
(* A database maps ids to rows; a deleted row stays, not live, because a   *)
(* handler may still hold its object.                                      *)
(***************************************************************************)
EXTENDS Naturals, Sequences, Entities, PostgresRows, MemoryRows, Schema

VARIABLES
    backend,   \* "postgres" or "memory", chosen by the configuration
    db         \* [ids of rows -> [kind, fields, version, live]]

Postgres == backend = "postgres"
Nil == <<>>   \* no id

Row(kind, fields) == [kind |-> kind, fields |-> fields, version |-> 1, live |-> TRUE]
IsLive(rows, id) == id \in DOMAIN rows /\ rows[id].live
Rows(kind) == {id \in DOMAIN db : db[id].live /\ db[id].kind = kind}

-----------------------------------------------------------------------------
(* Lookups.                                                                *)

\* What a condition of a filter says of an entity.
Holds(condition, value, id, fields) ==
    CASE condition = "id" -> id = value
      [] condition = "ids" -> id \in value
      [] condition = "applicationIds" -> fields.applicationId \in value
      [] condition \in {"detailKid", "detailPublicKey", "detailsId"} -> fields.details = value
      [] condition = "templateType" -> fields.type = value
      [] OTHER -> fields[condition] = value

\* The conditions a back end looks at; the others of a filter are ignored.
Where(end, kind) == IF end = "postgres" THEN ReadOf[kind].where ELSE MatchesOf[kind].where

SelectOn(end, kind, filter) ==
    {id \in Rows(kind) : \A c \in DOMAIN filter \intersect Where(end, kind) :
                            Holds(c, filter[c], id, db[id].fields)}

Select(kind, filter) == SelectOn(backend, kind, filter)

\* A row can only be scanned into as many fields as there are columns.
Readable(kind) == Postgres => Len(ReadOf[kind].selected) = Len(ReadOf[kind].scanned)

\* FirstOrNil: one of the rows, or none; FirstOrErr refuses if there is none.
First(kind, filter) == IF Select(kind, filter) = {} THEN {Nil} ELSE Select(kind, filter)

-----------------------------------------------------------------------------
(* What a unit of work tracks.                                             *)

Entry(change, kind, id, fields, version, changed) ==
    [change |-> change, kind |-> kind, id |-> id, fields |-> fields, version |-> version,
     changed |-> changed, stamped |-> FALSE]

Insertion(id, kind, values) == Entry("added", kind, id, New(kind, values), 0, {})
Deletion(kind, id) == Entry("deleted", kind, id, NoFields, 0, {})

\* The update of an entity that was read as row.
UpdateOf(id, row, values) ==
    Entry("updated", row.kind, id, values ++ row.fields, row.version,
          Tracked(row.kind, row.fields, values))

-----------------------------------------------------------------------------
(* SaveChanges.                                                            *)

\* Another row has the same unique columns (no two nulls are the same).
Conflicts(rows, e) ==
    \E id \in DOMAIN rows \ {e.id} : \E columns \in TableOf[e.kind].unique :
        /\ rows[id].live /\ rows[id].kind = e.kind
        /\ \A c \in columns : rows[id].fields[c] = e.fields[c]
        /\ \A c \in columns \intersect DOMAIN RefersTo(e.kind) : e.fields[c] # Nil

\* A reference is null, or that of a row of the table it refers to.
Dangles(rows, e) ==
    \E c \in DOMAIN RefersTo(e.kind) :
        LET target == e.fields[c] IN
        /\ target # Nil
        /\ IsLive(rows, target) => rows[target].kind # RefersTo(e.kind)[c]

Referenced(rows, target) ==
    \E id \in DOMAIN rows : \E c \in DOMAIN RefersTo(rows[id].kind) :
        rows[id].live /\ rows[id].fields[c] = target

\* Mutant: the update does not ask for the version that was read.
Executable_AnyVersion(rows, e) ==
    \/ backend = "memory"
    \/ e.change = "added" /\ ~e.stamped /\ ~Conflicts(rows, e) /\ ~Dangles(rows, e)
    \/ e.change = "updated" /\ e.changed = {}
    \/ /\ e.change = "updated" /\ e.changed \subseteq WriteOf[e.kind].updated
       /\ IsLive(rows, e.id)
    \/ e.change = "deleted" /\ WriteOf[e.kind].deletable /\ ~Referenced(rows, e.id)

\* The statement of an entry succeeds.  One that was already inserted by a save that
\* failed carries a version of the wrong type: mapBase panics on it.
Executable(rows, e) ==
    \/ backend = "memory"
    \/ e.change = "added" /\ ~e.stamped /\ ~Conflicts(rows, e) /\ ~Dangles(rows, e)
    \/ e.change = "updated" /\ e.changed = {}
    \/ /\ e.change = "updated" /\ e.changed \subseteq WriteOf[e.kind].updated
       /\ IsLive(rows, e.id) /\ rows[e.id].version = e.version
    \/ e.change = "deleted" /\ WriteOf[e.kind].deletable /\ ~Referenced(rows, e.id)

\* What an insertion stores.
Stored(e) ==
    [c \in DOMAIN e.fields |-> IF Postgres /\ c \notin WriteOf[e.kind].inserted
                               THEN ColumnDefault[c] ELSE e.fields[c]]

\* An update writes the fields that were changed, and only those.
Written(row, e) == [c \in DOMAIN row.fields |-> IF c \in e.changed THEN e.fields[c] ELSE row.fields[c]]
Updated(row, e) == [row EXCEPT !.fields = Written(row, e), !.version = @ + 1]

Execute(rows, e) ==
    CASE e.change = "added" -> Only(e.id, Row(e.kind, Stored(e))) ++ rows
      [] e.change = "updated" /\ Postgres ->
            IF e.changed = {} THEN rows
            ELSE [rows EXCEPT ![e.id] = Updated(@, e)]
      [] e.change = "updated" /\ ~Postgres -> [rows EXCEPT ![e.id].live = TRUE]
      [] e.change = "deleted" ->
            IF e.id \in DOMAIN rows THEN [rows EXCEPT ![e.id].live = FALSE] ELSE rows

\* The entries are executed in the order they were tracked, up to the first that fails:
\* the rows after it, and how many entries were executed.
Saved(rows, work) ==
    LET after[n \in 0 .. Len(work)] ==
            IF n = 0 THEN [rows |-> rows, ok |-> TRUE, done |-> 0]
            ELSE LET s == after[n - 1] IN
                 IF s.ok /\ Executable(s.rows, work[n])
                 THEN [rows |-> Execute(s.rows, work[n]), ok |-> TRUE, done |-> n]
                 ELSE [rows |-> s.rows, ok |-> FALSE, done |-> s.done]
    IN  after[Len(work)]

\* The transaction is not committed, but the entities that were executed count as
\* saved: insertions have got their version, updates have no changes left.
AfterFailure(work, done) ==
    [i \in DOMAIN work |->
        IF i > done THEN work[i]
        ELSE [work[i] EXCEPT !.stamped = @ \/ work[i].change = "added", !.changed = {}]]

=============================================================================
