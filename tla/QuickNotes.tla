------------------------------ MODULE QuickNotes -------------------------------
(***************************************************************************)
(* QuickNoteService: the notes a till offers, in the order of their        *)
(* sortOrder.                                                              *)
(***************************************************************************)
EXTENDS ShopTables

NotesOf(s) == Of(db.notes, "store", s)

\* Mutation: the number of notes is taken for the next place.
PlaceByCount(s) == Cardinality(NotesOf(s))

\* The place after the last note.
NextPlace(s) ==
  IF NotesOf(s) = {} THEN 0
  ELSE 1 + CHOOSE n \in {db.notes[k].order : k \in NotesOf(s)} :
             \A k \in NotesOf(s) : db.notes[k].order <= n

\* The sortOrder a body gives, or leaves to the service.
Places == {Same, 0}
Placed(place) == IF place = Same THEN {} ELSE {{"placed"}}

\* create, up to the save: the place of the note is fixed here.
PlaceNote(r) ==
  \E s \in DOMAIN db.stores, place \in Places :
    AcceptInsert(r, "createNote",
                 [Idle EXCEPT !.pc = "insertNote", !.id = s,
                              !.row = [store |-> s, order |-> Over(place, NextPlace(s))]],
                 1, Placed(place))

InsertNote(r) ==
  LET q == req[r] IN
    /\ At(r, "insertNote")
    /\ Commit(r, IF q.id \in DOMAIN db.stores THEN Saved("notes", NewId(q), q.row) ELSE db)

\* update, up to the save of the whole copy.
LoadNote(r) ==
  \E n \in DOMAIN db.notes, place \in Places :
    LET patch == [order |-> place] IN
      AcceptNoting(r, "updateNote",
                   [Idle EXCEPT !.pc = "saveNote", !.id = n, !.asked = Asked(patch),
                                !.row = Assign(db.notes[n], patch)],
                   Placed(place))

\* A note that is gone is inserted again, unless its store is gone too.
SaveNote(r) ==
  LET q == req[r] IN
    /\ At(r, "saveNote")
    /\ Commit(r, IF q.row.store \in DOMAIN db.stores
                 THEN Saved("notes", q.id, q.row) ELSE db)

LoadForRemoveNote(r) ==
  \E n \in DOMAIN db.notes :
    Accept(r, "removeNote", [Idle EXCEPT !.pc = "countNotes", !.id = n,
                                         !.row = db.notes[n]])

\* Mutation: the last note may be removed.
AnyNoteLeft(s) == Cardinality(NotesOf(s)) > 0

\* Cannot delete the last quick note for this store.
OthersLeft(s) == Cardinality(NotesOf(s)) > 1

\* The count, and the refusal of the last note.
CountNotes(r) ==
  /\ At(r, "countNotes")
  /\ IF OthersLeft(req[r].row.store)
     THEN Proceed(r, [req[r] EXCEPT !.pc = "deleteNote"])
     ELSE Abort(r)

DeleteNote(r) ==
  /\ At(r, "deleteNote")
  /\ Commit(r, [db EXCEPT !.notes = Without(@, {req[r].id})])

\* replace with a list of two notes, up to the delete.
ReplaceNotes(r) ==
  \E s \in DOMAIN db.stores :
    AcceptInsert(r, "replaceNotes", [Idle EXCEPT !.pc = "clearNotes", !.id = s], 2, {})

\* All notes of the store go in one statement.
Cleared(s) == [db EXCEPT !.notes = Without(@, NotesOf(s))]

ClearNotes(r) ==
  /\ At(r, "clearNotes")
  /\ db' = Cleared(req[r].id)
  /\ Go(r, [req[r] EXCEPT !.pc = "insertNotes"])
  /\ UNCHANGED <<ids, scene, history>>

\* One save inserts the list, numbered from 0; it fails, after the old notes
\* are gone, when the store is.
InsertNotes(r) ==
  LET q == req[r]
      rows == [k \in q.new |-> [store |-> q.id, order |-> k - NewId(q)]]
  IN  /\ At(r, "insertNotes")
      /\ Commit(r, IF q.id \in DOMAIN db.stores
                   THEN [db EXCEPT !.notes = Put(rows, @)] ELSE db)

NotesRequest(r) ==
  \/ PlaceNote(r)
  \/ LoadNote(r)
  \/ LoadForRemoveNote(r)
  \/ ReplaceNotes(r)

NotesStep(r) ==
  \/ InsertNote(r)
  \/ SaveNote(r)
  \/ CountNotes(r)
  \/ DeleteNote(r)
  \/ ClearNotes(r)
  \/ InsertNotes(r)
=============================================================================
