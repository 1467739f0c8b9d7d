------------------------------ MODULE Patching -------------------------------
(***************************************************************************)
(* PATCH (a merge object or an RFC 6902 JSON Patch), PUT and DELETE of one *)
(* entity by concurrent requests.                                          *)
(*                                                                         *)
(* A request looks for the row, a JSON Patch also reads the columns its    *)
(* pointers name and applies its operations to them, and one UPDATE writes *)
(* the columns of the request.  None of the SELECTs locks the row.  A      *)
(* PATCH of the phenomenonTime of an Observation deletes the row and       *)
(* inserts it again.                                                       *)
(*                                                                         *)
(* A JSON value is a scalar, an array or an object; a document is an       *)
(* object whose members are columns.                                       *)
(***************************************************************************)
EXTENDS Integers, Sequences, SequencesExt, FiniteSets, Functions

CONSTANTS
    Patch,      \* requests
    Body,       \* what a request asks for
    Column,
    Mandatory,  \* the columns PUT requires
    Moving,     \* the columns whose change moves the row to another partition
    Original,   \* the document of the entity at first
    MaxMove,    \* bound: times the row is re-created
    NoPatch, NoEntity, Invalid

ASSUME ColumnAssumption == Mandatory \subseteq Column /\ Moving \subseteq Column
ASSUME OriginalAssumption == DOMAIN Original = Column
ASSUME NobodyAssumption == MaxMove \in Nat /\ NoPatch \notin Patch /\ NoEntity \notin Nat

VARIABLES
    entity,    \* the committed row: its columns and how often it was re-created
    holder,    \* the open request that wrote the row, or NoPatch
    draft,     \* the row as that request sees it
    patch,     \* patch[r]: what request r is doing
    expected,  \* history: the document if each request were one step
    inTurn     \* history: no two requests were ever open at once

patchVars == <<entity, holder, draft, patch, expected, inTurn>>

-----------------------------------------------------------------------------
(* JSON values and pointers (RFC 6901): sequences of tokens.               *)

Scalar(v) == [is |-> "scalar", value |-> v]
Array(s) == [is |-> "array", items |-> s]
Object(f) == [is |-> "object", member |-> f]
JsonNull == Scalar("null")

IndexOf == ("0" :> 0) @@ ("1" :> 1) @@ ("2" :> 2) @@ ("3" :> 3)

\* list_index.
HasIndex(items, t) == t \in DOMAIN IndexOf /\ IndexOf[t] < Len(items)

Child(c, t) ==
    CASE c.is = "object" -> IF t \in DOMAIN c.member THEN c.member[t] ELSE Invalid
      [] c.is = "array" -> IF HasIndex(c.items, t) THEN c.items[IndexOf[t] + 1] ELSE Invalid
      [] OTHER -> Invalid

Get(doc, path) ==
    FoldLeft(LAMBDA c, t : IF c = Invalid THEN Invalid ELSE Child(c, t), doc, path)

\* What the operations do to the container that holds the last token.
AddTo(c, t, v) ==
    CASE c.is = "object" -> Object((t :> v) @@ c.member)
      [] c.is = "array" /\ t = "-" -> Array(Append(c.items, v))
      [] c.is = "array" /\ t \in DOMAIN IndexOf /\ IndexOf[t] <= Len(c.items) ->
            Array(InsertAt(c.items, IndexOf[t] + 1, v))
      [] OTHER -> Invalid

RemoveFrom(c, t) ==
    IF Child(c, t) = Invalid THEN Invalid
    ELSE IF c.is = "array" THEN Array(RemoveAt(c.items, IndexOf[t] + 1))
    ELSE Object(Restrict(c.member, DOMAIN c.member \ {t}))

ReplaceIn(c, t, v) ==
    IF Child(c, t) = Invalid THEN Invalid
    ELSE IF c.is = "array" THEN Array([c.items EXCEPT ![IndexOf[t] + 1] = v])
    ELSE Object((t :> v) @@ c.member)

Edited(c, t, e) ==
    CASE e.op = "add" -> AddTo(c, t, e.value)
      [] e.op = "remove" -> RemoveFrom(c, t)
      [] e.op = "replace" -> ReplaceIn(c, t, e.value)

\* The document with the edit e made to the container that path leads to, and put back
\* into each container on the way: level i is the one that the first i - 1 tokens lead to.
Edit(doc, path, e) ==
    LET at(i) == Get(doc, SubSeq(path, 1, i - 1))
        new[i \in 1 .. Len(path)] ==
            CASE at(i) = Invalid -> Invalid
              [] at(i) # Invalid /\ i = Len(path) -> Edited(at(i), path[i], e)
              [] OTHER -> IF new[i + 1] = Invalid THEN Invalid
                          ELSE Edited(at(i), path[i], [op |-> "replace", value |-> new[i + 1]])
    IN new[1]

AddAt(doc, path, v) == Edit(doc, path, [op |-> "add", value |-> v])
RemoveAtPath(doc, path) == Edit(doc, path, [op |-> "remove"])

MoveUnremoved(doc, e) == AddAt(doc, e.path, Get(doc, e.from))

\* A value is not moved into its own child.
MoveValue(doc, e) ==
    IF Get(doc, e.from) = Invalid \/ (e.from # e.path /\ IsPrefix(e.from, e.path)) THEN Invalid
    ELSE AddAt(RemoveAtPath(doc, e.from), e.path, Get(doc, e.from))

\* apply_operation.
Apply(doc, e) ==
    CASE doc = Invalid -> Invalid
      [] doc # Invalid /\ e.op \in {"add", "remove", "replace"} -> Edit(doc, e.path, e)
      [] doc # Invalid /\ e.op = "move" -> MoveValue(doc, e)
      [] doc # Invalid /\ e.op = "copy" ->
            IF Get(doc, e.from) = Invalid THEN Invalid
            ELSE AddAt(doc, e.path, Get(doc, e.from))
      [] doc # Invalid /\ e.op = "test" -> IF Get(doc, e.path) = e.value THEN doc ELSE Invalid

\* apply_patch: the operations one after the other, or an error.
ApplyAll(doc, ops) == FoldLeft(Apply, doc, ops)

ReferencedAll(ops) == Column

\* referenced_columns: those a path or a from begins with.
Referenced(ops) ==
    {ops[i].path[1] : i \in DOMAIN ops}
      \union {ops[i].from[1] : i \in {j \in DOMAIN ops : ops[j].op \in {"move", "copy"}}}

\* The columns read, as a document.
Loaded(row, columns) == Object(IF row = NoEntity THEN <<>> ELSE Restrict(row.doc, columns))

\* What requests name are columns.
ASSUME BodyAssumption ==
    \A b \in Body :
        /\ b.kind \in {"merge", "put", "json", "delete"}
        /\ b.kind = "merge" => DOMAIN b.set \subseteq Column
        /\ b.kind = "json" => Referenced(b.ops) \subseteq Column

\* What is written of a patched document: NULL in a column that was removed.
Merge(doc, columns) ==
    [c \in columns |-> IF c \in DOMAIN doc.member THEN doc.member[c] ELSE JsonNull]

\* build_put_payload.
Full(set) == [c \in Column |-> IF c \in DOMAIN set THEN set[c] ELSE JsonNull]

-----------------------------------------------------------------------------
(* The document as the standards have it: a PATCH leaves what it does not  *)
(* name alone, PUT replaces everything, a replace is a remove followed by  *)
(* an add, a move a remove followed by an add of what was removed.         *)

Standard(doc, e) ==
    CASE doc = Invalid \/ (e.op \in {"replace", "remove"} /\ Get(doc, e.path) = Invalid)
           \/ (e.op \in {"move", "copy"} /\ Get(doc, e.from) = Invalid) -> Invalid
      [] OTHER ->
         CASE e.op = "add" -> AddAt(doc, e.path, e.value)
           [] e.op = "remove" -> RemoveAtPath(doc, e.path)
           [] e.op = "replace" -> AddAt(RemoveAtPath(doc, e.path), e.path, e.value)
           [] e.op = "copy" -> AddAt(doc, e.path, Get(doc, e.from))
           [] e.op = "move" ->
                LET rest == RemoveAtPath(doc, e.from) IN AddAt(rest, e.path, Get(doc, e.from))
           [] e.op = "test" -> IF Get(doc, e.path) = e.value THEN doc ELSE Invalid

InOneStep(doc, b) ==
    CASE b.kind = "delete" -> NoEntity
      [] b.kind = "merge" -> [c \in Column |-> IF c \in DOMAIN b.set THEN b.set[c] ELSE doc[c]]
      [] b.kind = "put" -> Full(b.set)
      [] b.kind = "json" ->
           LET new == FoldLeft(Standard, Object(doc), b.ops) IN
           IF new = Invalid THEN doc ELSE Merge(new, Column)

-----------------------------------------------------------------------------
(* Requests.                                                               *)

\* body: [kind |-> "merge", set |-> columns to values], [kind |-> "json", ops |-> ...],
\* [kind |-> "put", set |-> ...] or [kind |-> "delete"].
\* at: the version the statement of the request found, or NoEntity.
Rest(how) == [pc |-> how, body |-> NoPatch, set |-> <<>>, at |-> NoEntity, wrote |-> FALSE]

Answered == {"ok", "refused", "missing", "cancelled"}
Pending == {r \in Patch : patch[r].pc \notin Answered \union {"idle"}}

PatchInit ==
    /\ entity = [doc |-> Original, at |-> 0]
    /\ holder = NoPatch /\ draft = entity
    /\ patch = [r \in Patch |-> Rest("idle")]
    /\ expected = entity.doc
    /\ inTurn = TRUE

RowUnchanged == UNCHANGED <<entity, holder, draft, expected>>

\* A request arrives and looks for the row, unless it is a DELETE.  A JSON Patch reads
\* it later.
Ask(r) ==
    /\ patch[r].pc = "idle"
    /\ \E b \in Body :
         patch' = [patch EXCEPT ![r] =
           [Rest(IF b.kind = "delete" THEN "find"
                 ELSE IF entity = NoEntity THEN "missing"
                 ELSE IF b.kind = "json" THEN "load"
                 ELSE IF b.kind = "put" /\ ~(Mandatory \subseteq DOMAIN b.set) THEN "refused"
                 ELSE "find")
            EXCEPT !.body = b,
                   !.set = CASE b.kind = "merge" -> b.set
                             [] b.kind = "put" -> Full(b.set)
                             [] OTHER -> <<>>]]
    /\ inTurn' = (inTurn /\ Pending = {})
    /\ RowUnchanged

\* apply_json_patch_to_entity: only what the pointers name is read.
Load(r) ==
    LET ops == patch[r].body.ops
        doc == ApplyAll(Loaded(entity, Referenced(ops)), ops) IN
    /\ patch[r].pc = "load"
    /\ patch' = [patch EXCEPT ![r].pc = IF doc = Invalid THEN "refused" ELSE "find",
                              ![r].set = IF doc = Invalid THEN <<>>
                                         ELSE Merge(doc, Referenced(ops))]
    /\ expected' = IF inTurn /\ doc = Invalid THEN InOneStep(expected, patch[r].body)
                                             ELSE expected
    /\ UNCHANGED <<entity, holder, draft, inTurn>>

\* The UPDATE or DELETE starts: it finds the committed row.
Find(r) ==
    /\ patch[r].pc = "find"
    /\ patch' = [patch EXCEPT ![r].pc = "write",
                              ![r].at = IF entity = NoEntity THEN NoEntity ELSE entity.at]
    /\ RowUnchanged /\ UNCHANGED inTurn

Moves(r) == Moving \intersect DOMAIN patch[r].set # {}

\* The SET clause: the columns it names, and the others as they are.
Updated(doc, set) == [c \in DOMAIN doc |-> IF c \in DOMAIN set THEN set[c] ELSE doc[c]]

\* update_entity, relocate_observation: the columns of the request, on the row as it
\* is once no other request has it.
Overwrite(r, row) ==
    [doc |-> Updated(row.doc, patch[r].set), at |-> IF Moves(r) THEN row.at + 1 ELSE row.at]

\* It waits for the row.  One that was deleted or re-created meanwhile is passed over.
Put(r) ==
    LET p == patch[r]
        found == p.at # NoEntity /\ entity # NoEntity /\ entity.at = p.at IN
    /\ p.pc = "write"
    /\ holder = NoPatch
    /\ found /\ Moves(r) => entity.at < MaxMove
    /\ IF found
       THEN /\ holder' = r
            /\ draft' = IF p.body.kind = "delete" THEN NoEntity ELSE Overwrite(r, entity)
       ELSE UNCHANGED <<holder, draft>>
    /\ patch' = [patch EXCEPT ![r].pc = "end", ![r].wrote = found]
    /\ UNCHANGED <<entity, expected, inTurn>>

-----------------------------------------------------------------------------
(* The end of a transaction.                                               *)

\* A PATCH and a PUT are answered 200 whether the statement wrote a row or not.
Settle(r) ==
    LET b == patch[r].body IN
    /\ patch[r].pc = "end"
    /\ entity' = IF holder = r THEN draft ELSE entity
    /\ holder' = IF holder = r THEN NoPatch ELSE holder
    /\ patch' = [patch EXCEPT
                  ![r].pc = IF b.kind = "delete" /\ ~patch[r].wrote THEN "missing" ELSE "ok",
                  ![r].at = NoEntity]
    /\ expected' = IF inTurn /\ expected # NoEntity THEN InOneStep(expected, b) ELSE expected
    /\ UNCHANGED <<draft, inTurn>>

Lose(r) ==
    /\ r \in Pending
    /\ holder' = IF holder = r THEN NoPatch ELSE holder
    /\ draft' = IF holder = r THEN entity ELSE draft
    /\ patch' = [patch EXCEPT ![r] = Rest("cancelled")]
    /\ UNCHANGED <<entity, expected, inTurn>>

PatchNext == \E r \in Patch : Ask(r) \/ Load(r) \/ Find(r) \/ Put(r) \/ Settle(r) \/ Lose(r)

PatchSpec == PatchInit /\ [][PatchNext]_patchVars

-----------------------------------------------------------------------------
(* Properties.                                                             *)

PatchTypeOK ==
    /\ entity # NoEntity => DOMAIN entity.doc = Column /\ entity.at \in 0 .. MaxMove
    /\ holder \in Patch \union {NoPatch}
    /\ holder = NoPatch => draft = entity
    /\ \A r \in Patch :
          /\ patch[r].pc \in Answered \union {"idle", "load", "find", "write", "end"}
          /\ DOMAIN patch[r].set \subseteq Column

\* Requests that come one after the other leave the document the standards prescribe:
\* whatever operations a JSON Patch combines, on members, array elements and whole
\* columns, it is applied as a whole or refused as a whole.
SerialPatches ==
    inTurn => /\ entity = NoEntity <=> expected = NoEntity
              /\ entity # NoEntity => entity.doc = expected

\* The columns a request speaks of.
ColumnsOf(b) ==
    CASE b.kind = "merge" -> DOMAIN b.set
      [] b.kind = "put" -> Column
      [] b.kind = "delete" -> {}
      [] b.kind = "json" ->
           {c \in Column : \E i \in DOMAIN b.ops :
                \/ c = b.ops[i].path[1]
                \/ b.ops[i].op \in {"move", "copy"} /\ c = b.ops[i].from[1]}

\* A request that is answered 200 took effect, however long it waited for another one,
\* unless the row was deleted or moved to another partition; and it undid nothing that
\* another one committed in columns it does not name, although it looked for the row,
\* and a JSON Patch read it, before.
AnswersHold ==
    [][\A r \in Patch :
          patch[r].pc = "end" /\ patch'[r].pc = "ok" =>
             \/ entity' = NoEntity
             \/ ~patch[r].wrote /\ entity.at > 0
             \/ /\ patch[r].wrote
                /\ \A c \in DOMAIN patch[r].set : entity'.doc[c] = patch[r].set[c]
                /\ \A c \in Column \ ColumnsOf(patch[r].body) :
                       entity'.doc[c] = entity.doc[c]]_patchVars
=============================================================================
