------------------------------- MODULE Queries -------------------------------
(***************************************************************************)
(* A program that builds, runs and reuses the queries of the ORM: Select   *)
(* with its clauses and relations, and Insert, Update, Delete of model     *)
(* objects.  Select is an object with state: a clause set for one          *)
(* query is still there for the next.  The model objects it returns carry  *)
(* lazy relations, which are queries of their own, run when the program    *)
(* asks for them.                                                          *)
(*                                                                         *)
(* There are two model types, persons and cars, whose primary keys are     *)
(* both called id.  A car has the foreign key of its owner, the links say  *)
(* who drives which car.  One column of data is enough: the name of a      *)
(* person, the owner of a car.  A condition is reduced to the values that  *)
(* it lets through of one column, and `&' to having both.                  *)
(*                                                                         *)
(* Two orders of calls give what the program did not ask for, and Habits   *)
(* names those it falls into: `limit_first' to call first() on a Select    *)
(* with another limit, which first() is to leave alone ("if it was not     *)
(* already set") and overwrites; `take_back' to call offset(0) on a Select *)
(* with an offset, which then stays.                                       *)
(***************************************************************************)
EXTENDS Integers, FiniteSetsExt, SequencesExt

CONSTANTS
    Ids,           \* primary keys
    Names,         \* values of the column name
    Databases,     \* what the program may find: [persons, cars, links]
    Habits,        \* see above
    MaxSteps       \* bound on the steps of the program, selecting not counted

Null == -1
NoValue == 0       \* a field that no column has been read into

(* A table is a partial function from keys to data.                        *)
IsTable(f, data) == DOMAIN f \subseteq Ids /\ f \in [DOMAIN f -> data]

IsDatabase(d) ==
    /\ d = [persons |-> d.persons, cars |-> d.cars, links |-> d.links]
    /\ IsTable(d.persons, Names \cup {Null})
    /\ IsTable(d.cars, Ids \cup {Null})
    /\ d.links \subseteq [persons : Ids, cars : Ids]

ASSUME QueriesAssumption ==
    /\ Ids \in SUBSET (Nat \ {0}) /\ IsFiniteSet(Ids)
    /\ Names \in SUBSET Nat
    /\ Habits \subseteq {"limit_first", "take_back"}
    /\ MaxSteps \in Nat
    /\ \A d \in Databases : IsDatabase(d)

VARIABLES
    db,            \* the tables: partial functions from id to data, and links
    select,        \* the Select object the program builds
    asked,         \* what the calls on it asked for, for the properties
    held,          \* the model objects in the program's hands
    answer,        \* what the last query gave
    steps

vars == <<db, select, asked, held, answer, steps>>

Tables == {"persons", "cars"}
Other(t) == CHOOSE u \in Tables : u # t
Relations(t) == {"many_to_many", IF t = "persons" THEN "one_to_many" ELSE "many_to_one"}

NewSelect(t) ==
    [table |-> t, distinct |-> FALSE, joins |-> {}, where |-> {}, order |-> <<>>,
     limit |-> -1, offset |-> -1, group |-> FALSE, having |-> {}, relations |-> {}]

Condition(t, col, vals) == [table |-> t, column |-> col, values |-> vals]

(* LEFT JOIN of a table on its foreign key fk. *)
Join(t, fk) == [table |-> t, fk |-> fk]

Nothing == [status |-> "nothing"]
Thrown == [status |-> "thrown"]       \* by the ORM
RefusedBy == [status |-> "refused"]   \* by the engine
Rows(t, q) == [status |-> "rows", table |-> t, ids |-> q]

(* What a new Select is asked for; no order, and no limit, is -1.          *)
NothingAsked ==
    [conditions |-> {}, order |-> "any", limit |-> -1, offset |-> 0,
     distinct |-> FALSE, group |-> FALSE, join |-> FALSE, relation |-> {}]

Init ==
    /\ db \in Databases
    /\ select \in {NewSelect(t) : t \in Tables}
    /\ asked = NothingAsked
    /\ held = {}
    /\ answer = Nothing
    /\ steps = 0
-----------------------------------------------------------------------------
(* The engine.  A row of a join is a row of the table and what it is       *)
(* joined with; a LEFT JOIN keeps a row that matches nothing.              *)
LeftOn(d, j, i) ==
    IF j.table = "links"
      THEN {l \in d.links : l[j.fk] = i}
      ELSE {c \in DOMAIN d.cars : d.cars[c] = i}

Joined(d, s) ==
    UNION {LET m == UNION {LeftOn(d, j, i) : j \in s.joins}
           IN  IF m = {} THEN {[id |-> i, with |-> Null]} ELSE [id : {i}, with : m]
           : i \in DOMAIN d[s.table]}

Value(d, s, r, c) ==
    IF c.table # s.table THEN r.with
    ELSE IF c.column = "id" THEN r.id ELSE d[s.table][r.id]

Selected(d, s) ==
    {r \in Joined(d, s) : \A c \in s.where \cup s.having : Value(d, s, r, c) \in c.values}

(* ORDER BY data; rows that compare equal, or all of them, come as the     *)
(* engine likes.                                                           *)
InOrder(d, s, q) ==
    s.order = <<>> \/
      \A i, j \in DOMAIN q : i < j =>
        LET a == d[s.table][q[i]]
            b == d[s.table][q[j]]
        IN  IF Head(s.order) = "asc" THEN a <= b ELSE a >= b

Arranged(d, s) ==
    LET rows == Selected(d, s)
        all == IF s.distinct \/ s.group
                 THEN SetToSeqs({r.id : r \in rows})
                 ELSE {[i \in DOMAIN q |-> q[i].id] : q \in SetToSeqs(rows)}
    IN  {q \in all : InOrder(d, s, q)}

(* The pages a SELECT may return.                                          *)
Pages(d, s) ==
    LET from == Max({s.offset, 0})
        Page(q) == IF s.limit < 0 THEN q ELSE SubSeq(q, from + 1, Min({Len(q), from + s.limit}))
    IN  {Page(q) : q \in Arranged(d, s)}

(* The builder writes ORDER BY, LIMIT and OFFSET before GROUP BY and       *)
(* HAVING; in SQL they come after it, and both engines refuse.             *)
Refused(s) == s.group /\ (s.order # <<>> \/ s.limit > -1)

Throws(s) ==
    \/ s.offset > 0 /\ s.limit < 0
    \/ s.having # {} /\ ~s.group
-----------------------------------------------------------------------------
(* The clauses of a Select.  The relations a Select is told to set up are  *)
(* attached to every model it reads.                                       *)

(* Slip: a second condition replaces the first. *)
WithWhereLast(s, c) == [s EXCEPT !.where = {c}]

WithWhere(s, c) == [s EXCEPT !.where = @ \cup {c}]
WithHaving(s, c) == [s EXCEPT !.having = @ \cup {c}]
WithOrder(s, o) == [s EXCEPT !.order = Append(@, o)]
WithLimit(s, n) == [s EXCEPT !.limit = n]
WithOffset(s, n) == IF n > 0 THEN [s EXCEPT !.offset = n] ELSE s
WithRelation(s, rel) == [s EXCEPT !.relations = @ \cup {rel}]

(* The queries behind the lazy relations of the model with key id, read    *)
(* from t.                                                                 *)
OneToMany(id) ==
    WithWhere(WithRelation(NewSelect("cars"), "many_to_one"), Condition("cars", "data", {id}))

(* Slip: the condition is put on the table of the owner. *)
ManyToOneByOwner(id) ==
    LET s == [NewSelect("persons") EXCEPT !.joins = {Join("cars", "persons")}]
    IN  WithLimit(WithWhere(s, Condition("persons", "id", {id})), 1)

ManyToOne(id) ==
    LET s == [NewSelect("persons") EXCEPT !.joins = {Join("cars", "persons")}]
        t == WithRelation(s, "one_to_many")
    IN  WithLimit(WithWhere(t, Condition("cars", "id", {id})), 1)

(* The join compares the key of the other table with the foreign key that  *)
(* refers to this one, and nothing asks for the model itself.              *)
ManyToMany(t, id) ==
    WithRelation([NewSelect(Other(t)) EXCEPT !.distinct = TRUE, !.joins = {Join("links", t)}],
                 "many_to_many")

Relation(rel, t, id) ==
    CASE rel = "one_to_many" -> OneToMany(id)
      [] rel = "many_to_one" -> ManyToOne(id)
      [] rel = "many_to_many" -> ManyToMany(t, id)

(* Slip: a NULL is read into the field as if it were a number. *)
ModelWithNull(d, s, i) ==
    [table |-> s.table, id |-> i, data |-> d[s.table][i],
     null |-> FALSE, relations |-> s.relations]

(* A NULL leaves the field of the model as it was constructed.             *)
Model(d, s, i) ==
    [table |-> s.table, id |-> i, data |-> Max({d[s.table][i], NoValue}),
     null |-> FALSE, relations |-> s.relations]

(* A default-constructed model; a member without initializer holds         *)
(* whatever the memory did.                                                *)
NullModels(t) ==
    [table : {t}, id : Ids \cup {NoValue}, data : {NoValue}, null : {TRUE}, relations : {{}}]
-----------------------------------------------------------------------------
(* The calls on the Select object.  A program that goes on building lets   *)
(* go of the models it holds: a bound, no more.                            *)
Step ==
    /\ steps < MaxSteps
    /\ steps' = steps + 1

Build(s, op, arg) ==
    /\ Step
    /\ select' = s
    /\ asked' = [asked EXCEPT ![op] = arg]
    /\ answer' = Nothing
    /\ held' = {}
    /\ UNCHANGED db

New ==
    /\ \E t \in Tables : select' = NewSelect(t)
    /\ asked' = NothingAsked
    /\ answer' = Nothing
    /\ held' = {}
    /\ UNCHANGED <<db, steps>>

(* Comparisons with one value; NULL passes none but is_null. *)
DataConditions(t) ==
    LET values == IF t = "persons" THEN Names ELSE Ids
    IN  {Condition(t, "data", {v}) : v \in values \cup {Null}} \cup {Condition(t, "data", values)}

Conditions(t) == DataConditions(t) \cup {Condition(t, "id", {i}) : i \in Ids}

Where ==
    \E c \in Conditions(select.table) :
      Build(WithWhere(select, c), "conditions", asked.conditions \cup {c})

Having ==
    \E c \in DataConditions(select.table) :
      Build(WithHaving(select, c), "conditions", asked.conditions \cup {c})

OrderBy ==
    \E o \in {"asc", "desc"} :
      Build(WithOrder(select, o), "order", IF asked.order = "any" THEN o ELSE asked.order)

Limit == \E n \in 0..Cardinality(Ids) : Build(WithLimit(select, n), "limit", n)

Offset ==
    \E n \in 0..Cardinality(Ids) :
      /\ n > 0 \/ asked.offset = 0 \/ "take_back" \in Habits
      /\ Build(WithOffset(select, n), "offset", n)

GroupByKey == Build([select EXCEPT !.group = TRUE], "group", TRUE)

DistinctRows == Build([select EXCEPT !.distinct = TRUE], "distinct", TRUE)

JoinCars ==
    /\ select.table = "persons"
    /\ select.joins = {}
    /\ Build([select EXCEPT !.joins = {Join("cars", "persons")}], "join", TRUE)

Relate ==
    \E rel \in Relations(select.table) :
      Build(WithRelation(select, rel), "relation", asked.relation \cup {rel})

(* What running the Select s may give.                                     *)
Outcomes(d, s) ==
    IF Throws(s) THEN {Thrown}
    ELSE IF Refused(s) THEN {RefusedBy}
    ELSE {Rows(s.table, q) : q \in Pages(d, s)}

Read(s, a) ==
    IF a.status = "rows" THEN {Model(db, s, i) : i \in ToSet(a.ids)} ELSE {}

All ==
    /\ answer' \in Outcomes(db, select)
    /\ held' = Read(select, answer')
    /\ UNCHANGED <<db, select, asked, steps>>

(* It is asked for one row if no limit was set; the call sets the limit    *)
(* whether or not one was.                                                 *)
First ==
    /\ Step
    /\ asked.limit \in {-1, 1} \/ "limit_first" \in Habits
    /\ select' = WithLimit(select, 1)
    /\ asked' = [asked EXCEPT !.limit = IF @ = -1 THEN 1 ELSE @]
    /\ answer' \in Outcomes(db, select')
    /\ IF answer'.status = "rows" /\ answer'.ids = <<>>
         THEN \E m \in NullModels(select.table) : held' = {m}
         ELSE held' = Read(select, answer')
    /\ UNCHANGED db

(* The program asks a model it has for one of its relations.               *)
AskRelated ==
    /\ \E m \in held : \E rel \in m.relations :
         \E a \in Outcomes(db, Relation(rel, m.table, m.id)) :
           answer' = [status |-> "related", rel |-> rel, model |-> m, ids |-> a.ids]
    /\ UNCHANGED <<db, select, asked, held, steps>>
-----------------------------------------------------------------------------
(* Statements that write.  Each takes a set of models, or throws because   *)
(* one of them is a null-model; ids of one table are distinct in `held'.   *)
Write(d) ==
    /\ Step
    /\ db' = d
    /\ answer' = Nothing
    /\ UNCHANGED <<select, asked, held>>

Throw ==
    /\ answer' = Thrown
    /\ UNCHANGED <<db, select, asked, held, steps>>

Refuse ==
    /\ answer' = RefusedBy
    /\ UNCHANGED <<db, select, asked, held, steps>>

HasNull(ms) == \E m \in ms : m.null
IdsOf(ms) == {m.id : m \in ms}
(* The table f and the new rows g. *)
Extended(f, g) == [i \in DOMAIN f \cup DOMAIN g |-> IF i \in DOMAIN f THEN f[i] ELSE g[i]]
Without(f, S) == [i \in DOMAIN f \ S |-> f[i]]
(* The SET clause: UPDATE of the rows that have the keys of models.        *)
Assigned(f, data) == [i \in DOMAIN f |-> IF i \in DOMAIN data THEN data[i] ELSE f[i]]
DataOf(ms) == [i \in IdsOf(ms) |-> (CHOOSE m \in ms : m.id = i).data]

(* The program changes a model it has, or makes one of its own, of the     *)
(* type of a Select it has not begun to build: a bound, no more.           *)
Fill ==
    /\ Step
    /\ \E m \in held :
         /\ ~m.null
         /\ \E v \in IF m.table = "persons" THEN Names ELSE Ids :
              held' = (held \ {m}) \cup {[m EXCEPT !.data = v]}
    /\ UNCHANGED <<db, select, asked, answer>>

Make ==
    /\ Step
    /\ select = NewSelect(select.table)
    /\ \E i \in Ids : \E v \in IF select.table = "persons" THEN Names ELSE Ids :
         held' = {[table |-> select.table, id |-> i, data |-> v, null |-> FALSE, relations |-> {}]}
    /\ UNCHANGED <<db, select, asked, answer>>

(* One INSERT with a row for each model, without the key, which the engine *)
(* chooses (meta_omit_pk).                                                 *)
Insert(one) ==
    \E t \in Tables : \E ms \in SUBSET {m \in held : m.table = t} :
      IF HasNull(ms) \/ ms = {} \/ (one /\ Cardinality(ms) > 1) THEN Throw
      ELSE \E key \in Injection(ms, Ids \ DOMAIN db[t]) :
             Write([db EXCEPT ![t] = Extended(@, [i \in {key[m] : m \in ms} |->
                                                    (CHOOSE m \in ms : key[m] = i).data])])

(* Slip: a null-model is updated like any other. *)
UpdateNulls(one) ==
    \E t \in Tables : \E ms \in SUBSET {m \in held : m.table = t} :
      IF one /\ Cardinality(ms) > 1 THEN Throw
      ELSE Write([db EXCEPT ![t] = Assigned(@, DataOf(ms))])

(* One UPDATE for each model, of all its columns, by its key.              *)
Update(one) ==
    \E t \in Tables : \E ms \in SUBSET {m \in held : m.table = t} :
      IF HasNull(ms) \/ (one /\ Cardinality(ms) > 1) THEN Throw
      ELSE Write([db EXCEPT ![t] = Assigned(@, DataOf(ms))])

(* The condition, if there is one, stands in place of the keys.  No keys   *)
(* is IN (), which SQLite takes for an empty list.                         *)
Delete ==
    \E t \in Tables : \E ms \in SUBSET {m \in held : m.table = t} :
      \E cs \in {{}} \cup {{c} : c \in Conditions(t)} :
        IF HasNull(ms) THEN Throw
        ELSE LET s == [NewSelect(t) EXCEPT !.where = cs]
                 gone == IF cs = {} THEN IdsOf(ms) ELSE {r.id : r \in Selected(db, s)}
             IN  Write([db EXCEPT ![t] = Without(@, gone)])

(* Slip: the sub-select is made without the page. *)
DeleteSelectedAll ==
    /\ ~Throws(select)
    /\ ~Refused(select)
    /\ Write([db EXCEPT ![select.table] = Without(@, {r.id : r \in Selected(db, select)})])

(* DELETE of the rows whose key is IN the Select.                          *)
DeleteSelected ==
    \/ Throws(select) /\ Throw
    \/ ~Throws(select) /\ Refused(select) /\ Refuse
    \/ \E a \in Outcomes(db, select) :
         /\ a.status = "rows"
         /\ Write([db EXCEPT ![a.table] = Without(@, ToSet(a.ids))])

Next ==
    \/ New \/ Where \/ Having \/ OrderBy \/ Limit \/ Offset
    \/ GroupByKey \/ DistinctRows \/ JoinCars \/ Relate
    \/ All \/ First \/ AskRelated
    \/ Fill \/ Make
    \/ \E one \in BOOLEAN : Insert(one) \/ Update(one)
    \/ Delete \/ DeleteSelected

Spec == Init /\ [][Next]_vars
-----------------------------------------------------------------------------
(* Every row and every model is of its type: keys are keys, a row holds a  *)
(* name or an owner or NULL, a field of a model is never NULL              *)
(* (conditions.h, model.h: what comes out of a column goes into a field).  *)
TypeOK ==
    /\ \A t \in Tables :
         /\ DOMAIN db[t] \subseteq Ids
         /\ \A i \in DOMAIN db[t] : db[t][i] \in Names \cup Ids \cup {Null, NoValue}
    /\ \A l \in db.links : l.persons \in Ids /\ l.cars \in Ids
    /\ \A m \in held : /\ m.id \in Ids \cup {NoValue}
                      /\ m.data \in Names \cup Ids \cup {NoValue}
                      /\ m.relations \subseteq Relations(m.table)
    /\ select.table \in Tables /\ select.limit >= -1 /\ select.offset >= -1
    /\ steps <= MaxSteps

(* The rows of the database d that the calls a ask for, with as many       *)
(* numbers as the row comes times.                                         *)
Wanted(d, a, t) ==
    {i \in DOMAIN d[t] : \A c \in a.conditions :
        (IF c.column = "id" THEN i ELSE d[t][i]) \in c.values}

Times(d, a, i) ==
    IF ~a.join \/ a.distinct \/ a.group THEN 1
    ELSE Max({1, Cardinality({c \in DOMAIN d.cars : d.cars[c] = i})})

Copies(d, a, t) == UNION {{<<i, n>> : n \in 1..Times(d, a, i)} : i \in Wanted(d, a, t)}

(* q is a page the calls ask for: as many of the wanted rows as offset and *)
(* limit leave, in order, and those left out before it are no more than    *)
(* the offset.                                                             *)
AskedPage(d, a, t, q) ==
    LET rest == Max({0, Cardinality(Copies(d, a, t)) - a.offset})
        Before(i, j) == \/ a.order = "asc" /\ d[t][i] < d[t][j]
                        \/ a.order = "desc" /\ d[t][i] > d[t][j]
        Got(i) == Cardinality({k \in DOMAIN q : q[k] = i})
    IN  /\ ToSet(q) \subseteq Wanted(d, a, t)
        /\ Len(q) = IF a.limit < 0 THEN rest ELSE Min({rest, a.limit})
        /\ \A i \in Wanted(d, a, t) : Got(i) <= Times(d, a, i)
        /\ \A k, l \in DOMAIN q : k < l => ~Before(q[l], q[k])
        /\ \A k \in DOMAIN q :
             Cardinality({c \in Copies(d, a, t) : Before(c[1], q[k]) /\ c[2] > Got(c[1])})
               <= a.offset

(* A query answers the calls made on the Select, all of them, in whatever  *)
(* order they came and however often it has been run before: the rows that *)
(* pass every where, in order, the page of them (select.h: the clauses     *)
(* accumulate in the object).                                              *)
AnswerIsAsked ==
    answer.status = "rows" => AskedPage(db, asked, answer.table, answer.ids)

(* What is related to the model m in the database d.                       *)
IsRelated(d, rel, m, q) ==
    /\ rel = "one_to_many" =>
         /\ ToSet(q) = {c \in DOMAIN d.cars : d.cars[c] = m.id}
         /\ IsInjective(q)
    /\ rel = "many_to_one" =>
         q = IF m.id \in DOMAIN d.cars /\ d.cars[m.id] \in DOMAIN d.persons
               THEN <<d.cars[m.id]>> ELSE <<>>

(* A lazy relation, whenever it is asked for, gives the rows that are      *)
(* related then, by the key the model was read with: a person the cars     *)
(* that name it as owner, a car its owner or nobody                        *)
(* (select.h: one_to_many, many_to_one).                                   *)
RelatedAsOfNow ==
    answer.status = "related" => IsRelated(db, answer.rel, answer.model, answer.ids)

(* many_to_many "retrieves lists of models connected with many to many     *)
(* relationship" (select.h:319): those linked to the model, and no others. *)
ManyToManyIsRelated ==
    answer.status = "related" /\ answer.rel = "many_to_many" =>
      LET t == answer.model.table
      IN  ToSet(answer.ids) = {i \in DOMAIN db[Other(t)] :
                                \E l \in db.links : l[t] = answer.model.id /\ l[Other(t)] = i}

(* What is written was in a real model: the model that first() makes up    *)
(* when there is no row has any key, and must not reach a row by it,       *)
(* however it travels through the program (insert.h, update.h: is_null).   *)
NullModelsStayOut ==
    [][\A t \in Tables : \A i \in DOMAIN db'[t] :
         i \notin DOMAIN db[t] \/ db'[t][i] # db[t][i] =>
           \E m \in held : /\ ~m.null /\ m.table = t /\ m.data = db'[t][i]
                           /\ i \in DOMAIN db[t] => m.id = i]_vars

(* delete_() deletes the rows that all() would return, page and order      *)
(* included, although it makes its statement another way (select.h).       *)
DeletesWhatItSelects ==
    [][DeleteSelected /\ db' # db =>
         LET t == select.table
             gone == DOMAIN db[t] \ DOMAIN db'[t]
         IN  \E q \in SeqOf(gone, Cardinality(Copies(db, asked, t))) :
               ToSet(q) = gone /\ AskedPage(db, asked, t, q)]_vars
==============================================================================
