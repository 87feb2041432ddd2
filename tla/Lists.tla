-------------------------------- MODULE Lists --------------------------------
(***************************************************************************)
(* What people are shown: the paging of every list (trpc/src/lib/keyset.ts *)
(* and the list of teams as each router uses it), the inbox of             *)
(* notifications (routers/platform/notifications.ts), the progress of a    *)
(* case (routers/platform/tasks.ts), the screens of the configuration      *)
(* (routers/platform/config.ts) and the values a form offers               *)
(* (routers/platform/lookup.ts).                                           *)
(*                                                                         *)
(* A row has a key, rendered so that text order is its order and never     *)
(* null, and an id that decides between equal keys.  NoCursor is the       *)
(* absent cursor, and one that does not decode: both give the first page.  *)
(* NoInstant is a date that is not set.  The edges of a task are records   *)
(* of a kind, "gate" or "task", what they wait on, and whether that came.  *)
(***************************************************************************)
LOCAL INSTANCE Integers
LOCAL INSTANCE Sequences
LOCAL INSTANCE SequencesExt
LOCAL INSTANCE FiniteSets
LOCAL INSTANCE FiniteSetsExt

NoInstant == 1000

NoCursor == [key |-> 0, id |-> 0]

Before(dir, r, s) ==
  LET less(x, y) == x.key < y.key \/ (x.key = y.key /\ x.id < y.id)
  IN IF dir = "asc" THEN less(r, s) ELSE less(s, r)

\* keysetBoundary: the same comparison as the order of the rows.
Beyond(dir, cursor, r) == cursor = NoCursor \/ Before(dir, cursor, r)

\* One row more than the page is read, to know whether there is a next one.
Page(rows, dir, limit, cursor) ==
  LET read  == SetToSortSeq({ r \in rows : Beyond(dir, cursor, r) }, LAMBDA r, s : Before(dir, r, s))
      items == SubSeq(read, 1, Min({limit, Len(read)}))
  IN [items |-> items, next |-> IF Len(read) > limit THEN Last(items) ELSE NoCursor]

\* documents.listForSubject and templates.list make the cursor of a date from what JavaScript
\* keeps of it, milliseconds, PerMilli instants of the database in each.
PerMilli == 2
DatePage(rows, dir, limit, cursor) ==
  [Page(rows, dir, limit, cursor) EXCEPT !.next = IF @ = NoCursor THEN @ ELSE [key |-> PerMilli * (@.key \div PerMilli), id |-> @.id]]

\* INBOX_VISIBLE_SQL, on the deliveries of one person.
InboxVisible(d, now) == d.channel = "in_app" /\ d.status = "sent" /\ d.expiresAt > now
MyInbox(deliveries, unreadOnly, now) ==
  { d \in deliveries : InboxVisible(d, now) /\ (unreadOnly => ~d.read) }
MyUnreadCount(deliveries, now) == Cardinality({ d \in deliveries : ~d.read /\ InboxVisible(d, now) })

Readable(d) == d.channel = "in_app" /\ d.status = "sent"
MarkRead(deliveries, id) == { IF d.id = id /\ Readable(d) THEN [d EXCEPT !.read = TRUE] ELSE d : d \in deliveries }
MarkAllRead(deliveries)  == { IF Readable(d) THEN [d EXCEPT !.read = TRUE] ELSE d : d \in deliveries }

\* adminTestUnreadReminder.isSatisfied, on the deliveries of one notification.
TestIsRead(deliveries) ==
  LET copies == { d \in deliveries : d.channel = "in_app" } IN copies # {} /\ \A d \in copies : d.read

Unfinished(t) == t.status \in {"open", "blocked"}
Overdue(t, now) == t.dueAt < now /\ Unfinished(t)
Holding(t) == { e \in t.edges : ~e.satisfied }
BlockedCount(t) == Cardinality(Holding(t))

MyTasks(tasks, roles, overdueOnly, now) ==
  { t \in tasks : t.role \in roles /\ Unfinished(t) /\ (overdueOnly => Overdue(t, now)) }
TaskVisible(t, roles, oversight) == t.role \in roles \/ oversight
CaseVisible(tasks, roles, oversight) == oversight \/ \E t \in tasks : t.role \in roles

\* caseProgress: its lanes, what holds up the most, and its gates.
LaneProgress(tasks, lane, now) ==
  LET inLane  == { t \in tasks : t.lane = lane }
      with(s) == Cardinality({ t \in inLane : t.status = s })
      dates   == { t.dueAt : t \in { u \in inLane : Unfinished(u) } }
  IN [total |-> Cardinality(inLane), done |-> with("done"), open |-> with("open"), blocked |-> with("blocked"),
      cancelled |-> with("cancelled"), overdue |-> Cardinality({ t \in inLane : Overdue(t, now) }),
      nextDueAt |-> Min(dates \cup {NoInstant})]

Bottlenecks(tasks) ==
  LET stuck == { t \in tasks : t.status = "blocked" }
      refs  == { [kind |-> e.kind, ref |-> e.ref] : e \in UNION { Holding(t) : t \in stuck } }
  IN [ r \in refs |-> Cardinality({ t \in stuck : \E e \in Holding(t) : e.kind = r.kind /\ e.ref = r.ref }) ]

Gates(tasks, opened) ==
  LET keys == opened \cup { e.ref : e \in { f \in UNION { t.edges : t \in tasks } : f.kind = "gate" } }
      held == Bottlenecks(tasks)
      asRef(k) == [kind |-> "gate", ref |-> k]
  IN [ k \in keys |-> [open |-> k \in opened, blocked |-> IF asRef(k) \in DOMAIN held THEN held[asRef(k)] ELSE 0] ]

\* lookup.options, in display order.
ShownValues(values, list, all) ==
  SetToSortSeq({ v \in values : v.list = list /\ ~v.deleted /\ (all \/ v.active) },
               LAMBDA v, w : v.order < w.order \/ (v.order = w.order /\ v.label < w.label))

\* lookup.create: at the end unless told where; lookup_list_type_code_unique spans the
\* deleted values.  Refused is the empty table, which none is afterwards.
NoOrder == 1000
Refused == {}
CreateValue(values, id, list, code, label, order) ==
  LET orders == { v.order : v \in { w \in values : w.list = list } }
  IN IF \E v \in values : v.list = list /\ v.code = code THEN Refused
     ELSE values \cup {[id |-> id, list |-> list, code |-> code, label |-> label, active |-> TRUE, deleted |-> FALSE,
                        order |-> IF order = NoOrder THEN Max(orders \cup {-1}) + 1 ELSE order]}

\* lookup.update reads the row without a lock, works out what changes, and writes label and
\* order whole; the journal gets the changes.  setActive and remove write their column.
LoadValue(values, id) == { v \in values : v.id = id /\ ~v.deleted }
PlanValue(before, edit) ==
  LET next == [f \in {"label", "order"} |-> IF f \in DOMAIN edit THEN edit[f] ELSE before[f]]
  IN [next    |-> next,
      changes |-> [f \in { g \in {"label", "order"} : next[g] # before[g] } |-> [from |-> before[f], to |-> next[f]]]]
WriteValue(values, id, plan) ==
  IF DOMAIN plan.changes = {} THEN values
  ELSE { IF v.id = id THEN [v EXCEPT !.label = plan.next.label, !.order = plan.next.order] ELSE v : v \in values }
SetActive(values, id, active)  == { IF v.id = id THEN [v EXCEPT !.active = active] ELSE v : v \in values }
RemoveValue(values, id)        == { IF v.id = id THEN [v EXCEPT !.deleted = TRUE] ELSE v : v \in values }

\* config.list and config.get.  history holds the entries of one key; the screen reads the
\* value (resolveConfig), then the entry it shows beside it, then what is staged.
NoVersion == 0
InForceAt(history, now) == { e \in history : e.from <= now /\ now < e.to }
ConfigRead(history, now) ==
  IF InForceAt(history, now) = {} THEN [value |-> "default", version |-> NoVersion]
  ELSE LET e == CHOOSE e \in InForceAt(history, now) : TRUE IN [value |-> e.value, version |-> e.version]
Staged(history, now) == { e.version : e \in { x \in history : x.to = NoInstant /\ x.from > now } }
GetConfig(first, second, now) ==
  [value   |-> ConfigRead(first, now).value, version |-> ConfigRead(second, now).version,
   pending |-> Staged(second, now)]

\* By name, or by the last change with the keys never changed at the end; NoInstant there.
ConfigBefore(sort, dir, a, b) ==
  LET name(x, y) == x.name < y.name
  IN IF sort = "name" THEN IF dir = "asc" THEN name(a, b) ELSE name(b, a)
     ELSE IF a.updated = b.updated THEN name(a, b)
     ELSE IF NoInstant \in {a.updated, b.updated} THEN b.updated = NoInstant
     ELSE IF dir = "asc" THEN a.updated < b.updated ELSE b.updated < a.updated
-----------------------------------------------------------------------------
(***************************************************************************)
(* Paging against what a reader expects: three rows whose keys may         *)
(* be equal, read page by page while rows come, go and change their key    *)
(* between the pages.                                                      *)
(***************************************************************************)
LOCAL Ids == 1 .. 3
LOCAL Rows == [key : 1 .. 2, id : Ids]
\* No two rows of one table have the same id.
LOCAL Tables == { t \in SUBSET Rows : \A r, s \in t : r.id = s.id => r = s }
LOCAL Options == {"asc", "desc"} \X (1 .. 2)

\* The pages a reader sees of a table that is as tables says at each page, and as its
\* last entry says from then on.
LOCAL Read(tables, option) ==
  LET at(n) == tables[IF n < Len(tables) THEN n ELSE Len(tables)]
      from[n \in 1 .. 8] ==
        [cursor \in Rows \cup {NoCursor} |->
           LET page == Page(at(n), option[1], option[2], cursor)
           IN page.items \o (IF page.next = NoCursor \/ n = 8 THEN <<>> ELSE from[n + 1][page.next])]
  IN from[1][NoCursor]

\* Nothing is lost or repeated at the edge of a page, not even between equal keys: a
\* table that stays as it is, is read as a whole and in order.
ASSUME PagesAreTheTable ==
  \A t \in Tables, o \in Options :
    Read(<<t>>, o) = SetToSortSeq(t, LAMBDA r, s : Before(o[1], r, s))

\* Rows that come and go between two pages, the one the cursor names among them, do
\* not disturb the others: a row that stays as it is, is read exactly once.
ASSUME StayingRowsAreReadOnce ==
  \A t1, t2, t3 \in Tables, o \in Options :
    LET seen == Read(<<t1, t2, t3>>, o)
    IN \A r \in t1 \cap t2 \cap t3 : Len(SelectSeq(seen, LAMBDA s : s = r)) = 1

\* A row whose key changes meanwhile, a list by updated_at for one, may be read twice,
\* or not at all although it is there from first to last.
ASSUME MovingRowsAreNot ==
  /\ \E t, u \in Tables, i \in Ids :
       Len(SelectSeq(Read(<<t, u>>, <<"asc", 1>>), LAMBDA s : s.id = i)) = 2
  /\ \E t, u \in Tables, i \in Ids :
       /\ (\E r \in t : r.id = i) /\ (\E r \in u : r.id = i)
       /\ \A n \in 1 .. Len(Read(<<t, u>>, <<"asc", 1>>)) : Read(<<t, u>>, <<"asc", 1>>)[n].id # i

\* "The boundary is exact" where the cursor is the key of the order.  One made of a date is
\* not, unless the date is of whole milliseconds: backwards, what lies in the millisecond of
\* the last row of a page is never shown, of letters generated together all but the first
\* page; forwards their first page is shown for ever.
LOCAL Dated == { t \in SUBSET [key : 1 .. 4, id : Ids] : \A r, s \in t : r.id = s.id => r = s }
LOCAL DateRead(t, dir, limit) ==
  LET from[n \in 1 .. 4] ==
        [cursor \in [key : 0 .. 4, id : 0 .. 3] |->
           LET page == DatePage(t, dir, limit, cursor)
           IN page.items \o (IF page.next = NoCursor \/ n = 4 THEN <<>> ELSE from[n + 1][page.next])]
  IN from[1][NoCursor]
ASSUME DateCursorsAreNotExact ==
  \A t \in Dated, limit \in 1 .. 2 :
    LET whole(dir) == SetToSortSeq(t, LAMBDA r, s : Before(dir, r, s))
        apart == \A r, s \in t : r.key \div PerMilli = s.key \div PerMilli => r = s
        together == \A r, s \in t : r.key = s.key /\ r.key % PerMilli # 0
        next(dir) == DatePage(t, dir, limit, DatePage(t, dir, limit, NoCursor).next)
    IN /\ (\A r \in t : r.key % PerMilli = 0) => \A dir \in {"asc", "desc"} : DateRead(t, dir, limit) = whole(dir)
       /\ apart => DateRead(t, "desc", limit) = whole("desc")
       /\ IsInjective(DateRead(t, "desc", limit))
       /\ together => /\ DateRead(t, "desc", limit) = SubSeq(whole("desc"), 1, Min({limit, Cardinality(t)}))
                      /\ next("asc") = DatePage(t, "asc", limit, NoCursor)

\* One read of a key is of a piece; with a write between the two reads of its screen the
\* value of one version stands beside the number of another.  A change that is staged is
\* never both in force and pending.
LOCAL Entry(n) == { e \in [version : {n}, value : {"a", "b"}, from : 0 .. 2, to : {1, 2, NoInstant}] : e.from < e.to }
LOCAL Histories == {{}} \cup { {e} : e \in Entry(1) } \cup UNION { { {e, f} : f \in { x \in Entry(2) : e.to <= x.from } } : e \in Entry(1) }
ASSUME ScreensAreTwoReads ==
  /\ \A h \in Histories, now \in 0 .. 2 :
       LET shown == GetConfig(h, h, now)
       IN /\ shown.version = NoVersion => shown.value = "default"
          /\ shown.version # NoVersion => \E e \in h : e.version = shown.version /\ e.value = shown.value
          /\ shown.version \notin shown.pending /\ Cardinality(shown.pending) <= 1 /\ Cardinality(InForceAt(h, now)) <= 1
  /\ \E e \in Entry(1), f \in Entry(2) :
       /\ e.to = NoInstant /\ f.from = 1 /\ e.value # f.value
       /\ GetConfig({e}, {[e EXCEPT !.to = f.from], f}, 1) = [value |-> e.value, version |-> f.version, pending |-> {}]

\* The list has one order whatever the order of the registry, and the keys that were never
\* changed are its end in either direction.
ASSUME UnchangedKeysComeLast ==
  \A sort \in {"name", "updated"}, dir \in {"asc", "desc"} :
    LET before(a, b) == ConfigBefore(sort, dir, a, b)
        keys == [name : 1 .. 3, updated : {1, 2, NoInstant}]
    IN \A a, b, c \in keys :
         /\ a.name # b.name => (before(a, b) <=> ~before(b, a))
         /\ before(a, b) /\ before(b, c) => before(a, c) \/ a.name = c.name
         /\ sort = "updated" /\ before(a, b) => (a.updated = NoInstant => b.updated = NoInstant)

(***************************************************************************)
(* The inbox: up to three deliveries to one person at instant 1, in app or *)
(* by mail, of which some are read and some expired.                       *)
(***************************************************************************)
LOCAL Delivery(n) ==
  [id : {n}, key : {1, n}, channel : {"in_app", "email"}, status : {"sent", "failed"}, read : BOOLEAN, expiresAt : {1, NoInstant}]
LOCAL Inboxes == { {a, b, c} : a \in Delivery(1), b \in Delivery(2), c \in { d \in Delivery(3) : d.key = 3 /\ d.channel = "in_app" } }
LOCAL Pages(rows, limit) ==
  LET from[n \in 1 .. 4] ==
        [cursor \in rows \cup {NoCursor} |->
           LET page == Page(rows, "desc", limit, cursor)
           IN page.items \o (IF page.next = NoCursor \/ n = 4 THEN <<>> ELSE from[n + 1][page.next])]
  IN from[1][NoCursor]

\* "A badge counting rows the list does not show is the classic inbox bug": the badge is
\* the length of the unread pages, whatever their size; opening one of them takes one off,
\* opening it again nothing, and clearing leaves none, just as opening them all does.
ASSUME BadgeCountsThePages ==
  \A ds \in Inboxes, limit \in 1 .. 2 :
    LET unread == MyInbox(ds, TRUE, 1)
    IN /\ MyUnreadCount(ds, 1) = Len(Pages(unread, limit))
       /\ unread \subseteq MyInbox(ds, FALSE, 1)
       /\ \A d \in unread : /\ MyUnreadCount(MarkRead(ds, d.id), 1) = MyUnreadCount(ds, 1) - 1
                            /\ MarkRead(MarkRead(ds, d.id), d.id) = MarkRead(ds, d.id)
       /\ MyUnreadCount(MarkAllRead(ds), 1) = 0
       /\ MarkAllRead(ds) = MarkRead(MarkRead(MarkRead(ds, 1), 2), 3)

\* The test message of an administrator stops nagging once its copies are read, those the
\* inbox has ceased to show too, which clearing reads as well; but a copy that was not sent
\* can never be: one such, and no reader can end the chase.
ASSUME UnsentCopiesAreNeverRead ==
  \A ds \in Inboxes :
    /\ TestIsRead(MarkAllRead(ds)) <=> \A d \in ds : d.channel = "in_app" => Readable(d) \/ d.read
    /\ \A d \in ds : d.channel = "in_app" /\ d.status = "failed" /\ ~d.read => ~TestIsRead(MarkAllRead(ds))

(***************************************************************************)
(* A case: two tasks at instant 2, in any lanes, of any status, waiting on *)
(* a gate, on another task, or on nothing any more.                        *)
(***************************************************************************)
LOCAL Edges == { es \in SUBSET [kind : {"gate", "task"}, ref : {"g", "x"}, satisfied : BOOLEAN] :
                   /\ \A e, f \in es : e.kind = f.kind => e = f
                   /\ \A e \in es : e.ref = IF e.kind = "gate" THEN "g" ELSE "x" }
LOCAL Task(n) == [id : {n}, lane : {"hr", "it"}, role : {"hr", "it"}, status : {"open", "blocked", "done", "cancelled"},
                  dueAt : {1, NoInstant}, edges : Edges]
LOCAL Cases == { {t, u} : t \in { v \in Task(1) : v.role = v.lane }, u \in { v \in Task(2) : v.role = "it" } }
LOCAL Sum(f) == LET add[S \in SUBSET DOMAIN f] == IF S = {} THEN 0 ELSE LET x == CHOOSE x \in S : TRUE IN f[x] + add[S \ {x}]
                IN add[DOMAIN f]

\* "The dashboard reads the same rows the list does, so the two cannot drift": the lanes
\* add up to what the lists of all who work on the case show, overdue or not, and whoever
\* is shown a task is shown its case.
ASSUME DashboardIsTheList ==
  \A case \in Cases :
    LET lanes == { t.lane : t \in case }
        at(field) == Sum([l \in lanes |-> LaneProgress(case, l, 2)[field]])
    IN /\ at("open") + at("blocked") = Cardinality(MyTasks(case, {"hr", "it"}, FALSE, 2))
       /\ at("overdue") = Cardinality(MyTasks(case, {"hr", "it"}, TRUE, 2))
       /\ at("total") = at("done") + at("open") + at("blocked") + at("cancelled")
       /\ \A l \in lanes : LaneProgress(case, l, 2).overdue > 0 <=> LaneProgress(case, l, 2).nextDueAt < 2
       /\ \A roles \in SUBSET {"hr", "it"}, o \in BOOLEAN :
            /\ MyTasks(case, roles, FALSE, 2) # {} => CaseVisible(case, roles, o)
            /\ CaseVisible(case, roles, o) <=> \E t \in case : TaskVisible(t, roles, o)

\* What is shown as holding up a case is what its blocked tasks wait on, each as often as
\* they say.  Two things a reader may see there and not explain are the marks of the losses
\* of TaskEngine: a blocked task that nothing holds up, and an open gate that holds up some.
ASSUME BottlenecksAreWhatHolds ==
  \A case \in Cases, opened \in SUBSET {"g", "h"} :
    LET held  == Bottlenecks(case)
        stuck == { t \in case : t.status = "blocked" }
        gates == Gates(case, opened)
    IN /\ Sum(held) = Sum([t \in stuck |-> BlockedCount(t)])
       /\ (stuck # {} /\ DOMAIN held = {}) <=> (stuck # {} /\ \A t \in stuck : \A e \in t.edges : e.satisfied)
       /\ opened \subseteq DOMAIN gates
       /\ (\E k \in DOMAIN gates : gates[k].open /\ gates[k].blocked > 0)
            <=> \E t \in stuck, k \in opened : [kind |-> "gate", ref |-> k, satisfied |-> FALSE] \in t.edges

(***************************************************************************)
(* Reference data: a list with up to two values, and edits of the first.   *)
(***************************************************************************)
LOCAL Value(i) == [id : {i}, list : {"size"}, code : {i}, label : 1 .. 2, order : 0 .. 1, active : BOOLEAN, deleted : BOOLEAN]
LOCAL Values == { {v} : v \in Value(1) } \cup { {v, w} : v \in Value(1), w \in Value(2) }
LOCAL ValueEdits == UNION { [fs -> 0 .. 2] : fs \in (SUBSET {"label", "order"}) \ {{}} }

\* "A deleted code must not come back meaning something else": whatever became of a value,
\* its code is taken for good, in its list.  A new one is shown, last of all, though the
\* end it is put at counts the values that are retired, which may come back.
ASSUME CodesMeanOneThing ==
  \A vs \in Values, retired \in BOOLEAN :
    LET gone  == IF retired THEN SetActive(vs, 1, FALSE) ELSE RemoveValue(vs, 1)
        added == CreateValue(gone, 3, "size", 3, 1, NoOrder)
    IN /\ CreateValue(gone, 3, "size", 1, 1, NoOrder) = Refused
       /\ CreateValue(gone, 3, "colour", 1, 1, NoOrder) # Refused
       /\ Last(ShownValues(added, "size", FALSE)).id = 3
       /\ Len(ShownValues(added, "size", TRUE)) = 1 + Len(ShownValues(gone, "size", TRUE))
       /\ \A i \in DOMAIN ShownValues(gone, "size", FALSE) : ShownValues(gone, "size", FALSE)[i].id # 1
       /\ retired => Last(ShownValues(SetActive(added, 1, TRUE), "size", TRUE)).id = 3
       /\ retired => (LoadValue(gone, 1) = {} <=> LoadValue(vs, 1) = {})

\* "The journal cannot claim a change the row did not make", one edit after another: the row
\* is what its changes add up to.  Of two that both read before either writes the second
\* takes back what the first alone changed, and the journal claims both.
LOCAL Replay(v, changes) == [v EXCEPT !.label = IF "label" \in DOMAIN changes THEN changes.label.to ELSE @,
                                      !.order = IF "order" \in DOMAIN changes THEN changes.order.to ELSE @]
ASSUME OverlappingEditsUndo ==
  \A v \in { w \in Value(1) : ~w.deleted }, e, f \in ValueEdits :
    LET first  == PlanValue(v, e)
        then   == WriteValue({v}, 1, first)
        row    == CHOOSE w \in then : TRUE
        second == PlanValue(row, f)
        stale  == PlanValue(v, f)
        told   == Replay(Replay(v, first.changes), stale.changes)
        lost   == { g \in DOMAIN first.changes : g \notin DOMAIN stale.changes }
    IN /\ WriteValue(then, 1, second) = {Replay(Replay(v, first.changes), second.changes)}
       /\ WriteValue(then, 1, second) = then <=> \A g \in DOMAIN f : row[g] = f[g]
       /\ WriteValue(then, 1, stale) = {told} <=> lost = {} \/ DOMAIN stale.changes = {}
=============================================================================
