----------------------- MODULE EffectiveDatingProofs -----------------------
(***************************************************************************)
(* Proofs about the two effective-dated tables, for every set of actors    *)
(* and every bound: the versions of a configuration key (ConfigHistory)    *)
(* and the memberships of the teams (TeamRoster).                          *)
(*                                                                         *)
(* ConfigHistory: the inductive invariant adds to Tiled that history       *)
(* starts at version 1, that a transaction past its lock holds the open    *)
(* row alone, or found none and none was there when it looked (Locks), and *)
(* that no transaction in progress began at or before an instant that was  *)
(* settled when it was read (Unreached).                                   *)
(*                                                                         *)
(* TeamRoster: it adds what a call in progress carries (Carried), that the *)
(* membership it goes on from exists (Referred), and that every membership *)
(* is of a team (OfATeam).                                                 *)
(***************************************************************************)
EXTENDS ConfigHistory, TeamRoster, TLAPS
-----------------------------------------------------------------------------
(***************************************************************************)
(* ConfigHistory.                                                          *)
(***************************************************************************)
\* Versions count from 1.
FromOne == entries # {} => \E e \in entries : e.version = 1

\* Past the lock: the row found is still open, and no other transaction has it.
Locks ==
  \A w \in Writer : (phase[w] = "ready" /\ cur[w] # None) =>
    /\ \E e \in OpenRows : e.version = cur[w]
    /\ \A u \in Writer : (phase[u] = "ready" /\ cur[u] = cur[w]) => u = w

\* A waiting transaction waits for a row.
Waits == \A w \in Writer : phase[w] = "waiting" => cur[w] # None

History == Tiled /\ FromOne /\ Locks /\ Waits

\* Whoever is still writing began after every settled read.
Unreached ==
  /\ \A d \in reads : d.settled => d.at < clock
  /\ \A d \in reads, w \in Writer : (d.settled /\ Busy(w)) => d.at < start[w]
-----------------------------------------------------------------------------
LEMMA ForeverLater == Forever \notin Time /\ \A t \in Time : t < Forever /\ t \in Nat /\ Forever \in Nat
BY BoundsAssumption DEF Forever, Time

\* The rows after a write: who is in them.
LEMMA SupersededRows ==
  ASSUME TypeOK, NEW w \in Writer, NEW t \in Time, cur[w] + 1 \in 1 .. MaxWrites
  PROVE  Superseded(w, t) \subseteq EntryRow
BY ForeverLater DEF TypeOK, Superseded, EntryRow, Row, OpenRows

LEMMA ClosedRows ==
  ASSUME TypeOK, NEW w \in Writer, NEW t \in Time
  PROVE  Closed(w, t) \subseteq EntryRow
BY ForeverLater DEF TypeOK, Closed, EntryRow, Row, OpenRows

LEMMA TypeInit == Init => TypeOK
BY BoundsAssumption DEF Init, TypeOK, Time, None, Phase

LEMMA TypeNext == TypeOK /\ [Next]_vars => TypeOK'
<1> SUFFICES ASSUME TypeOK, [Next]_vars PROVE TypeOK'
  OBVIOUS
<1> USE BoundsAssumption
<1>1. CASE Tick
  BY <1>1 DEF Tick, TypeOK, Time
<1>2. ASSUME NEW w \in Writer, Begin(w) PROVE TypeOK'
  BY <1>2 DEF Begin, TypeOK, Time, Phase
<1>3. ASSUME NEW w \in Writer, Look(w) \/ LookNone(w) \/ Lock(w) PROVE TypeOK'
  <2>1. Found(w) \subseteq 0 .. writes
    BY DEF Found, OpenRows, TypeOK, EntryRow
  <2>2. cur' \in [Writer -> 0 .. writes] /\ phase' \in [Writer -> Phase]
    BY <1>3, <2>1 DEF Look, LookNone, Lock, TypeOK, Phase, None
  <2> QED BY <1>3, <2>2 DEF Look, LookNone, Lock, TypeOK
<1>4. ASSUME NEW w \in Writer, Done(w), writes' \in writes .. MaxWrites, entries' \subseteq EntryRow,
             \A e \in entries' : e.version <= writes'
      PROVE  TypeOK'
  BY <1>4 DEF Done, TypeOK, Phase, None, Time
<1>5. ASSUME NEW w \in Writer, NEW t \in Time, Set(w, t) PROVE TypeOK'
  <2>1. cur[w] + 1 \in 1 .. MaxWrites /\ cur[w] <= writes /\ writes' = writes + 1
        /\ writes' \in writes .. MaxWrites
    BY <1>5 DEF Set, TypeOK
  <2>2. entries' \subseteq EntryRow
    BY <1>5, <2>1, SupersededRows DEF Set
  <2>3. \A e \in entries' : e.version <= writes'
    BY <1>5, <2>1 DEF Set, Superseded, OpenRows, Row, TypeOK, EntryRow
  <2> QED BY <1>4, <1>5, <2>1, <2>2, <2>3 DEF Set
<1>6. ASSUME NEW w \in Writer, Reset(w) PROVE TypeOK'
  <2>1. start[w] \in Time /\ writes' \in writes .. MaxWrites /\ writes' = writes + 1 /\ writes \in Nat
    BY <1>6 DEF Reset, TypeOK, Time
  <2>2. entries' \subseteq EntryRow
    BY <1>6, <2>1, ClosedRows DEF Reset
  <2>3. \A e \in entries' : e.version <= writes'
    BY <1>6, <2>1 DEF Reset, Closed, OpenRows, Row, TypeOK, EntryRow
  <2> QED BY <1>4, <1>6, <2>1, <2>2, <2>3 DEF Reset
<1>7. ASSUME NEW w \in Writer, Fail(w) PROVE TypeOK'
  BY <1>4, <1>7 DEF Fail, TypeOK
<1>8. ASSUME NEW at \in Time, Read(at) PROVE TypeOK'
  <2>1. [at |-> at, saw |-> { e.version : e \in InForce(at) }, settled |-> Settled(at)] \in ReadRow
    BY DEF ReadRow, InForce, TypeOK, EntryRow, Settled
  <2> QED BY <1>8, <2>1 DEF Read, TypeOK
<1>9. CASE UNCHANGED vars
  BY <1>9 DEF vars, TypeOK
<1> QED BY <1>1, <1>2, <1>3, <1>5, <1>6, <1>7, <1>8, <1>9 DEF Next, WriterStep

\* Every reachable state of the rows, the transactions and the reads is well typed.
THEOREM TypeCorrect == Spec => []TypeOK
BY TypeInit, TypeNext, PTL DEF Spec
-----------------------------------------------------------------------------
(***************************************************************************)
(* Windows tile.                                                           *)
(***************************************************************************)
\* An open row is the last: every other ends before it starts.
LEMMA OpenIsLast ==
  ASSUME TypeOK, Tiled, NEW o \in OpenRows, NEW f \in entries
  PROVE  f = o \/ (f.version < o.version /\ f.to <= o.from)
<1>1. /\ o \in entries /\ o.to = Forever /\ o.version \in Nat /\ f.version \in Nat
      /\ f.from \in Nat /\ f.to <= Forever /\ f.to \in Nat /\ Forever \in Nat
  BY ForeverLater DEF OpenRows, TypeOK, EntryRow, Time
<1>2. CASE f.version = o.version
  BY <1>1, <1>2 DEF Tiled
<1>3. CASE f.version < o.version
  BY <1>1, <1>3 DEF Tiled
<1>4. CASE f.version > o.version
  <2>1. o.to <= f.from /\ f.from < f.to
    BY <1>1, <1>4 DEF Tiled
  <2> QED BY <1>1, <2>1
<1> QED BY <1>1, <1>2, <1>3, <1>4

\* What a write does to the rows: the first of all, or the successor of the open one.
LEMMA SetRows ==
  ASSUME TypeOK, History, NEW w \in Writer, NEW t \in Time, Set(w, t)
  PROVE  \/ cur[w] = None /\ entries = {} /\ entries' = {Row(1, t, Forever)}
         \/ \E o \in OpenRows :
              /\ o.version = cur[w] /\ t > o.from
              /\ entries' = (entries \ {o}) \cup
                              {Row(o.version, o.from, t), Row(o.version + 1, t, Forever)}
<1>1. CASE cur[w] = None
  <2>1. ~\E e \in entries : e.version = 1
    BY <1>1 DEF Set, Admitted, None
  <2>2. entries = {}
    BY <2>1 DEF History, FromOne
  <2> QED BY <1>1, <2>2 DEF Set, Superseded, OpenRows, None
<1>2. CASE cur[w] # None
  <2>1. PICK o \in OpenRows : o.version = cur[w]
    BY <1>2 DEF Set, History, Locks
  <2>2. { f \in OpenRows : f.version = cur[w] } = {o}
    BY <2>1 DEF History, Tiled, OpenRows
  <2>3. { e \in entries : e.version # cur[w] } = entries \ {o}
    BY <2>1 DEF History, Tiled, OpenRows
  <2>4. t > o.from
    BY <2>1 DEF Set, Effective
  <2>5. entries' = (entries \ {o}) \cup {Row(e.version, e.from, t) : e \in {o}}
                     \cup {Row(cur[w] + 1, t, Forever)}
    BY <2>2, <2>3 DEF Set, Superseded
  <2>6. {Row(e.version, e.from, t) : e \in {o}} = {Row(o.version, o.from, t)}
    OBVIOUS
  <2> QED BY <2>1, <2>4, <2>5, <2>6
<1> QED BY <1>1, <1>2

LEMMA ResetRows ==
  ASSUME TypeOK, History, NEW w \in Writer, Reset(w)
  PROVE  \E o \in OpenRows :
           /\ o.version = cur[w] /\ o.from < start[w]
           /\ entries' = (entries \ {o}) \cup {Row(o.version, o.from, start[w])}
<1>1. PICK o \in OpenRows : o.version = cur[w]
  BY DEF Reset, History, Locks
<1>2. { f \in OpenRows : f.version = cur[w] } = {o}
  BY <1>1 DEF History, Tiled, OpenRows
<1>3. { e \in entries : e.version # cur[w] } = entries \ {o}
  BY <1>1 DEF History, Tiled, OpenRows
<1>4. o.from < start[w]
  BY <1>1 DEF Reset
<1>5. entries' = (entries \ {o}) \cup {Row(e.version, e.from, start[w]) : e \in {o}}
  BY <1>2, <1>3 DEF Reset, Closed
<1>6. {Row(e.version, e.from, start[w]) : e \in {o}} = {Row(o.version, o.from, start[w])}
  OBVIOUS
<1> QED BY <1>1, <1>4, <1>5, <1>6

\* Closing the open row, with or without a successor, keeps the windows tiled.
LEMMA TiledClosed ==
  ASSUME TypeOK, Tiled, FromOne, NEW o \in OpenRows, NEW t \in Time, t > o.from,
         \/ entries' = (entries \ {o}) \cup {Row(o.version, o.from, t)}
         \/ entries' = (entries \ {o}) \cup
                         {Row(o.version, o.from, t), Row(o.version + 1, t, Forever)}
  PROVE  Tiled' /\ FromOne'
<1> DEFINE c == Row(o.version, o.from, t)
           n == Row(o.version + 1, t, Forever)
<1>1. /\ c.version = o.version /\ c.from = o.from /\ c.to = t
      /\ n.version = o.version + 1 /\ n.from = t /\ n.to = Forever
  BY DEF Row
<1>2. /\ o \in entries /\ o.to = Forever /\ o.version \in Nat /\ o.from \in Nat
      /\ t \in Nat /\ t < Forever /\ Forever \in Nat
  BY ForeverLater DEF OpenRows, TypeOK, EntryRow, Time
<1>3. \A f \in entries \ {o} :
        /\ f.version < o.version /\ f.to <= o.from
        /\ f.version \in Nat /\ f.from \in Nat /\ f.to \in Nat /\ f.from < f.to
  BY OpenIsLast, ForeverLater DEF TypeOK, EntryRow, Tiled, Time
<1>4. \A e \in entries' : e \in entries \ {o} \/ e = c \/ e = n
  OBVIOUS
<1>5. c \in entries' /\ entries \ {o} \subseteq entries'
  OBVIOUS
<1> HIDE DEF c, n
<1>6. \A e, f \in entries' : e.version = f.version => e = f
  BY <1>1, <1>2, <1>3, <1>4 DEF Tiled
<1>7. \A e \in entries' : e.from < e.to
  BY <1>1, <1>2, <1>3, <1>4
<1>8. ASSUME NEW e \in entries', e.version > 1
      PROVE  \E f \in entries' : f.version = e.version - 1 /\ f.to = e.from
  <2>1. CASE e \in entries \ {o}
    <3>1. PICK f \in entries : f.version = e.version - 1 /\ f.to = e.from
      BY <1>8, <2>1 DEF Tiled
    <3>2. f # o
      BY <1>2, <1>3, <2>1, <3>1
    <3> QED BY <1>5, <3>1, <3>2
  <2>2. CASE e = c
    <3>1. PICK f \in entries : f.version = o.version - 1 /\ f.to = o.from
      BY <1>1, <1>2, <1>8, <2>2 DEF Tiled
    <3>2. f # o
      BY <1>2, <3>1
    <3> QED BY <1>1, <1>5, <2>2, <3>1, <3>2
  <2>3. CASE e = n
    BY <1>1, <1>2, <1>5, <2>3
  <2> QED BY <1>4, <2>1, <2>2, <2>3
<1>9. \A e, f \in entries' : e.version < f.version => e.to <= f.from
  BY <1>1, <1>2, <1>3, <1>4 DEF Tiled
<1>10. \E e \in entries' : e.version = 1
  <2>1. PICK e \in entries : e.version = 1
    BY <1>2 DEF FromOne
  <2> QED BY <1>1, <1>5, <2>1
<1> QED BY <1>6, <1>7, <1>8, <1>9, <1>10 DEF Tiled, FromOne

\* A committed write leaves no other transaction with a row.
LEMMA LocksDone ==
  ASSUME TypeOK, History, NEW w \in Writer, phase[w] = "ready", Done(w),
         \A o \in OpenRows : o.version = cur[w]
  PROVE  Locks' /\ Waits'
<1>1. /\ phase'[w] = "idle" /\ cur'[w] = None
      /\ \A u \in Writer \ {w} : phase'[u] = phase[u] /\ cur'[u] = cur[u]
  BY DEF Done, TypeOK
<1>2. \A u \in Writer \ {w} : ~(phase[u] = "ready" /\ cur[u] # None)
  BY DEF History, Locks
<1> QED BY <1>1, <1>2 DEF Locks, Waits, History

LEMMA HistoryInit == Init => History
BY DEF Init, History, Tiled, FromOne, Locks, Waits

LEMMA HistoryNext == TypeOK /\ History /\ [Next]_vars => History'
<1> SUFFICES ASSUME TypeOK, History, [Next]_vars PROVE History'
  OBVIOUS
<1>1. CASE UNCHANGED <<entries, phase, cur>>
  BY <1>1 DEF History, Tiled, FromOne, Locks, Waits, OpenRows
<1>2. ASSUME NEW w \in Writer, UNCHANGED entries,
             \A u \in Writer \ {w} : phase'[u] = phase[u] /\ cur'[u] = cur[u],
             phase'[w] = "ready" /\ cur'[w] # None =>
               cur'[w] \in Found(w) /\ ~Held(cur'[w]),
             phase'[w] = "waiting" => cur'[w] # None
      PROVE  History'
  <2>1. Tiled' /\ FromOne'
    BY <1>2 DEF History, Tiled, FromOne
  <2>2. Locks' /\ Waits'
    BY <1>2 DEF History, Locks, Waits, OpenRows, Found, Held
  <2> QED BY <2>1, <2>2 DEF History
<1>3. ASSUME NEW w \in Writer, Begin(w) PROVE History'
  BY <1>2, <1>3 DEF Begin, TypeOK
<1>4. ASSUME NEW w \in Writer, Look(w) PROVE History'
  <2>1. None \notin Found(w)
    BY DEF Found, OpenRows, TypeOK, EntryRow, None
  <2> QED BY <1>2, <1>4, <2>1 DEF Look, TypeOK
<1>5. ASSUME NEW w \in Writer, LookNone(w) PROVE History'
  BY <1>2, <1>5 DEF LookNone, TypeOK
<1>6. ASSUME NEW w \in Writer, Lock(w) PROVE History'
  BY <1>2, <1>6 DEF Lock, TypeOK
<1>7. ASSUME NEW w \in Writer, Fail(w) PROVE History'
  BY <1>2, <1>7 DEF Fail, Done, TypeOK
<1>8. ASSUME NEW w \in Writer, NEW t \in Time, Set(w, t) PROVE History'
  <2>1. phase[w] = "ready" /\ Done(w)
    BY <1>8 DEF Set
  <2>2. CASE cur[w] = None /\ entries = {} /\ entries' = {Row(1, t, Forever)}
    <3>1. Tiled' /\ FromOne'
      BY <2>2, ForeverLater DEF Tiled, FromOne, Row
    <3>2. Locks' /\ Waits'
      BY <2>1, <2>2, LocksDone DEF OpenRows
    <3> QED BY <3>1, <3>2 DEF History
  <2>3. ASSUME NEW o \in OpenRows, o.version = cur[w], t > o.from,
               entries' = (entries \ {o}) \cup
                            {Row(o.version, o.from, t), Row(o.version + 1, t, Forever)}
        PROVE  History'
    <3>1. Tiled' /\ FromOne'
      BY <2>3, TiledClosed DEF History
    <3>2. \A p \in OpenRows : p = o
      BY OpenIsLast, ForeverLater DEF History, OpenRows, TypeOK, EntryRow, Time
    <3>3. Locks' /\ Waits'
      BY <2>1, <2>3, <3>2, LocksDone
    <3> QED BY <3>1, <3>3 DEF History
  <2> QED BY <1>8, <2>2, <2>3, SetRows
<1>9. ASSUME NEW w \in Writer, Reset(w) PROVE History'
  <2>1. phase[w] = "ready" /\ Done(w) /\ start[w] \in Time
    BY <1>9, BoundsAssumption DEF Reset, TypeOK, Time
  <2>2. PICK o \in OpenRows :
           /\ o.version = cur[w] /\ o.from < start[w]
           /\ entries' = (entries \ {o}) \cup {Row(o.version, o.from, start[w])}
    BY <1>9, ResetRows
  <2>3. start[w] > o.from
    BY <2>1, <2>2 DEF OpenRows, TypeOK, EntryRow, Time
  <2>4. Tiled' /\ FromOne'
    BY <2>1, <2>2, <2>3, TiledClosed DEF History
  <2>5. \A p \in OpenRows : p = o
    BY OpenIsLast, ForeverLater DEF History, OpenRows, TypeOK, EntryRow, Time
  <2>6. Locks' /\ Waits'
    BY <2>1, <2>2, <2>5, LocksDone
  <2> QED BY <2>4, <2>6 DEF History
<1>10. CASE Tick \/ \E at \in Time : Read(at)
  BY <1>1, <1>10 DEF Tick, Read
<1>11. CASE UNCHANGED vars
  BY <1>1, <1>11 DEF vars
<1> QED BY <1>3, <1>4, <1>5, <1>6, <1>7, <1>8, <1>9, <1>10, <1>11 DEF Next, WriterStep

\* However writers race, the versions are 1, 2, ... and their windows tile.
THEOREM AlwaysTiled == Spec => []Tiled
<1>1. Init => TypeOK /\ History
  BY TypeInit, HistoryInit
<1>2. TypeOK /\ History /\ [Next]_vars => History'
  BY HistoryNext
<1>3. History => Tiled
  BY DEF History
<1> QED BY <1>1, <1>2, <1>3, TypeCorrect, PTL DEF Spec
-----------------------------------------------------------------------------
(***************************************************************************)
(* Reads of the past, and the timeline.                                    *)
(***************************************************************************)
\* A write from t on: what was in force before is untouched, from t on it is the
\* new version v, or the default.
Tail(t, v) ==
  /\ \A u \in Time : u < t =>
       { e.version : e \in InForce(u) }' = { e.version : e \in InForce(u) }
  /\ \A u \in Time : u >= t =>
       { e.version : e \in InForce(u) }' = (IF v = None THEN {} ELSE {v})
  /\ IF v = None THEN { e.version : e \in entries }' = { e.version : e \in entries }
     ELSE /\ v \notin { e.version : e \in entries }
          /\ { e.version : e \in entries }' = { e.version : e \in entries } \cup {v}

LEMMA WriteTail ==
  ASSUME TypeOK, History, NEW w \in Writer,
         Reset(w) \/ \E t \in Time : Set(w, t)
  PROVE  \E t \in Time, v \in 0 .. MaxWrites : t >= start[w] /\ Tail(t, v)
<1>1. ASSUME NEW t \in Time, NEW o \in OpenRows, NEW rest, NEW v \in Nat, t > o.from,
             IF v = None THEN rest = {} ELSE rest = {Row(v, t, Forever)} /\ v = o.version + 1,
             entries' = (entries \ {o}) \cup {Row(o.version, o.from, t)} \cup rest
      PROVE  Tail(t, v)
  <2> DEFINE c == Row(o.version, o.from, t)
             n == Row(v, t, Forever)
  <2>1. /\ c.version = o.version /\ c.from = o.from /\ c.to = t
        /\ n.version = v /\ n.from = t /\ n.to = Forever
    BY DEF Row
  <2>2. /\ o \in entries /\ o.to = Forever /\ o.version \in Nat /\ o.from \in Nat /\ o.version # None
        /\ t \in Nat /\ t < Forever /\ Forever \in Nat
    BY ForeverLater DEF OpenRows, TypeOK, EntryRow, Time, None
  <2>3. \A f \in entries \ {o} :
          /\ f.version < o.version /\ f.to <= o.from
          /\ f.version \in Nat /\ f.from \in Nat /\ f.to \in Nat /\ f.from < f.to
    BY OpenIsLast, ForeverLater DEF TypeOK, EntryRow, Tiled, Time, History
  <2>4. \A e \in entries' : e \in entries \ {o} \/ e = c \/ (e = n /\ v # None)
    BY <1>1
  <2>5. c \in entries' /\ entries \ {o} \subseteq entries' /\ (v # None => n \in entries')
    BY <1>1
  <2>6. v # None => v = o.version + 1
    BY <1>1
  <2> HIDE DEF c, n
  <2>7. ASSUME NEW u \in Time, u < t
        PROVE  { e.version : e \in InForce(u) }' = { e.version : e \in InForce(u) }
    <3>1. u \in Nat
      BY DEF Time
    <3>2. ASSUME NEW e \in InForce(u)' PROVE \E f \in InForce(u) : f.version = e.version
      <4>1. e \in entries' /\ e.from <= u /\ u < e.to
        BY <3>2 DEF InForce
      <4>2. CASE e \in entries \ {o}
        BY <4>1, <4>2 DEF InForce
      <4>3. CASE e = c
        BY <2>1, <2>2, <2>7, <3>1, <4>1, <4>3 DEF InForce
      <4>4. e # n
        BY <2>1, <2>2, <2>7, <3>1, <4>1
      <4> QED BY <2>4, <4>1, <4>2, <4>3, <4>4
    <3>3. ASSUME NEW e \in InForce(u) PROVE \E f \in InForce(u)' : f.version = e.version
      <4>1. e \in entries /\ e.from <= u /\ u < e.to
        BY <3>3 DEF InForce
      <4>2. CASE e # o
        <5>1. e \in InForce(u)'
          BY <2>5, <4>1, <4>2 DEF InForce
        <5> QED BY <5>1
      <4>3. CASE e = o
        <5>1. c \in InForce(u)'
          BY <2>1, <2>5, <2>7, <4>1, <4>3 DEF InForce
        <5> QED BY <2>1, <4>3, <5>1
      <4> QED BY <4>2, <4>3
    <3> QED BY <3>2, <3>3
  <2>8. ASSUME NEW u \in Time, u >= t
        PROVE  { e.version : e \in InForce(u) }' = (IF v = None THEN {} ELSE {v})
    <3>1. u \in Nat /\ u < Forever
      BY ForeverLater
    <3>2. ASSUME NEW e \in InForce(u)' PROVE v # None /\ e.version = v
      <4>1. e \in entries' /\ e.from <= u /\ u < e.to
        BY <3>2 DEF InForce
      <4>2. e \notin entries \ {o}
        BY <2>2, <2>3, <2>8, <3>1, <4>1, <1>1
      <4>3. e # c
        BY <2>1, <2>2, <2>8, <3>1, <4>1
      <4> QED BY <2>1, <2>4, <4>1, <4>2, <4>3
    <3>3. v # None => n \in InForce(u)'
      BY <2>1, <2>2, <2>5, <2>8, <3>1 DEF InForce
    <3> QED BY <2>1, <3>2, <3>3
  <2>9. CASE v = None
    <3>1. { e.version : e \in entries }' = { e.version : e \in entries }
      BY <2>1, <2>2, <2>4, <2>5, <2>9
    <3> QED BY <2>7, <2>8, <2>9, <3>1 DEF Tail
  <2>10. CASE v # None
    <3>1. \A e \in entries : e.version # v
      BY <2>2, <2>3, <2>6, <2>10
    <3>2. { e.version : e \in entries }' = { e.version : e \in entries } \cup {v}
      BY <2>1, <2>2, <2>4, <2>5, <2>10
    <3> QED BY <2>7, <2>8, <2>10, <3>1, <3>2 DEF Tail
  <2> QED BY <2>9, <2>10
<1>2. CASE Reset(w)
  <2>1. PICK o \in OpenRows :
           /\ o.version = cur[w] /\ o.from < start[w]
           /\ entries' = (entries \ {o}) \cup {Row(o.version, o.from, start[w])}
    BY <1>2, ResetRows
  <2>2. start[w] \in Time /\ start[w] > o.from /\ start[w] >= start[w]
        /\ None \in 0 .. MaxWrites /\ None \in Nat
    BY <2>1, BoundsAssumption DEF OpenRows, TypeOK, EntryRow, Time, None
  <2>3. entries' = (entries \ {o}) \cup {Row(o.version, o.from, start[w])} \cup {}
    BY <2>1
  <2> HIDE DEF None
  <2> QED BY <1>1, <2>2, <2>3
<1>3. ASSUME NEW t \in Time, entries = {}, entries' = {Row(1, t, Forever)}
      PROVE  Tail(t, 1)
  <2>1. Row(1, t, Forever).version = 1 /\ Row(1, t, Forever).from = t /\ Row(1, t, Forever).to = Forever
    BY DEF Row
  <2>2. \A u \in Time : u >= t => InForce(u)' = {Row(1, t, Forever)}
    BY <1>3, <2>1, ForeverLater DEF InForce
  <2>3. \A u \in Time : u < t => InForce(u)' = {} /\ InForce(u) = {}
    BY <1>3, <2>1, ForeverLater DEF InForce
  <2>4. 1 # None
    BY DEF None
  <2> QED BY <1>3, <2>1, <2>2, <2>3, <2>4 DEF Tail
<1>4. ASSUME NEW t \in Time, Set(w, t) PROVE t >= start[w] /\ cur[w] + 1 \in 0 .. MaxWrites
  <2>1. writes < MaxWrites /\ t >= start[w]
    BY <1>4 DEF Set, Effective
  <2>2. cur[w] \in 0 .. writes /\ writes \in 0 .. MaxWrites
    BY DEF TypeOK
  <2> QED BY <2>1, <2>2, BoundsAssumption
<1>5. CASE \E t \in Time : Set(w, t)
  <2>1. PICK t \in Time : Set(w, t)
    BY <1>5
  <2>2. CASE cur[w] = None /\ entries = {} /\ entries' = {Row(1, t, Forever)}
    <3>1. 1 \in 0 .. MaxWrites /\ 1 # None
      BY <1>4, <2>1, <2>2 DEF None
    <3> QED BY <1>3, <1>4, <2>1, <2>2, <3>1
  <2>3. CASE \E o \in OpenRows :
              /\ o.version = cur[w] /\ t > o.from
              /\ entries' = (entries \ {o}) \cup
                              {Row(o.version, o.from, t), Row(o.version + 1, t, Forever)}
    <3>1. PICK o \in OpenRows :
              /\ o.version = cur[w] /\ t > o.from
              /\ entries' = (entries \ {o}) \cup
                              {Row(o.version, o.from, t), Row(o.version + 1, t, Forever)}
      BY <2>3
    <3>2. PICK v \in 0 .. MaxWrites : v = cur[w] + 1
      BY <1>4, <2>1
    <3>3. v \in Nat /\ v # None /\ v = o.version + 1
      BY <3>1, <3>2 DEF TypeOK, None
    <3>4. entries' = (entries \ {o}) \cup {Row(o.version, o.from, t)} \cup {Row(v, t, Forever)}
      BY <3>1, <3>3
    <3> QED BY <1>1, <1>4, <2>1, <3>1, <3>3, <3>4
  <2> QED BY <2>1, <2>2, <2>3, SetRows
<1> QED BY <1>2, <1>5
\* A committed write comes too late for every settled read.
LEMMA UnreachedNext == TypeOK /\ Unreached /\ [Next]_vars => Unreached'
<1> SUFFICES ASSUME TypeOK, Unreached, [Next]_vars PROVE Unreached'
  OBVIOUS
<1>1. \A d \in reads : d.at \in Nat
  BY DEF TypeOK, ReadRow, Time
<1>2. CASE Tick
  BY <1>1, <1>2 DEF Tick, Unreached, Busy, TypeOK, Time
<1>3. ASSUME NEW w \in Writer, Begin(w) PROVE Unreached'
  <2>1. /\ UNCHANGED <<clock, reads>> /\ start'[w] = clock
        /\ \A u \in Writer \ {w} : (Busy(u)' => Busy(u)) /\ start'[u] = start[u]
    BY <1>3 DEF Begin, Busy, TypeOK
  <2>2. ASSUME NEW d \in reads, d.settled, NEW u \in Writer, Busy(u)' PROVE d.at < start'[u]
    <3>1. CASE u = w
      BY <2>1, <2>2, <3>1 DEF Unreached
    <3>2. CASE u # w
      BY <2>1, <2>2, <3>2 DEF Unreached
    <3> QED BY <3>1, <3>2
  <2>3. \A d \in reads' : d.settled => d.at < clock'
    BY <2>1 DEF Unreached
  <2>4. \A d \in reads', u \in Writer : (d.settled /\ phase'[u] # "idle") => d.at < start'[u]
    BY <2>1, <2>2 DEF Busy
  <2> QED BY <2>3, <2>4 DEF Unreached, Busy
<1>4. ASSUME NEW w \in Writer, Look(w) \/ LookNone(w) \/ Lock(w) PROVE Unreached'
  <2>1. UNCHANGED <<clock, start, reads>> /\ \A u \in Writer : Busy(u)' => Busy(u)
    BY <1>4 DEF Look, LookNone, Lock, TypeOK, Busy
  <2> QED BY <2>1 DEF Unreached
<1>5. ASSUME NEW w \in Writer, Done(w) PROVE Unreached'
  <2>1. /\ UNCHANGED <<clock, reads>>
        /\ \A u \in Writer : Busy(u)' => Busy(u) /\ start'[u] = start[u]
    BY <1>5 DEF Done, TypeOK, Busy
  <2> QED BY <2>1 DEF Unreached
<1>6. ASSUME NEW at \in Time, Read(at) PROVE Unreached'
  <2> DEFINE d == [at |-> at, saw |-> { e.version : e \in InForce(at) }, settled |-> Settled(at)]
  <2>1. reads' = reads \cup {d} /\ UNCHANGED <<clock, start, phase>>
    BY <1>6 DEF Read
  <2>2. d.at = at /\ d.settled = Settled(at)
    OBVIOUS
  <2>3. Settled(at) => at < clock /\ \A u \in Writer : Busy(u) => at < start[u]
    BY DEF Settled
  <2> HIDE DEF d
  <2>4. \A x \in reads' : x.settled => x.at < clock'
    BY <2>1, <2>2, <2>3 DEF Unreached
  <2>5. \A x \in reads', u \in Writer : (x.settled /\ Busy(u)) => x.at < start[u]
    BY <2>1, <2>2, <2>3 DEF Unreached
  <2> QED BY <2>1, <2>4, <2>5 DEF Unreached, Busy
<1>7. CASE UNCHANGED vars
  BY <1>7 DEF vars, Unreached, Busy
<1> QED BY <1>2, <1>3, <1>4, <1>5, <1>6, <1>7 DEF Next, WriterStep, Set, Reset, Fail

LEMMA ReproduceNext ==
  TypeOK /\ History /\ Unreached /\ SettledReadsReproduce /\ [Next]_vars => SettledReadsReproduce'
<1> SUFFICES ASSUME TypeOK, History, Unreached, SettledReadsReproduce, [Next]_vars
             PROVE  SettledReadsReproduce'
  OBVIOUS
<1>1. CASE UNCHANGED <<entries, reads>>
  BY <1>1 DEF SettledReadsReproduce, InForce
<1>2. ASSUME NEW w \in Writer, Reset(w) \/ \E t \in Time : Set(w, t)
      PROVE  SettledReadsReproduce'
  <2>1. PICK t \in Time, v \in 0 .. MaxWrites : t >= start[w] /\ Tail(t, v)
    BY <1>2, WriteTail
  <2>2. Busy(w) /\ UNCHANGED reads
    BY <1>2 DEF Reset, Set, Busy, Done
  <2>3. ASSUME NEW d \in reads, d.settled
        PROVE  { e.version : e \in InForce(d.at) }' = d.saw
    <3>1. d.at \in Time /\ d.at < start[w]
      BY <2>2, <2>3 DEF Unreached, TypeOK, ReadRow
    <3>2. d.at < t
      BY <2>1, <3>1 DEF TypeOK, Time
    <3>3. { e.version : e \in InForce(d.at) }' = { e.version : e \in InForce(d.at) }
      BY <2>1, <3>1, <3>2 DEF Tail
    <3> QED BY <2>3, <3>3 DEF SettledReadsReproduce
  <2> QED BY <2>2, <2>3 DEF SettledReadsReproduce
<1>3. ASSUME NEW at \in Time, Read(at) PROVE SettledReadsReproduce'
  BY <1>3 DEF Read, SettledReadsReproduce, InForce
<1>4. ASSUME NEW w \in Writer, Begin(w) \/ Look(w) \/ LookNone(w) \/ Lock(w) \/ Fail(w)
      PROVE  UNCHANGED <<entries, reads>>
  BY <1>4 DEF Begin, Look, LookNone, Lock, Fail, Done
<1>5. CASE Tick \/ UNCHANGED vars
  BY <1>1, <1>5 DEF Tick, vars
<1> QED BY <1>1, <1>2, <1>3, <1>4, <1>5 DEF Next, WriterStep

\* A read as at an instant before now and before every open write is reproduced
\* by the same read for ever.
THEOREM AlwaysReproduced == Spec => []SettledReadsReproduce
<1>1. Init => TypeOK /\ History /\ Unreached /\ SettledReadsReproduce
  BY TypeInit, HistoryInit DEF Init, Unreached, SettledReadsReproduce
<1>2. TypeOK /\ History /\ [Next]_vars => History'
  BY HistoryNext
<1>3. TypeOK /\ Unreached /\ [Next]_vars => Unreached'
  BY UnreachedNext
<1>4. TypeOK /\ History /\ Unreached /\ SettledReadsReproduce /\ [Next]_vars => SettledReadsReproduce'
  BY ReproduceNext
<1> QED BY <1>1, <1>2, <1>3, <1>4, TypeCorrect, PTL DEF Spec

\* The version in force, given those of the rows in force.
LEMMA InForceIs ==
  ASSUME NEW rows, NEW vs, vs = { e.version : e \in rows }
  PROVE  /\ vs = {} => (IF rows = {} THEN None ELSE (CHOOSE e \in rows : TRUE).version) = None
         /\ \A v : vs = {v} => (IF rows = {} THEN None ELSE (CHOOSE e \in rows : TRUE).version) = v
<1>1. rows # {} => (CHOOSE e \in rows : TRUE) \in rows
  OBVIOUS
<1> QED BY <1>1

\* One row at most is in force at an instant.
LEMMA OneInForce ==
  ASSUME TypeOK, History, NEW u \in Time, InForce(u) # {}
  PROVE  \E v : { e.version : e \in InForce(u) } = {v}
<1>1. PICK e \in InForce(u) : TRUE
  OBVIOUS
<1>2. ASSUME NEW f \in InForce(u) PROVE f.version = e.version
  <2>1. /\ e \in entries /\ e.from <= u /\ u < e.to /\ f \in entries /\ f.from <= u /\ u < f.to
    BY <1>1 DEF InForce
  <2>2. /\ e.version \in Nat /\ e.from \in Nat /\ e.to \in Nat /\ u \in Nat
        /\ f.version \in Nat /\ f.from \in Nat /\ f.to \in Nat
    BY <2>1, ForeverLater DEF TypeOK, EntryRow, Time
  <2>3. /\ e.version < f.version => e.to <= f.from
        /\ f.version < e.version => f.to <= e.from
    BY <2>1 DEF History, Tiled
  <2> QED BY <2>1, <2>2, <2>3
<1> QED BY <1>1, <1>2

LEMMA TimelineNext ==
  TypeOK /\ History /\ [Next]_vars =>
    [KeyTimeline!Next]_<<[u \in Time |-> InForceVersion(u)], { e.version : e \in entries }>>
<1> SUFFICES ASSUME TypeOK, History, [Next]_vars
             PROVE  KeyTimeline!Next
                    \/ UNCHANGED <<[u \in Time |-> InForceVersion(u)], { e.version : e \in entries }>>
  OBVIOUS
<1>1. ASSUME NEW w \in Writer, Reset(w) \/ \E t \in Time : Set(w, t)
      PROVE  KeyTimeline!Next
  <2>1. PICK t \in Time, v \in 0 .. MaxWrites : t >= start[w] /\ Tail(t, v)
    BY <1>1, WriteTail
  <2>2. ASSUME NEW u \in Time, u < t PROVE InForceVersion(u)' = InForceVersion(u)
    <3>1. { e.version : e \in InForce(u) }' = { e.version : e \in InForce(u) }
      BY <2>1, <2>2 DEF Tail
    <3>2. CASE InForce(u) = {}
      <4>1. { e.version : e \in InForce(u) } = {}
        BY <3>2
      <4> QED BY <3>1, <4>1, InForceIs DEF InForceVersion
    <3>3. CASE InForce(u) # {}
      <4>1. PICK x : { e.version : e \in InForce(u) } = {x}
        BY <3>3, OneInForce
      <4> QED BY <3>1, <4>1, InForceIs DEF InForceVersion
    <3> QED BY <3>2, <3>3
  <2>3. ASSUME NEW u \in Time, u >= t PROVE InForceVersion(u)' = v
    <3>1. { e.version : e \in InForce(u) }' = (IF v = None THEN {} ELSE {v})
      BY <2>1, <2>3 DEF Tail
    <3> QED BY <3>1, InForceIs DEF InForceVersion
  <2>4. KeyTimeline!From(t, v)
    <3>1. \A u \in Time : InForceVersion(u)' = (IF u >= t THEN v ELSE InForceVersion(u))
      BY <2>2, <2>3 DEF Time
    <3> QED BY <3>1 DEF KeyTimeline!From
  <2>5. CASE v = None
    <3>1. KeyTimeline!Reset(t)
      BY <2>1, <2>4, <2>5 DEF KeyTimeline!Reset, KeyTimeline!Default, Tail, None
    <3> QED BY <3>1 DEF KeyTimeline!Next
  <2>6. CASE v # None
    <3>1. KeyTimeline!Write(t, v)
      BY <2>1, <2>4, <2>6 DEF KeyTimeline!Write, Tail
    <3>2. v \in 1 .. MaxWrites
      BY <2>6 DEF None
    <3> QED BY <3>1, <3>2 DEF KeyTimeline!Next
  <2> QED BY <2>5, <2>6
<1>2. CASE UNCHANGED entries
  BY <1>2 DEF InForceVersion, InForce
<1>3. ASSUME NEW w \in Writer, Begin(w) \/ Look(w) \/ LookNone(w) \/ Lock(w) \/ Fail(w)
      PROVE  UNCHANGED entries
  BY <1>3 DEF Begin, Look, LookNone, Lock, Fail, Done
<1>4. CASE Tick \/ (\E at \in Time : Read(at)) \/ UNCHANGED vars
  BY <1>2, <1>4 DEF Tick, Read, vars
<1> QED BY <1>1, <1>2, <1>3, <1>4 DEF Next, WriterStep

\* The rows implement Timeline: a write replaces what applies from one instant on
\* by a version never used before, or by the default, and nothing before it.
THEOREM TimelineImplemented == Spec => ImplementsTimeline
<1>1. Init => TypeOK /\ History /\ KeyTimeline!Init
  BY TypeInit, HistoryInit DEF Init, KeyTimeline!Init, KeyTimeline!Default, InForceVersion, InForce, None
<1>2. TypeOK /\ History /\ [Next]_vars => History'
  BY HistoryNext
<1>3. TypeOK /\ History /\ [Next]_vars =>
        [KeyTimeline!Next]_<<[u \in Time |-> InForceVersion(u)], { e.version : e \in entries }>>
  BY TimelineNext
<1> QED BY <1>1, <1>2, <1>3, TypeCorrect, PTL DEF Spec, ImplementsTimeline, KeyTimeline!Spec
-----------------------------------------------------------------------------
(***************************************************************************)
(* TeamRoster.                                                             *)
(***************************************************************************)
TeamRow == [stage : {"none", "live", "archived"}, manager : Person \cup {Nobody},
            deputy : Person \cup {Nobody}]
MembershipRow == [team : Team \cup {Nobody}, person : Person \cup {Nobody},
                  from : 0 .. LastDay, to : 0 .. Open]

UpdateCall  == [kind : {"update"}, on : Team, read : TeamRow, manager : Person \cup {Nobody},
                deputy : Person \cup {Nobody}]
ArchiveCall == [kind : {"archive"}, on : Team]
AddCall     == [kind : {"add"}, on : Team, person : Person, from : Day]
EndCall     == [kind : {"end"}, on : Membership, read : MembershipRow, to : Day]
CorrectCall == [kind : {"correct"}, on : Membership, read : MembershipRow, from : Day,
                to : Day \cup {Open}]

Carried == call \in [Caller -> {Idle} \cup UpdateCall \cup ArchiveCall \cup AddCall \cup EndCall
                                     \cup CorrectCall]

Referred == \A c \in Caller : call[c] # Idle /\ call[c].kind \in {"end", "correct"} => call[c].on \in Stored

OfATeam == \A r \in Stored : row[r].team \in Team

Roster == RosterTypeOK /\ Carried /\ Referred /\ OfATeam
-----------------------------------------------------------------------------
LEMMA Days == /\ Day \subseteq 1 .. LastDay /\ LastDay \in Nat /\ Open \in Nat
              /\ Open \notin Day /\ LastDay + 1 < Open /\ 1 \in Day
BY RosterAssumption DEF Day, Open

LEMMA DayRange ==
  /\ \A d \in Day : d \in 0 .. LastDay /\ d \in 0 .. Open /\ d # Open
  /\ Open \in 0 .. Open
BY RosterAssumption DEF Day, Open

\* A membership written by a call is not the empty row.
LEMMA WrittenIsStored ==
  ASSUME NEW w \in MembershipRow, w.to \in Day \cup {Open}
  PROVE  w # NoMembership
BY Days DEF NoMembership, MembershipRow

LEMMA RosterStart == RosterInit => Roster /\ JournalIsTheHistory /\ ArchivedTeamsAreClosed
BY Days, RosterAssumption DEF RosterInit, Roster, RosterTypeOK, Carried, Referred, OfATeam, Stored, NoMembership,
   JournalIsTheHistory, ArchivedTeamsAreClosed

\* Reading leaves everything but the call alone.
LEMMA BeginRoster ==
  ASSUME Roster, NEW c \in Caller,
         NEW q \in UpdateCall \cup ArchiveCall \cup AddCall \cup EndCall \cup CorrectCall,
         q.kind \in {"end", "correct"} => q.on \in Stored,
         BeginCall(c, q)
  PROVE  Roster' /\ UNCHANGED <<tables, journal, history>>
<1> USE DEF Roster, BeginCall, tables, journal, history
<1>1. RosterTypeOK'
  BY RosterAssumption DEF RosterTypeOK
<1>2. Carried'
  BY DEF Carried
<1>3. Referred'
  BY DEF Carried, Referred, Stored
<1>4. OfATeam'
  BY DEF OfATeam, Stored
<1> QED BY <1>1, <1>2, <1>3, <1>4

LEMMA AskRoster ==
  ASSUME Roster, NEW c \in Caller, Ask(c)
  PROVE  Roster' /\ UNCHANGED <<tables, journal, history>>
<1> USE DEF Roster
<1>1. ASSUME NEW t \in Team, NEW m \in Person, NEW d \in Person \cup {Nobody}, AskUpdate(c, t, m, d)
      PROVE  Roster' /\ UNCHANGED <<tables, journal, history>>
  <2>1. [kind |-> "update", on |-> t, read |-> team[t], manager |-> m, deputy |-> d] \in UpdateCall
    BY DEF UpdateCall, TeamRow, RosterTypeOK
  <2> QED BY <1>1, <2>1, BeginRoster DEF AskUpdate
<1>2. ASSUME NEW t \in Team, AskArchive(c, t)
      PROVE  Roster' /\ UNCHANGED <<tables, journal, history>>
  <2>1. [kind |-> "archive", on |-> t] \in ArchiveCall
    BY DEF ArchiveCall
  <2> QED BY <1>2, <2>1, BeginRoster DEF AskArchive
<1>3. ASSUME NEW t \in Team, NEW p \in Person, NEW from \in Day, AskAdd(c, t, p, from)
      PROVE  Roster' /\ UNCHANGED <<tables, journal, history>>
  <2>1. [kind |-> "add", on |-> t, person |-> p, from |-> from] \in AddCall
    BY DEF AddCall
  <2> QED BY <1>3, <2>1, BeginRoster DEF AskAdd
<1>4. ASSUME NEW r \in Membership, NEW to \in Day, AskEnd(c, r, to)
      PROVE  Roster' /\ UNCHANGED <<tables, journal, history>>
  <2>1. [kind |-> "end", on |-> r, read |-> row[r], to |-> to] \in EndCall
    BY DEF EndCall, MembershipRow, RosterTypeOK
  <2> QED BY <1>4, <2>1, BeginRoster DEF AskEnd
<1>5. ASSUME NEW r \in Membership, NEW from \in Day, NEW to \in Day \cup {Open}, AskCorrect(c, r, from, to)
      PROVE  Roster' /\ UNCHANGED <<tables, journal, history>>
  <2>1. [kind |-> "correct", on |-> r, read |-> row[r], from |-> from, to |-> to] \in CorrectCall
    BY DEF CorrectCall, MembershipRow, RosterTypeOK
  <2> QED BY <1>5, <2>1, BeginRoster DEF AskCorrect
<1> QED BY <1>1, <1>2, <1>3, <1>4, <1>5 DEF Ask

\* What a call in progress carries, by its kind.
LEMMA CallOf ==
  ASSUME Roster, NEW c \in Caller, call[c] # Idle
  PROVE  /\ call[c].kind = "update" => call[c] \in UpdateCall
         /\ call[c].kind = "archive" => call[c] \in ArchiveCall
         /\ call[c].kind = "add" => call[c] \in AddCall
         /\ call[c].kind = "end" => call[c] \in EndCall /\ call[c].on \in Stored
         /\ call[c].kind = "correct" => call[c] \in CorrectCall /\ call[c].on \in Stored
BY DEF Roster, Carried, Referred, UpdateCall, ArchiveCall, AddCall, EndCall, CorrectCall

\* The end of a call, when no membership disappears and all are well formed.
LEMMA ReturnsRoster ==
  ASSUME Roster, NEW c \in Caller, Returns(c), RosterTypeOK', Stored \subseteq Stored', OfATeam'
  PROVE  Roster'
<1>1. Carried'
  BY DEF Roster, Carried, Returns
<1>2. Referred'
  BY DEF Roster, Carried, Referred, Returns
<1> QED BY <1>1, <1>2 DEF Roster

LEMMA UpdateRoster ==
  ASSUME Roster, JournalIsTheHistory, ArchivedTeamsAreClosed, NEW c \in Caller, Update(c)
  PROVE  Roster' /\ JournalIsTheHistory' /\ ArchivedTeamsAreClosed'
<1> DEFINE q == call[c]
           t == q.on
<1>1. q \in UpdateCall
  BY CallOf DEF Update
<1>2. /\ t \in Team /\ team[t] \in TeamRow /\ toldTeam[t] \in TeamRow /\ q.read \in TeamRow
      /\ q.manager \in Person \cup {Nobody} /\ q.deputy \in Person \cup {Nobody}
      /\ team \in [Team -> TeamRow] /\ toldTeam \in [Team -> TeamRow]
  BY <1>1 DEF UpdateCall, Roster, RosterTypeOK, TeamRow
<1>3. team' \in [Team -> TeamRow] /\ toldTeam' \in [Team -> TeamRow]
  BY <1>2 DEF Update, TeamRow, Noted
<1>4. RosterTypeOK'
  BY <1>2, <1>3 DEF Update, Returns, Roster, RosterTypeOK, TeamRow
<1>5. Stored' = Stored /\ OfATeam'
  BY DEF Update, Stored, Roster, OfATeam
<1>6. Roster'
  BY <1>4, <1>5, ReturnsRoster DEF Update
<1>7. ASSUME t \notin overtaken' PROVE toldTeam'[t] = team'[t]
  <2>1. team[t] = [q.read EXCEPT !.stage = team[t].stage] /\ t \notin overtaken
    BY <1>7 DEF Update
  <2>2. team[t].manager = q.read.manager /\ team[t].deputy = q.read.deputy /\ toldTeam[t] = team[t]
    BY <2>1, <1>2 DEF TeamRow, JournalIsTheHistory
  <2> QED BY <1>2, <2>2 DEF Update, Noted, TeamRow
<1>8. JournalIsTheHistory'
  <2>1. \A u \in Team : u # t => team'[u] = team[u] /\ toldTeam'[u] = toldTeam[u]
    BY <1>2 DEF Update
  <2>2. overtaken \subseteq overtaken' /\ UNCHANGED <<row, told>>
    BY DEF Update
  <2> QED BY <1>7, <2>1, <2>2 DEF JournalIsTheHistory
<1>9. \A u \in Team : team'[u].stage = team[u].stage
  BY <1>2 DEF Update, TeamRow
<1>10. ArchivedTeamsAreClosed'
  BY <1>5, <1>9 DEF Update, ArchivedTeamsAreClosed, Live, Roster, OfATeam
<1> QED BY <1>6, <1>8, <1>10

LEMMA ArchiveRoster ==
  ASSUME Roster, JournalIsTheHistory, ArchivedTeamsAreClosed, NEW c \in Caller, Archive(c)
  PROVE  Roster' /\ JournalIsTheHistory' /\ ArchivedTeamsAreClosed'
<1> DEFINE q == call[c]
           t == q.on
           rs == OpenIn(t)
<1>1. q \in ArchiveCall /\ t \in Team
  BY CallOf DEF Archive, ArchiveCall
<1>2. /\ team \in [Team -> TeamRow] /\ toldTeam \in [Team -> TeamRow] /\ today \in Day
      /\ row \in [Membership -> MembershipRow] /\ told \in [Membership -> MembershipRow]
  BY DEF Roster, RosterTypeOK, TeamRow, MembershipRow
<1>3. ASSUME NEW w \in MembershipRow
      PROVE  /\ Ended(w) \in MembershipRow /\ Ended(w).to # Open /\ Ended(w).to > 0
             /\ Ended(w).team = w.team
  BY <1>2, Days DEF Ended, MembershipRow
<1>4. /\ row' \in [Membership -> MembershipRow] /\ told' \in [Membership -> MembershipRow]
      /\ team' \in [Team -> TeamRow] /\ toldTeam' \in [Team -> TeamRow]
  BY <1>1, <1>2, <1>3 DEF Archive, TeamRow
<1>5. RosterTypeOK'
  BY <1>4 DEF Archive, Returns, Roster, RosterTypeOK, TeamRow, MembershipRow
<1>6. Stored \subseteq Stored' /\ OfATeam' /\ \A r \in Stored' : r \in Stored /\ row'[r].team = row[r].team
  <2>1. \A r \in Membership : r \in rs => r \in Stored /\ row'[r] = Ended(row[r])
    BY DEF Archive, OpenIn, Stored
  <2>2. \A r \in Membership : r \notin rs => row'[r] = row[r]
    BY DEF Archive
  <2>3. \A r \in Membership : row'[r].team = row[r].team
    BY <1>2, <1>3, <2>1, <2>2
  <2>4. \A r \in rs : row'[r] # NoMembership
    BY <1>2, <1>3, <2>1 DEF NoMembership, OpenIn, Stored
  <2> QED BY <2>1, <2>2, <2>3, <2>4 DEF Stored, Roster, OfATeam
<1>7. Roster'
  BY <1>5, <1>6, ReturnsRoster DEF Archive
<1>8. JournalIsTheHistory'
  <2>1. \A r \in Membership : told[r] = row[r] => told'[r] = row'[r]
    BY DEF Archive
  <2>2. \A u \in Team : toldTeam[u] = team[u] => toldTeam'[u] = team'[u]
    BY <1>1, <1>2 DEF Archive
  <2> QED BY <2>1, <2>2 DEF Archive, JournalIsTheHistory
<1>9. ASSUME NEW r \in Stored', row'[r].to = Open
      PROVE  Live(row[r].team)' \/ r \in outlived'
  <2>1. r \notin rs /\ row'[r] = row[r]
    BY <1>2, <1>3, <1>9 DEF Archive, Stored
  <2>2. row[r].team # t /\ r \in Stored
    BY <1>6, <1>9, <2>1 DEF OpenIn
  <2>3. row[r].team \in Team /\ (Live(row[r].team) \/ r \in outlived)
    BY <1>9, <2>1, <2>2 DEF Roster, OfATeam, ArchivedTeamsAreClosed
  <2> QED BY <1>2, <2>1, <2>2, <2>3 DEF Archive, Live
<1>10. ArchivedTeamsAreClosed'
  BY <1>9 DEF ArchivedTeamsAreClosed
<1> QED BY <1>7, <1>8, <1>10

\* What a call that writes one membership leaves, whatever it wrote there.
LEMMA PutRoster ==
  ASSUME Roster, ArchivedTeamsAreClosed, NEW c \in Caller, NEW r \in Membership, NEW w \in MembershipRow,
         w.to \in Day \cup {Open}, w.team \in Team, row' = [row EXCEPT ![r] = w],
         told' \in [Membership -> MembershipRow], outlived' \in SUBSET Membership,
         overtaken' \in SUBSET (Team \cup Membership),
         outlived \ {r} \subseteq outlived', w.to = Open => Live(w.team) \/ r \in outlived',
         Returns(c), UNCHANGED <<team, toldTeam>>
  PROVE  Roster' /\ ArchivedTeamsAreClosed'
<1>1. row \in [Membership -> MembershipRow]
  BY DEF Roster, RosterTypeOK, MembershipRow
<1>2. row'[r] = w /\ \A s \in Membership \ {r} : row'[s] = row[s]
  BY <1>1
<1>3. RosterTypeOK'
  BY <1>1 DEF Returns, Roster, RosterTypeOK, MembershipRow
<1>4. w # NoMembership
  BY WrittenIsStored
<1>5. Stored \subseteq Stored' /\ \A s \in Stored' \ {r} : s \in Stored
  BY <1>2, <1>4 DEF Stored
<1>6. OfATeam'
  BY <1>2, <1>5 DEF Stored, Roster, OfATeam
<1>7. Roster'
  BY <1>3, <1>5, <1>6, ReturnsRoster
<1>8. ArchivedTeamsAreClosed'
  BY <1>2, <1>5 DEF ArchivedTeamsAreClosed, Live, Stored
<1> QED BY <1>7, <1>8

LEMMA OutlivingRow ==
  ASSUME NEW r \in Membership, NEW w, outlived \subseteq Membership, outlived' = Outliving(r, w)
  PROVE  /\ outlived' \in SUBSET Membership /\ outlived \ {r} \subseteq outlived'
         /\ w.to = Open => Live(w.team) \/ r \in outlived'
BY DEF Outliving

LEMMA AddRoster ==
  ASSUME Roster, JournalIsTheHistory, ArchivedTeamsAreClosed, NEW c \in Caller, Add(c)
  PROVE  Roster' /\ JournalIsTheHistory' /\ ArchivedTeamsAreClosed'
<1> DEFINE q == call[c]
           w == [team |-> q.on, person |-> q.person, from |-> q.from, to |-> Open]
           r == Cardinality(Stored) + 1
<1> HIDE DEF r
<1>1. q \in AddCall
  BY CallOf DEF Add
<1>2. /\ w \in MembershipRow /\ w.to \in Day \cup {Open} /\ w.team \in Team
  BY <1>1, DayRange DEF AddCall, MembershipRow
<1>3. r \in Membership /\ row' = [row EXCEPT ![r] = w] /\ told' = [told EXCEPT ![r] = w]
      /\ outlived' = Outliving(r, w)
  BY DEF Add, r
<1>4. row \in [Membership -> MembershipRow] /\ told \in [Membership -> MembershipRow]
      /\ outlived \subseteq Membership /\ overtaken \subseteq Team \cup Membership
  BY DEF Roster, RosterTypeOK, MembershipRow
<1> HIDE DEF w
<1>5. /\ told' \in [Membership -> MembershipRow] /\ overtaken' = overtaken
      /\ Returns(c) /\ UNCHANGED <<team, toldTeam>>
  BY <1>2, <1>3, <1>4 DEF Add
<1>6. Roster' /\ ArchivedTeamsAreClosed'
  BY <1>2, <1>3, <1>4, <1>5, OutlivingRow, PutRoster
<1>7. JournalIsTheHistory'
  BY <1>3, <1>4, <1>5 DEF JournalIsTheHistory
<1> QED BY <1>6, <1>7

LEMMA EndRoster ==
  ASSUME Roster, JournalIsTheHistory, ArchivedTeamsAreClosed, NEW c \in Caller, End(c)
  PROVE  Roster' /\ JournalIsTheHistory' /\ ArchivedTeamsAreClosed'
<1> DEFINE q == call[c]
           r == q.on
           w == [row[r] EXCEPT !.to = q.to]
<1>1. q \in EndCall /\ r \in Stored
  BY CallOf DEF End
<1>2. row \in [Membership -> MembershipRow] /\ told \in [Membership -> MembershipRow]
      /\ outlived \subseteq Membership /\ overtaken \subseteq Team \cup Membership
  BY DEF Roster, RosterTypeOK, MembershipRow
<1>3. r \in Membership /\ row[r] \in MembershipRow /\ told[r] \in MembershipRow /\ row[r].team \in Team
  BY <1>1, <1>2 DEF Stored, Roster, OfATeam
<1>4. q.to \in Day /\ q.to \in 0 .. Open /\ q.to # Open
  BY <1>1, DayRange DEF EndCall
<1>5. w \in MembershipRow /\ w.to \in Day \cup {Open} /\ w.team \in Team /\ w.to # Open
  BY <1>3, <1>4 DEF MembershipRow
<1>6. /\ row' = [row EXCEPT ![r] = w] /\ told' = [told EXCEPT ![r] = [told[r] EXCEPT !.to = q.to]]
      /\ outlived' = outlived \ {r} /\ overtaken' = overtaken /\ Returns(c) /\ UNCHANGED <<team, toldTeam>>
  BY <1>2, <1>3 DEF End
<1>7. told' \in [Membership -> MembershipRow]
  BY <1>2, <1>3, <1>4, <1>6 DEF MembershipRow
<1>8. Roster' /\ ArchivedTeamsAreClosed'
  <2> HIDE DEF w, r
  <2> QED BY <1>2, <1>3, <1>5, <1>6, <1>7, PutRoster
<1>9. JournalIsTheHistory'
  BY <1>2, <1>3, <1>6 DEF JournalIsTheHistory
<1> QED BY <1>8, <1>9

LEMMA CorrectRoster ==
  ASSUME Roster, JournalIsTheHistory, ArchivedTeamsAreClosed, NEW c \in Caller, Correct(c)
  PROVE  Roster' /\ JournalIsTheHistory' /\ ArchivedTeamsAreClosed'
<1> DEFINE q == call[c]
           r == q.on
           w == [row[r] EXCEPT !.from = q.from, !.to = q.to]
           v == [told[r] EXCEPT !.from = Noted(told[r].from, q.read.from, q.from),
                                !.to = Noted(told[r].to, q.read.to, q.to)]
<1>1. q \in CorrectCall /\ r \in Stored
  BY CallOf DEF Correct
<1>2. row \in [Membership -> MembershipRow] /\ told \in [Membership -> MembershipRow]
      /\ outlived \subseteq Membership /\ overtaken \subseteq Team \cup Membership
  BY DEF Roster, RosterTypeOK, MembershipRow
<1>3. r \in Membership /\ row[r] \in MembershipRow /\ told[r] \in MembershipRow /\ row[r].team \in Team
  BY <1>1, <1>2 DEF Stored, Roster, OfATeam
<1>4. /\ q.to \in Day \cup {Open} /\ q.to \in 0 .. Open /\ q.from \in 0 .. LastDay
      /\ q.read \in MembershipRow
  BY <1>1, DayRange DEF CorrectCall
<1>5. w \in MembershipRow /\ w.to \in Day \cup {Open} /\ w.team \in Team /\ v \in MembershipRow
  BY <1>3, <1>4 DEF MembershipRow, Noted
<1>6. /\ row' = [row EXCEPT ![r] = w] /\ told' = [told EXCEPT ![r] = v]
      /\ outlived' = Outliving(r, w) /\ Returns(c) /\ UNCHANGED <<team, toldTeam>>
      /\ overtaken' = IF row[r] = q.read THEN overtaken ELSE overtaken \cup {r}
  BY <1>2, <1>3 DEF Correct
<1>7. told' \in [Membership -> MembershipRow] /\ overtaken' \in SUBSET (Team \cup Membership)
  <2> HIDE DEF v
  <2> QED BY <1>2, <1>3, <1>5, <1>6
<1>8. Roster' /\ ArchivedTeamsAreClosed'
  <2> HIDE DEF w, r, v
  <2> QED BY <1>2, <1>3, <1>5, <1>6, <1>7, OutlivingRow, PutRoster
<1>9. ASSUME r \notin overtaken' PROVE v = w
  <2>1. row[r] = q.read /\ told[r] = row[r]
    BY <1>3, <1>6, <1>9 DEF JournalIsTheHistory
  <2> QED BY <1>3, <2>1 DEF Noted, MembershipRow
<1>10. JournalIsTheHistory'
  <2> HIDE DEF w, v
  <2> QED BY <1>2, <1>3, <1>6, <1>9 DEF JournalIsTheHistory
<1> QED BY <1>8, <1>10

LEMMA CreateRoster ==
  ASSUME Roster, JournalIsTheHistory, ArchivedTeamsAreClosed,
         NEW t \in Team, NEW m \in Person, NEW d \in Person \cup {Nobody}, Create(t, m, d)
  PROVE  Roster' /\ JournalIsTheHistory' /\ ArchivedTeamsAreClosed'
<1>1. team \in [Team -> TeamRow] /\ toldTeam \in [Team -> TeamRow]
  BY DEF Roster, RosterTypeOK, TeamRow
<1>2. /\ team' \in [Team -> TeamRow] /\ toldTeam' \in [Team -> TeamRow]
      /\ team'[t].stage = "live" /\ toldTeam'[t] = team'[t]
      /\ \A u \in Team \ {t} : team'[u] = team[u] /\ toldTeam'[u] = toldTeam[u]
  BY <1>1 DEF Create, TeamRow
<1>3. UNCHANGED <<row, told, call, overtaken, outlived>> /\ Stored' = Stored
  BY DEF Create, Stored, history
<1>4. RosterTypeOK'
  BY <1>2 DEF Create, history, Roster, RosterTypeOK, TeamRow
<1>5. Roster'
  BY <1>3, <1>4 DEF Roster, Carried, Referred, OfATeam
<1>6. JournalIsTheHistory'
  BY <1>2, <1>3 DEF JournalIsTheHistory
<1>7. ArchivedTeamsAreClosed'
  BY <1>2, <1>3 DEF ArchivedTeamsAreClosed, Live, Roster, OfATeam
<1> QED BY <1>5, <1>6, <1>7

LEMMA RosterUnchanged ==
  ASSUME UNCHANGED <<tables, journal, history>>, JournalIsTheHistory, ArchivedTeamsAreClosed
  PROVE  JournalIsTheHistory' /\ ArchivedTeamsAreClosed'
BY DEF tables, journal, history, JournalIsTheHistory, ArchivedTeamsAreClosed, Stored, Live

LEMMA RosterStep ==
  ASSUME Roster, JournalIsTheHistory, ArchivedTeamsAreClosed, [RosterNext]_rosterVars
  PROVE  Roster' /\ JournalIsTheHistory' /\ ArchivedTeamsAreClosed'
<1>1. ASSUME NEW c \in Caller, Ask(c)
      PROVE  Roster' /\ JournalIsTheHistory' /\ ArchivedTeamsAreClosed'
  BY <1>1, AskRoster, RosterUnchanged
<1>2. ASSUME NEW c \in Caller, Write(c)
      PROVE  Roster' /\ JournalIsTheHistory' /\ ArchivedTeamsAreClosed'
  BY <1>2, UpdateRoster, ArchiveRoster, AddRoster, EndRoster, CorrectRoster DEF Write
<1>3. ASSUME NEW c \in Caller, Fails(c)
      PROVE  Roster' /\ JournalIsTheHistory' /\ ArchivedTeamsAreClosed'
  <2>1. RosterTypeOK' /\ OfATeam' /\ Stored \subseteq Stored'
    BY <1>3 DEF Fails, Returns, tables, journal, history, Roster, RosterTypeOK, OfATeam, Stored
  <2> QED BY <1>3, <2>1, ReturnsRoster, RosterUnchanged DEF Fails
<1>4. CASE NextDay
  <2>1. RosterTypeOK'
    BY <1>4, Days DEF NextDay, Day, tables, journal, history, Roster, RosterTypeOK
  <2>2. Carried' /\ Referred' /\ OfATeam'
    BY <1>4 DEF NextDay, tables, Roster, Carried, Referred, OfATeam, Stored
  <2> QED BY <1>4, <2>1, <2>2, RosterUnchanged DEF NextDay, Roster
<1>5. CASE UNCHANGED rosterVars
  <2>1. Roster'
    BY <1>5 DEF rosterVars, tables, journal, history, Roster, RosterTypeOK, Carried, Referred, OfATeam, Stored
  <2> QED BY <1>5, <2>1, RosterUnchanged DEF rosterVars
<1> QED BY <1>1, <1>2, <1>3, <1>4, <1>5, CreateRoster DEF RosterNext

\* Every state of the roster is well formed, with any number of callers, teams and days.
THEOREM RosterTypeCorrect == RosterSpec => []RosterTypeOK
<1>1. RosterInit => Roster /\ JournalIsTheHistory /\ ArchivedTeamsAreClosed
  BY RosterStart
<1>2. Roster /\ JournalIsTheHistory /\ ArchivedTeamsAreClosed /\ [RosterNext]_rosterVars
        => Roster' /\ JournalIsTheHistory' /\ ArchivedTeamsAreClosed'
  BY RosterStep
<1>3. Roster => RosterTypeOK
  BY DEF Roster
<1> QED BY <1>1, <1>2, <1>3, PTL DEF RosterSpec

\* Whatever calls overlap, the events of a team add up to its manager, its deputy and its
\* memberships, except where an update or a correction wrote over what it had not read.
THEOREM AlwaysHistory == RosterSpec => []JournalIsTheHistory
<1>1. RosterInit => Roster /\ JournalIsTheHistory /\ ArchivedTeamsAreClosed
  BY RosterStart
<1>2. Roster /\ JournalIsTheHistory /\ ArchivedTeamsAreClosed /\ [RosterNext]_rosterVars
        => Roster' /\ JournalIsTheHistory' /\ ArchivedTeamsAreClosed'
  BY RosterStep
<1> QED BY <1>1, <1>2, PTL DEF RosterSpec

\* An archived team has no open membership but what was written on it after the archive, by a
\* call that read the team before or by a correction.
THEOREM AlwaysArchivedClosed == RosterSpec => []ArchivedTeamsAreClosed
<1>1. RosterInit => Roster /\ JournalIsTheHistory /\ ArchivedTeamsAreClosed
  BY RosterStart
<1>2. Roster /\ JournalIsTheHistory /\ ArchivedTeamsAreClosed /\ [RosterNext]_rosterVars
        => Roster' /\ JournalIsTheHistory' /\ ArchivedTeamsAreClosed'
  BY RosterStep
<1> QED BY <1>1, <1>2, PTL DEF RosterSpec
=============================================================================
