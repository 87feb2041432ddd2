---------------------------- MODULE ConfigHistory ----------------------------
(***************************************************************************)
(* The effective-dated rows of one configuration key (config/src/          *)
(* resolve.ts; keys are independent of each other).  Each write is one     *)
(* transaction.  It takes its instant now() when it begins, finds and      *)
(* locks the open row in a second step, and becomes visible when it        *)
(* commits: Begin, Look, Lock, then Set, Reset or Fail.  Reads are as at   *)
(* an instant not later than the clock, and remembered.                    *)
(*                                                                         *)
(* The value of a row is left out: its version names it, rows being        *)
(* close-only by trigger.  Schema checks end in Fail.                      *)
(* Bounds: MaxTime bounds the clock and staged instants, MaxWrites the     *)
(* committed writes, MaxReads the remembered reads.                        *)
(***************************************************************************)
EXTENDS Integers, FiniteSets

CONSTANTS Writer, MaxTime, MaxWrites, MaxReads

ASSUME BoundsAssumption == MaxTime \in Nat /\ MaxWrites \in Nat /\ MaxReads \in Nat

Time    == 0 .. MaxTime
Forever == MaxTime + 1        \* valid_to IS NULL
None    == 0                  \* no row; versions count from 1

VARIABLES
  clock,    \* the database clock
  entries,  \* the committed config_entry rows of the key
  phase,    \* Writer -> where its transaction is
  start,    \* Writer -> now() of its transaction
  cur,      \* Writer -> version of the open row its statement found, None if none
  writes,   \* writes committed so far
  mark,     \* Writer -> `writes` when its transaction began
  reads     \* what readers were told

vars == <<clock, entries, phase, start, cur, writes, mark, reads>>

Row(v, f, t) == [version |-> v, from |-> f, to |-> t]

Phase == {"idle", "begun", "waiting", "ready"}
-----------------------------------------------------------------------------
OpenRows == { e \in entries : e.to = Forever }

\* inForceAt: half-open windows.
InForce(at) == { e \in entries : e.from <= at /\ at < e.to }

Busy(w) == phase[w] # "idle"

\* SELECT ... WHERE valid_to IS NULL, as the statement's snapshot shows it.
Found(w) == { e.version : e \in OpenRows }

\* The row lock is with another transaction until that ends.
Held(v) == \E u \in Writer : phase[u] = "ready" /\ cur[u] = v

\* Mutant: version numbers are not unique.
OneOpen(w) == { e \in OpenRows : e.version # cur[w] } = {}

\* config_entry_one_open_uq and config_entry_version_uq admit the successor.
Admitted(w) == { e \in entries : \/ e.to = Forever /\ e.version # cur[w]
                                 \/ e.version = cur[w] + 1 } = {}

\* Mutant: a past effectiveFrom is accepted.
EffectiveAnyTime(w, t) == \A e \in OpenRows : e.version = cur[w] => t > e.from

\* Not in the past of the transaction, and after the open row took effect
\* (ConfigEffectiveFromError, or config_entry_window_chk when t is now()).
Effective(w, t) == t >= start[w] /\ \A e \in OpenRows : e.version = cur[w] => t > e.from

\* The predecessor closed at t (the one update config_entry_guard permits), its
\* successor open from t.
Superseded(w, t) ==
  { e \in entries : e.version # cur[w] }
    \cup { Row(e.version, e.from, t) : e \in { f \in OpenRows : f.version = cur[w] } }
    \cup { Row(cur[w] + 1, t, Forever) }

\* The open row closed at t, without successor.
Closed(w, t) ==
  { e \in entries : e.version # cur[w] }
    \cup { Row(e.version, e.from, t) : e \in { f \in OpenRows : f.version = cur[w] } }
-----------------------------------------------------------------------------
Init ==
  /\ clock = 0
  /\ entries = {}
  /\ phase = [w \in Writer |-> "idle"]
  /\ start = [w \in Writer |-> 0]
  /\ cur = [w \in Writer |-> None]
  /\ writes = 0
  /\ mark = [w \in Writer |-> 0]
  /\ reads = {}

Tick ==
  /\ clock < MaxTime
  /\ clock' = clock + 1
  /\ UNCHANGED <<entries, phase, start, cur, writes, mark, reads>>

\* set or reset of the router opens its transaction.
Begin(w) ==
  /\ ~Busy(w)
  /\ phase' = [phase EXCEPT ![w] = "begun"]
  /\ start' = [start EXCEPT ![w] = clock]
  /\ mark' = [mark EXCEPT ![w] = writes]
  /\ UNCHANGED <<clock, entries, cur, writes, reads>>

\* The locking read finds an open row, and waits for its lock ...
Look(w) ==
  /\ phase[w] = "begun"
  /\ \E v \in Found(w) : cur' = [cur EXCEPT ![w] = v]
  /\ phase' = [phase EXCEPT ![w] = "waiting"]
  /\ UNCHANGED <<clock, entries, start, writes, mark, reads>>

\* ... or finds none, and nothing to wait for.
LookNone(w) ==
  /\ phase[w] = "begun"
  /\ Found(w) = {}
  /\ cur' = [cur EXCEPT ![w] = None]
  /\ phase' = [phase EXCEPT ![w] = "ready"]
  /\ UNCHANGED <<clock, entries, start, writes, mark, reads>>

\* Once the lock is free the row is looked at again: one closed meanwhile is no
\* longer selected, and its successor is not in the statement's snapshot.
Lock(w) ==
  /\ phase[w] = "waiting"
  /\ ~Held(cur[w])
  /\ phase' = [phase EXCEPT ![w] = "ready"]
  /\ cur' = [cur EXCEPT ![w] = IF @ \in Found(w) THEN @ ELSE None]
  /\ UNCHANGED <<clock, entries, start, writes, mark, reads>>

Done(w) ==
  /\ phase' = [phase EXCEPT ![w] = "idle"]
  /\ start' = [start EXCEPT ![w] = 0]
  /\ cur' = [cur EXCEPT ![w] = None]
  /\ mark' = [mark EXCEPT ![w] = 0]
  /\ UNCHANGED <<clock, reads>>

\* setConfig, effective at t: now() of the transaction, or a staged instant.
Set(w, t) ==
  /\ phase[w] = "ready"
  /\ writes < MaxWrites
  /\ Effective(w, t)
  /\ Admitted(w)
  /\ entries' = Superseded(w, t)
  /\ writes' = writes + 1
  /\ Done(w)

\* resetConfig: the open row, if it is the one in force, closes at now().
Reset(w) ==
  /\ phase[w] = "ready"
  /\ cur[w] # None
  /\ writes < MaxWrites
  /\ \A e \in OpenRows : e.version = cur[w] => e.from < start[w]
  /\ entries' = Closed(w, start[w])
  /\ writes' = writes + 1
  /\ Done(w)

\* A reset with nothing to close, a refused write, a conflict, a lost connection.
Fail(w) ==
  /\ Busy(w)
  /\ Done(w)
  /\ UNCHANGED <<entries, writes>>

\* An instant is settled when it lies before now and before every open
\* transaction began.
Settled(at) == at < clock /\ \A w \in Writer : Busy(w) => at < start[w]

\* resolveConfig as at an instant of the past or the present.
Read(at) ==
  /\ Cardinality(reads) < MaxReads
  /\ at <= clock
  /\ reads' = reads \cup {[at |-> at, saw |-> { e.version : e \in InForce(at) },
                           settled |-> Settled(at)]}
  /\ UNCHANGED <<clock, entries, phase, start, cur, writes, mark>>

WriterStep(w) ==
  \/ Begin(w)
  \/ Look(w)
  \/ LookNone(w)
  \/ Lock(w)
  \/ \E t \in Time : Set(w, t)
  \/ Reset(w)
  \/ Fail(w)

Next ==
  \/ Tick
  \/ \E w \in Writer : WriterStep(w)
  \/ \E at \in Time : Read(at)

Spec == Init /\ [][Next]_vars
-----------------------------------------------------------------------------
(***************************************************************************)
(* Properties.                                                             *)
(***************************************************************************)
EntryRow == [version : 1 .. MaxWrites, from : Time, to : Time \cup {Forever}]

ReadRow == [at : Time, saw : SUBSET (1 .. MaxWrites), settled : BOOLEAN]

\* Type invariant; no version is numbered higher than the writes committed.
TypeOK ==
  /\ clock \in Time
  /\ entries \subseteq EntryRow
  /\ \A e \in entries : e.version <= writes
  /\ phase \in [Writer -> Phase]
  /\ start \in [Writer -> 0 .. clock]
  /\ cur \in [Writer -> 0 .. writes]
  /\ writes \in 0 .. MaxWrites
  /\ mark \in [Writer -> 0 .. writes]
  /\ reads \subseteq ReadRow

\* resolve.ts: "windows tile exactly".  Racing writers, the first write included,
\* leave versions 1, 2, ... without gap or repetition, each window starting where
\* its predecessor's ends, none empty, no two overlapping, one open at most.
Tiled ==
  /\ \A e, f \in entries : e.version = f.version => e = f
  /\ \A e \in entries : e.from < e.to
  /\ \A e \in entries : e.version > 1 =>
       \E f \in entries : f.version = e.version - 1 /\ f.to = e.from
  /\ \A e, f \in entries : e.version < f.version => e.to <= f.from

\* ADR-0016, "a threshold change never rewrites the past", as far as it holds: a
\* read as at a settled instant gives the same answer for ever.
SettledReadsReproduce ==
  \A d \in reads : d.settled => d.saw = { e.version : e \in InForce(d.at) }

\* resolve.ts: "re-reading the journal later with the same `at` reproduces the
\* decision exactly".
ReadsReproduce == \A d \in reads : d.saw = { e.version : e \in InForce(d.at) }

\* ConfigWriteConflictError: "was changed by someone else while this change was
\* being saved".  A write is refused as a conflict only when another committed
\* since it began.
ConflictsAreReal ==
  \A w \in Writer : (phase[w] = "ready" /\ ~Admitted(w)) => writes > mark[w]

\* The rows implement a timeline whose writes replace what applies from one
\* instant on, and nothing before it.
InForceVersion(u) ==
  IF InForce(u) = {} THEN None ELSE (CHOOSE e \in InForce(u) : TRUE).version

KeyTimeline == INSTANCE Timeline WITH
  Instant <- Time, Version <- 1 .. MaxWrites,
  applies <- [u \in Time |-> InForceVersion(u)],
  used <- { e.version : e \in entries }

ImplementsTimeline == KeyTimeline!Spec
=============================================================================
