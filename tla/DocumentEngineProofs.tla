------------------------ MODULE DocumentEngineProofs ------------------------
(***************************************************************************)
(* Proofs about DocumentEngine, for every set of documents, handlers and   *)
(* bytes and every bound.                                                  *)
(***************************************************************************)
EXTENDS DocumentEngine, FiniteSetTheorems, TLAPS

\* A handler at work is at work on an issued document, and knows which message it
\* holds; messages are about issued documents.
AtWork ==
  /\ \A w \in Worker : step[w] # "idle" => on[w] \in Doc /\ status[on[w]] # "draft"
  /\ \A w \in Worker : step[w] \in {"render", "staged", "stored", "bounced"} => job[w] = "render"
  /\ \A w \in Worker : step[w] = "idle" => w \notin locked
  /\ \A d \in Doc : status[d] = "draft" => renders[d] = 0 /\ answers[d] = 0
  /\ \A d \in Doc : status[d] = "draft" => filing[d] = "none"

TypeInv == TypeOK /\ AtWork

\* TypeOK in parts, by what the actions change together.
Stored == Bytes \cup {None, Upload}

RowType ==
  /\ status \in [Doc -> Status] /\ mode \in [Doc -> Mode \cup {"draft"}]
  /\ ahead \in [Doc -> SUBSET Doc] /\ completed \subseteq Doc
  /\ evidence \in [Doc -> Seq(Bytes)]
  /\ certificate \in [Doc -> {"none", "queued", "filed", "deferred"}]

BytesType ==
  /\ hash \in [Doc -> Bytes \cup {None}] /\ pending \in [Doc -> Stored]
  /\ library \in [Doc -> Stored] /\ answer \in [Doc -> Stored]

FilingType ==
  /\ filing \in [Doc -> {"none", "pending", "filed", "failed"}]
  /\ attempts \in [Doc -> Nat] /\ alerts \in [Doc -> SUBSET Nat]

QueueType == renders \in [Doc -> Nat] /\ answers \in [Doc -> Nat]

HandlerType ==
  /\ step \in [Worker -> Step] /\ job \in [Worker -> {"none", "render", "answer"}]
  /\ on \in [Worker -> Doc \cup {NoDoc}] /\ copy \in [Worker -> Stored]
  /\ locked \subseteq Worker

CountType ==
  /\ deferred \subseteq Doc /\ stranded \subseteq Doc
  /\ retries \in 0 .. MaxRetries /\ crashes \in 0 .. MaxFaults /\ overlaps \in 0 .. MaxFaults
-----------------------------------------------------------------------------
LEMMA Parts ==
  TypeOK <=> RowType /\ BytesType /\ FilingType /\ QueueType /\ HandlerType /\ CountType
BY DEF TypeOK, RowType, BytesType, FilingType, QueueType, HandlerType, CountType, Stored

LEMMA PartsNext ==
  TypeOK' <=> RowType' /\ BytesType' /\ FilingType' /\ QueueType' /\ HandlerType' /\ CountType'
BY DEF TypeOK, RowType, BytesType, FilingType, QueueType, HandlerType, CountType, Stored

\* A part whose variables do not change stays well typed.
LEMMA Untouched ==
  ASSUME TypeInv
  PROVE  /\ (UNCHANGED <<row, certificate>>) => RowType'
         /\ (UNCHANGED <<content, library, answer>>) => BytesType'
         /\ (UNCHANGED <<filing, attempts, alerts>>) => FilingType'
         /\ (UNCHANGED queue) => QueueType'
         /\ (UNCHANGED handler) => HandlerType'
         /\ (UNCHANGED <<history, bounds>>) => CountType'
         /\ (UNCHANGED <<status, filing, step, job, on, locked, queue>>) => AtWork'
<1> USE Parts DEF TypeInv
<1>1. (UNCHANGED <<row, certificate>>) => RowType'
  BY DEF row, RowType
<1>2. (UNCHANGED <<content, library, answer>>) => BytesType'
  BY DEF content, BytesType
<1>3. (UNCHANGED <<filing, attempts, alerts>>) => FilingType'
  BY DEF FilingType
<1>4. (UNCHANGED queue) => QueueType'
  BY DEF queue, QueueType
<1>5. (UNCHANGED handler) => HandlerType'
  BY DEF handler, HandlerType
<1>6. (UNCHANGED <<history, bounds>>) => CountType'
  BY DEF history, bounds, CountType
<1>7. (UNCHANGED <<status, filing, step, job, on, locked, queue>>) => AtWork'
  BY DEF queue, AtWork
<1> QED BY <1>1, <1>2, <1>3, <1>4, <1>5, <1>6, <1>7

LEMMA TypeInit == Init => TypeInv
BY DocumentsAssumption DEF Init, TypeInv, TypeOK, AtWork, Status, Step

\* A message handed back is a message about the handler's document.
LEMMA HandBackType ==
  ASSUME TypeInv, NEW w \in Worker, HandBack(w), step[w] # "idle"
  PROVE  /\ QueueType'
         /\ \A d \in Doc : status[d] = "draft" => renders'[d] = 0 /\ answers'[d] = 0
<1>1. on[w] \in Doc /\ status[on[w]] # "draft" /\ renders \in [Doc -> Nat] /\ answers \in [Doc -> Nat]
  BY DEF TypeInv, TypeOK, AtWork
<1>2. \A d \in Doc : status[d] = "draft" => renders[d] = 0 /\ answers[d] = 0
  BY DEF TypeInv, AtWork
<1>3. \/ renders' = renders /\ answers' = answers
      \/ answers' = [answers EXCEPT ![on[w]] = @ + 1] /\ renders' = renders
      \/ renders' = [renders EXCEPT ![on[w]] = @ + 1] /\ answers' = answers
  BY DEF HandBack, queue
<1> QED BY <1>1, <1>2, <1>3 DEF QueueType

LEMMA LeaveType ==
  ASSUME TypeInv, NEW w \in Worker, Leave(w), UNCHANGED <<status, filing>>,
         \A d \in Doc : status[d] = "draft" => renders'[d] = 0 /\ answers'[d] = 0
  PROVE  HandlerType' /\ AtWork'
<1>1. HandlerType'
  BY Parts DEF TypeInv, HandlerType, Leave, Goto, Step, Stored
<1>2. AtWork'
  BY Parts DEF TypeInv, HandlerType, RowType, AtWork, Leave, Goto
<1> QED BY <1>1, <1>2

LEMMA TypeIssue == TypeInv /\ IssueSome => TypeInv'
<1> SUFFICES ASSUME TypeInv, NEW S \in SUBSET Doc, NEW ordered \in BOOLEAN,
                    NEW place \in [S -> 1 .. Cardinality(Doc)], NEW m \in [S -> Mode],
                    Issue(S, place, ordered, m)
             PROVE  TypeInv'
  BY DEF IssueSome
<1> USE Parts DEF TypeInv
<1>1. AtWork'
  BY DEF Issue, AtWork, handler, RowType, QueueType, HandlerType
<1>2. RowType'
  <2>1. ahead' \in [Doc -> SUBSET Doc]
    BY DEF Issue, RowType
  <2>2. mode' \in [Doc -> Mode \cup {"draft"}]
    BY DEF Issue, RowType
  <2>3. status' \in [Doc -> Status] /\ completed' \subseteq Doc
    BY DEF Issue, RowType, Status
  <2> QED BY <2>1, <2>2, <2>3 DEF Issue, RowType
<1>3. FilingType'
  BY DEF Issue, FilingType
<1>4. QueueType'
  BY DEF Issue, QueueType
<1>5. BytesType' /\ HandlerType' /\ CountType'
  BY Untouched DEF Issue
<1> QED BY <1>1, <1>2, <1>3, <1>4, <1>5, PartsNext

LEMMA TypePeople ==
  ASSUME TypeInv, NEW d \in Doc, Act(d) \/ FileEvidence(d)
  PROVE  TypeInv'
<1> USE DocumentsAssumption, Parts DEF TypeInv, row, content, filed, queue, handler, history, bounds, Complete
<1>1. CASE View(d)
  <2>1. RowType'
    BY <1>1 DEF View, RowType, Status
  <2>2. AtWork'
    BY <1>1 DEF View, AtWork, RowType, QueueType, HandlerType, FilingType
  <2>3. BytesType' /\ FilingType' /\ QueueType' /\ HandlerType' /\ CountType'
    BY <1>1, Untouched DEF View
  <2> QED BY <2>1, <2>2, <2>3, PartsNext
<1>2. CASE Sign(d)
  <2>0. hash[d] \in Bytes /\ Append(evidence[d], hash[d]) \in Seq(Bytes)
    BY <1>2 DEF Sign, Rendered, BytesType, RowType
  <2>1. RowType'
    BY <1>2, <2>0 DEF Sign, RowType, Status
  <2>2. AtWork'
    BY <1>2 DEF Sign, Actionable, AtWork, RowType, QueueType, HandlerType, FilingType
  <2>3. BytesType' /\ FilingType' /\ QueueType' /\ HandlerType' /\ CountType'
    BY <1>2, Untouched DEF Sign
  <2> QED BY <2>1, <2>2, <2>3, PartsNext
<1>3. CASE Respond(d)
  <2>1. RowType'
    BY <1>3 DEF Respond, Actionable, RowType, Status
  <2>2. AtWork'
    BY <1>3 DEF Respond, Actionable, AtWork, RowType, QueueType, HandlerType, FilingType
  <2>3. BytesType' /\ FilingType' /\ QueueType' /\ HandlerType' /\ CountType'
    BY <1>3, Untouched DEF Respond, Actionable
  <2> QED BY <2>1, <2>2, <2>3, PartsNext
<1>4. CASE UploadResponse(d)
  <2>1. RowType'
    BY <1>4 DEF UploadResponse, Actionable, RowType, Status
  <2>2. BytesType'
    BY <1>4 DEF UploadResponse, Actionable, BytesType, Stored
  <2>3. QueueType'
    BY <1>4 DEF UploadResponse, Actionable, QueueType
  <2>4. AtWork'
    BY <1>4 DEF UploadResponse, Actionable, AtWork, RowType, QueueType, HandlerType, FilingType
  <2>5. FilingType' /\ HandlerType' /\ CountType'
    BY <1>4, Untouched DEF UploadResponse, Actionable
  <2> QED BY <2>1, <2>2, <2>3, <2>4, <2>5, PartsNext
<1>5. CASE Cancel(d)
  <2>1. RowType'
    BY <1>5 DEF Cancel, RowType, Status
  <2>2. AtWork'
    BY <1>5 DEF Cancel, AtWork, RowType, QueueType, HandlerType, FilingType
  <2>3. BytesType' /\ FilingType' /\ QueueType' /\ HandlerType' /\ CountType'
    BY <1>5, Untouched DEF Cancel
  <2> QED BY <2>1, <2>2, <2>3, PartsNext
<1>6. CASE RetryFiling(d)
  <2>1. FilingType'
    BY <1>6 DEF RetryFiling, SentAgain, FilingType
  <2>2. QueueType'
    BY <1>6 DEF RetryFiling, SentAgain, QueueType
  <2>3. CountType'
    BY <1>6 DEF RetryFiling, SentAgain, CountType
  <2>4. AtWork'
    BY <1>6 DEF RetryFiling, SentAgain, AtWork, RowType, QueueType, HandlerType, FilingType
  <2>5. RowType' /\ BytesType' /\ HandlerType'
    BY <1>6, Untouched DEF RetryFiling, SentAgain
  <2> QED BY <2>1, <2>2, <2>3, <2>4, <2>5, PartsNext
<1>7. CASE FileEvidence(d)
  <2>1. RowType'
    BY <1>7 DEF FileEvidence, RowType, Status
  <2>2. BytesType' /\ FilingType' /\ QueueType' /\ HandlerType' /\ CountType' /\ AtWork'
    BY <1>7, Untouched DEF FileEvidence
  <2> QED BY <2>1, <2>2, PartsNext
<1> QED BY <1>1, <1>2, <1>3, <1>4, <1>5, <1>6, <1>7 DEF Act

LEMMA TypeHandler ==
  ASSUME TypeInv, NEW w \in Worker, Handle(w) \/ Crash(w) \/ LoseLock(w)
  PROVE  TypeInv'
<1> USE DocumentsAssumption, Parts DEF TypeInv, row, content, filed, queue, handler, history, bounds
<1>1. ASSUME NEW d \in Doc, Take(w, d) PROVE TypeInv'
  <2>1. QueueType'
    BY <1>1 DEF Take, Receive, Goto, Staged, QueueType
  <2>2. HandlerType'
    BY <1>1 DEF Take, Receive, Goto, Staged, HandlerType, Step, Stored, BytesType
  <2>3. AtWork'
    BY <1>1 DEF Take, Receive, Goto, Staged, AtWork, RowType, QueueType, HandlerType, FilingType
  <2>4. RowType' /\ BytesType' /\ FilingType' /\ CountType'
    BY <1>1, Untouched DEF Take, Receive, Goto, Staged
  <2> QED BY <2>1, <2>2, <2>3, <2>4, PartsNext
<1>2. ASSUME NEW d \in Doc, TakeAnswer(w, d) PROVE TypeInv'
  <2>1. QueueType'
    BY <1>2 DEF TakeAnswer, Receive, Goto, QueueType
  <2>2. HandlerType'
    BY <1>2 DEF TakeAnswer, Receive, Goto, HandlerType, Step, Stored, BytesType
  <2>3. AtWork'
    BY <1>2 DEF TakeAnswer, Receive, Goto, AtWork, RowType, QueueType, HandlerType, FilingType
  <2>4. RowType' /\ BytesType' /\ FilingType' /\ CountType'
    BY <1>2, Untouched DEF TakeAnswer, Receive, Goto
  <2> QED BY <2>1, <2>2, <2>3, <2>4, PartsNext
<1>3. CASE Stage(w)
  <2>1. BytesType'
    BY <1>3 DEF Stage, Goto, BytesType, Stored
  <2>2. HandlerType'
    BY <1>3 DEF Stage, Goto, HandlerType, Step, Stored, BytesType
  <2>3. AtWork'
    BY <1>3 DEF Stage, Goto, AtWork, RowType, QueueType, HandlerType, FilingType
  <2>4. RowType' /\ FilingType' /\ QueueType' /\ CountType'
    BY <1>3, Untouched DEF Stage, Goto
  <2> QED BY <2>1, <2>2, <2>3, <2>4, PartsNext
<1>4. CASE Defer(w)
  <2>1. HandlerType'
    BY <1>4 DEF Defer, Goto, HandlerType, Step, Stored, BytesType
  <2>2. CountType'
    BY <1>4 DEF Defer, Goto, CountType, HandlerType, AtWork
  <2>3. AtWork'
    BY <1>4 DEF Defer, Goto, AtWork, RowType, QueueType, HandlerType, FilingType
  <2>4. RowType' /\ BytesType' /\ FilingType' /\ QueueType'
    BY <1>4, Untouched DEF Defer, Goto
  <2> QED BY <2>1, <2>2, <2>3, <2>4, PartsNext
<1>5. CASE Store(w)
  <2>1. BytesType'
    BY <1>5 DEF Store, Goto, BytesType, Stored, HandlerType, AtWork
  <2>2. HandlerType'
    BY <1>5 DEF Store, Goto, HandlerType, Step, Stored, BytesType
  <2>3. AtWork'
    BY <1>5 DEF Store, Goto, AtWork, RowType, QueueType, HandlerType, FilingType
  <2>4. RowType' /\ FilingType' /\ QueueType' /\ CountType'
    BY <1>5, Untouched DEF Store, Goto
  <2> QED BY <2>1, <2>2, <2>3, <2>4, PartsNext
<1>6. CASE MarkFiled(w)
  <2>1. BytesType'
    BY <1>6 DEF MarkFiled, Goto, BytesType, Stored, HandlerType, AtWork
  <2>2. FilingType'
    BY <1>6 DEF MarkFiled, Goto, FilingType
  <2>3. HandlerType'
    BY <1>6 DEF MarkFiled, Goto, HandlerType, Step, Stored, BytesType
  <2>4. AtWork'
    BY <1>6 DEF MarkFiled, Goto, AtWork, RowType, QueueType, HandlerType, FilingType
  <2>5. RowType' /\ QueueType' /\ CountType'
    BY <1>6, Untouched DEF MarkFiled, Goto
  <2> QED BY <2>1, <2>2, <2>3, <2>4, <2>5, PartsNext
<1>7. CASE FailAgain(w)
  <2>1. QueueType' /\ \A d \in Doc : status[d] = "draft" => renders'[d] = 0 /\ answers'[d] = 0
    BY <1>7, HandBackType DEF FailAgain
  <2>2. HandlerType' /\ AtWork'
    BY <1>7, <2>1, LeaveType DEF FailAgain
  <2>3. FilingType'
    BY <1>7 DEF FailAgain, FilingType
  <2>4. RowType' /\ BytesType' /\ CountType'
    BY <1>7, Untouched DEF FailAgain
  <2> QED BY <2>1, <2>2, <2>3, <2>4, PartsNext
<1>8. CASE GiveUp(w)
  <2>1. FilingType'
    BY <1>8 DEF GiveUp, Goto, FilingType, HandlerType, AtWork
  <2>2. HandlerType'
    BY <1>8 DEF GiveUp, Goto, HandlerType, Step, Stored, BytesType
  <2>3. AtWork'
    BY <1>8 DEF GiveUp, Goto, AtWork, RowType, QueueType, HandlerType, FilingType
  <2>4. RowType' /\ BytesType' /\ QueueType' /\ CountType'
    BY <1>8, Untouched DEF GiveUp, Goto
  <2> QED BY <2>1, <2>2, <2>3, <2>4, PartsNext
<1>9. CASE GiveUpUnrecorded(w)
  <2>1. HandlerType'
    BY <1>9 DEF GiveUpUnrecorded, Goto, HandlerType, Step, Stored, BytesType
  <2>2. CountType'
    BY <1>9 DEF GiveUpUnrecorded, Goto, CountType, HandlerType, AtWork
  <2>3. AtWork'
    BY <1>9 DEF GiveUpUnrecorded, Goto, AtWork, RowType, QueueType, HandlerType, FilingType
  <2>4. RowType' /\ BytesType' /\ FilingType' /\ QueueType'
    BY <1>9, Untouched DEF GiveUpUnrecorded, Goto
  <2> QED BY <2>1, <2>2, <2>3, <2>4, PartsNext
<1>10. CASE PutAnswer(w)
  <2>1. BytesType'
    BY <1>10 DEF PutAnswer, Goto, BytesType, Stored, HandlerType, AtWork
  <2>2. HandlerType'
    BY <1>10 DEF PutAnswer, Goto, HandlerType, Step, Stored, BytesType
  <2>3. AtWork'
    BY <1>10 DEF PutAnswer, Goto, AtWork, RowType, QueueType, HandlerType, FilingType
  <2>4. RowType' /\ FilingType' /\ QueueType' /\ CountType'
    BY <1>10, Untouched DEF PutAnswer, Goto
  <2> QED BY <2>1, <2>2, <2>3, <2>4, PartsNext
<1>11. CASE Settle(w)
  <2>1. QueueType' /\ \A d \in Doc : status[d] = "draft" => renders'[d] = 0 /\ answers'[d] = 0
    BY <1>11, Untouched DEF Settle, AtWork
  <2>2. HandlerType' /\ AtWork'
    BY <1>11, <2>1, LeaveType DEF Settle
  <2>4. RowType' /\ BytesType' /\ FilingType' /\ CountType'
    BY <1>11, Untouched DEF Settle
  <2> QED BY <2>1, <2>2, <2>4, PartsNext
<1>12. CASE Crash(w)
  <2>1. QueueType' /\ \A d \in Doc : status[d] = "draft" => renders'[d] = 0 /\ answers'[d] = 0
    BY <1>12, HandBackType DEF Crash
  <2>2. HandlerType' /\ AtWork'
    BY <1>12, <2>1, LeaveType DEF Crash
  <2>3. CountType'
    BY <1>12 DEF Crash, CountType
  <2>4. RowType' /\ BytesType' /\ FilingType'
    BY <1>12, Untouched DEF Crash
  <2> QED BY <2>1, <2>2, <2>3, <2>4, PartsNext
<1>13. CASE LoseLock(w)
  <2>1. step[w] # "idle"
    BY <1>13 DEF LoseLock, AtWork
  <2>2. QueueType' /\ \A d \in Doc : status[d] = "draft" => renders'[d] = 0 /\ answers'[d] = 0
    BY <1>13, <2>1, HandBackType DEF LoseLock
  <2>3. HandlerType'
    BY <1>13 DEF LoseLock, HandlerType
  <2>4. AtWork'
    BY <1>13, <2>2 DEF LoseLock, AtWork
  <2>5. CountType'
    BY <1>13 DEF LoseLock, CountType
  <2>6. RowType' /\ BytesType' /\ FilingType'
    BY <1>13, Untouched DEF LoseLock
  <2> QED BY <2>2, <2>3, <2>4, <2>5, <2>6, PartsNext
<1> QED BY <1>1, <1>2, <1>3, <1>4, <1>5, <1>6, <1>7, <1>8, <1>9, <1>10, <1>11, <1>12, <1>13 DEF Handle

LEMMA TypeNext == TypeInv /\ [Next]_vars => TypeInv'
<1>1. ASSUME TypeInv, UNCHANGED vars PROVE TypeInv'
  BY <1>1, Untouched, PartsNext DEF vars, row, content, filed, queue, handler, history, bounds, TypeInv
<1> QED BY <1>1, TypeIssue, TypePeople, TypeHandler DEF Next

LEMMA AlwaysTyped == Spec => []TypeInv
BY TypeInit, TypeNext, PTL DEF Spec

\* Every reachable state of the rows, the queue and the handlers is well typed.
THEOREM TypeCorrect == Spec => []TypeOK
<1>1. TypeInv => TypeOK
  BY DEF TypeInv
<1> QED BY <1>1, AlwaysTyped, PTL
-----------------------------------------------------------------------------
\* What the handlers and the filing of evidence leave alone.
LEMMA PeopleOnly ==
  ASSUME NEW w \in Worker, Handle(w) \/ Crash(w) \/ LoseLock(w)
  PROVE  UNCHANGED row
BY DEF Handle, Crash, LoseLock, Take, TakeAnswer, Stage, Defer, Store, MarkFiled, FailAgain,
       GiveUp, GiveUpUnrecorded, PutAnswer, Settle

\* Only a rendering binds bytes, and only where none are bound or the same are.
LEMMA HashBound ==
  ASSUME TypeInv, [Next]_vars
  PROVE  \/ hash' = hash
         \/ \E w \in Worker, b \in Bytes :
              /\ on[w] \in Doc /\ status[on[w]] # "draft" /\ Binds(on[w], b)
              /\ hash' = [hash EXCEPT ![on[w]] = b]
              /\ UNCHANGED row
<1> USE DEF row, content, filed, queue, handler, history, bounds, vars
<1>1. CASE IssueSome
  BY <1>1 DEF IssueSome, Issue
<1>2. ASSUME NEW d \in Doc, Act(d) \/ FileEvidence(d) PROVE hash' = hash
  BY <1>2 DEF Act, FileEvidence, View, Sign, Respond, UploadResponse, Cancel, RetryFiling
<1>3. ASSUME NEW w \in Worker, Stage(w)
      PROVE  \/ hash' = hash
             \/ \E b \in Bytes :
                  /\ on[w] \in Doc /\ status[on[w]] # "draft" /\ Binds(on[w], b)
                  /\ hash' = [hash EXCEPT ![on[w]] = b]
                  /\ UNCHANGED row
  <2>1. on[w] \in Doc /\ status[on[w]] # "draft"
    BY <1>3 DEF Stage, TypeInv, AtWork
  <2> QED BY <1>3, <2>1 DEF Stage
<1>4. ASSUME NEW w \in Worker, Handle(w) \/ Crash(w) \/ LoseLock(w), ~Stage(w) PROVE hash' = hash
  BY <1>4 DEF Handle, Crash, LoseLock, Take, TakeAnswer, Defer, Store, MarkFiled, FailAgain,
       GiveUp, GiveUpUnrecorded, PutAnswer, Settle
<1>5. CASE UNCHANGED vars
  BY <1>5
<1> QED BY <1>1, <1>2, <1>3, <1>4, <1>5 DEF Next

LEMMA SignaturesInit == Init => SignatureStands
BY DEF Init, SignatureStands

LEMMA SignaturesNext == TypeInv /\ SignatureStands /\ [Next]_vars => SignatureStands'
<1> SUFFICES ASSUME TypeInv, SignatureStands, [Next]_vars PROVE SignatureStands'
  OBVIOUS
<1> USE Parts DEF TypeInv, RowType, BytesType
\* The row, of any action.
<1>1. ASSUME hash' = hash, UNCHANGED row PROVE SignatureStands'
  BY <1>1 DEF row, SignatureStands
<1>2. ASSUME NEW w \in Worker, NEW b \in Bytes, Binds(on[w], b), on[w] \in Doc,
             hash' = [hash EXCEPT ![on[w]] = b], UNCHANGED row
      PROVE  SignatureStands'
  BY <1>2 DEF row, SignatureStands, Binds
<1>3. CASE IssueSome
  <2>1. PICK S \in SUBSET Doc, ordered \in BOOLEAN :
          \E place \in [S -> 1 .. Cardinality(Doc)], m \in [S -> Mode] : Issue(S, place, ordered, m)
    BY <1>3 DEF IssueSome
  <2>2. PICK place \in [S -> 1 .. Cardinality(Doc)], m \in [S -> Mode] : Issue(S, place, ordered, m)
    BY <2>1
  <2>3. hash' = hash /\ evidence' = evidence /\ completed \subseteq completed'
    BY <2>2 DEF Issue, content
  <2>4. \A d \in Doc : status'[d] = "signed" <=> status[d] = "signed"
    BY <2>2 DEF Issue
  <2> QED BY <2>3, <2>4 DEF SignatureStands
<1>4. ASSUME NEW d \in Doc, Act(d) PROVE SignatureStands'
  <2> USE DEF row, content, Complete
  <2>1. CASE View(d)
    BY <1>4, <2>1 DEF View, SignatureStands
  <2>2. CASE Sign(d)
    <3>1. status[d] # "signed" /\ evidence[d] = << >> /\ hash[d] # None
      BY <2>2 DEF Sign, Actionable, Rendered, SignatureStands
    <3>2. Append(evidence[d], hash[d]) = <<hash[d]>>
      BY <3>1
    <3>3. /\ evidence' = [evidence EXCEPT ![d] = <<hash[d]>>] /\ hash' = hash
          /\ status' = [status EXCEPT ![d] = "signed"] /\ completed' = completed \cup {d}
      BY <2>2, <3>2 DEF Sign
    <3> QED BY <3>1, <3>3 DEF SignatureStands
  <2>3. CASE Respond(d)
    BY <1>4, <2>3 DEF Respond, Actionable, SignatureStands
  <2>4. CASE UploadResponse(d)
    BY <1>4, <2>4 DEF UploadResponse, Actionable, SignatureStands
  <2>5. CASE Cancel(d)
    BY <1>4, <2>5 DEF Cancel, SignatureStands
  <2>6. CASE RetryFiling(d)
    BY <1>4, <2>6, <1>1 DEF RetryFiling
  <2> QED BY <1>4, <2>1, <2>2, <2>3, <2>4, <2>5, <2>6 DEF Act
<1>5. ASSUME NEW d \in Doc, FileEvidence(d) PROVE SignatureStands'
  BY <1>5, <1>1 DEF FileEvidence, content
<1>6. ASSUME NEW w \in Worker, Handle(w) \/ Crash(w) \/ LoseLock(w) PROVE SignatureStands'
  BY <1>6, PeopleOnly, HashBound, <1>1, <1>2
<1>7. CASE UNCHANGED vars
  BY <1>7, <1>1 DEF vars, content
<1> QED BY <1>3, <1>4, <1>5, <1>6, <1>7 DEF Next

\* Two tabs signing at once, renderings redelivered: a document is signed exactly
\* when one evidence row stands for it, citing the hash the row still carries.
THEOREM AlwaysSignatureStands == Spec => []SignatureStands
BY SignaturesInit, SignaturesNext, AlwaysTyped, PTL DEF Spec
-----------------------------------------------------------------------------
\* The last attempt is announced when it is counted.
Announced ==
  \A d \in Doc : attempts[d] >= MaxAttempts => MaxAttempts \in alerts[d]

ToldInv == FailureIsTold /\ Announced

LEMMA ToldInit == Init => ToldInv
BY DocumentsAssumption DEF Init, ToldInv, FailureIsTold, Announced

LEMMA ToldNext == TypeInv /\ ToldInv /\ [Next]_vars => ToldInv'
<1> SUFFICES ASSUME TypeInv, ToldInv, [Next]_vars PROVE ToldInv'
  OBVIOUS
<1> USE DocumentsAssumption, Parts
    DEF TypeInv, FilingType, row, content, filed, queue, handler, history, bounds
<1>1. ASSUME UNCHANGED <<filing, attempts, alerts>> PROVE ToldInv'
  BY <1>1 DEF ToldInv, FailureIsTold, Announced
<1>2. CASE IssueSome
  <2>1. attempts' = attempts /\ alerts' = alerts /\ \A d \in Doc : filing'[d] = "failed" => filing[d] = "failed"
    BY <1>2 DEF IssueSome, Issue
  <2> QED BY <2>1 DEF ToldInv, FailureIsTold, Announced
<1>3. ASSUME NEW d \in Doc, Act(d) \/ FileEvidence(d), ~RetryFiling(d) PROVE ToldInv'
  BY <1>3, <1>1 DEF Act, FileEvidence, View, Sign, Respond, UploadResponse, Cancel
<1>4. ASSUME NEW d \in Doc, RetryFiling(d) PROVE ToldInv'
  BY <1>4 DEF RetryFiling, ToldInv, FailureIsTold, Announced
<1>5. ASSUME NEW w \in Worker, MarkFiled(w) PROVE ToldInv'
  BY <1>5 DEF MarkFiled, ToldInv, FailureIsTold, Announced
<1>6. ASSUME NEW w \in Worker, FailAgain(w) PROVE ToldInv'
  <2>1. on[w] \in Doc
    BY <1>6 DEF FailAgain, AtWork
  <2>2. CASE attempts' = attempts
    BY <1>6, <2>2, <1>1 DEF FailAgain
  <2>3. CASE /\ filing[on[w]] # "filed" /\ ~LastAttempt(attempts[on[w]] + 1)
             /\ attempts' = [attempts EXCEPT ![on[w]] = @ + 1]
    <3>1. attempts[on[w]] + 1 < MaxAttempts /\ filing[on[w]] # "failed"
      BY <2>1, <2>3 DEF LastAttempt, ToldInv, FailureIsTold
    <3>2. filing' = filing /\ alerts' = alerts
      BY <1>6 DEF FailAgain
    <3> QED BY <2>1, <2>3, <3>1, <3>2 DEF ToldInv, FailureIsTold, Announced
  <2> QED BY <1>6, <2>2, <2>3 DEF FailAgain
<1>7. ASSUME NEW w \in Worker, GiveUp(w) PROVE ToldInv'
  <2>1. on[w] \in Doc
    BY <1>7 DEF GiveUp, AtWork
  <2> DEFINE d == on[w]
  <2>2. /\ attempts' = [attempts EXCEPT ![d] = attempts[d] + 1]
        /\ filing' = [filing EXCEPT ![d] = "failed"]
        /\ alerts' = [alerts EXCEPT ![d] = alerts[d] \cup {attempts[d] + 1}]
        /\ attempts[d] + 1 >= MaxAttempts
    BY <1>7 DEF GiveUp, LastAttempt
  <2>3. MaxAttempts \in alerts[d] \cup {attempts[d] + 1}
    BY <2>1, <2>2 DEF ToldInv, Announced
  <2> QED BY <2>1, <2>2, <2>3 DEF ToldInv, FailureIsTold, Announced
<1>8. ASSUME NEW w \in Worker, Handle(w) \/ Crash(w) \/ LoseLock(w),
             ~MarkFiled(w), ~FailAgain(w), ~GiveUp(w)
      PROVE  ToldInv'
  BY <1>8, <1>1 DEF Handle, Crash, LoseLock, Take, TakeAnswer, Stage, Defer, Store,
                   GiveUpUnrecorded, PutAnswer, Settle
<1>9. CASE UNCHANGED vars
  BY <1>9, <1>1 DEF vars
<1> QED BY <1>2, <1>3, <1>4, <1>5, <1>6, <1>7, <1>8, <1>9 DEF Next

\* Filing stops in `failed` only after every attempt, with a notice for the
\* administrators, whoever retries it, and however often.
THEOREM AlwaysFailureIsTold == Spec => []FailureIsTold
<1>1. ToldInv => FailureIsTold
  BY DEF ToldInv
<1> QED BY <1>1, ToldInit, ToldNext, AlwaysTyped, PTL DEF Spec
-----------------------------------------------------------------------------
\* A handler without its lock may be one of two, so it does not count: the message
\* of the other one is on the queue, or locked.
Working == {"render", "staged", "stored", "bounced"}

Held(d) == \E w \in locked : on[w] = d /\ step[w] \in Working

Excused(d) == status[d] = "cancelled" \/ d \in deferred \cup stranded

Waits(d) == renders[d] > 0 \/ Held(d) \/ Excused(d)

NeverLost == \A d \in Doc : filing[d] = "pending" => Waits(d)

LEMMA LostInit == Init => NeverLost
BY DEF Init, NeverLost

\* A step that leaves the handlers alone and withdraws nothing from the queue.
LEMMA StillWaits ==
  ASSUME TypeInv, NEW d \in Doc, Waits(d), UNCHANGED <<step, on, locked, deferred, stranded>>,
         renders'[d] \in Nat, renders'[d] >= renders[d],
         status[d] = "cancelled" => status'[d] = "cancelled"
  PROVE  Waits(d)'
<1>1. renders[d] \in Nat
  BY Parts DEF TypeInv, QueueType
<1>2. Held(d) => Held(d)'
  BY DEF Held
<1>3. Excused(d) => Excused(d)'
  BY DEF Excused
<1>4. renders[d] > 0 => renders'[d] > 0
  BY <1>1
<1> QED BY <1>2, <1>3, <1>4 DEF Waits

LEMMA LostPeople ==
  ASSUME TypeInv, NeverLost, NEW e \in Doc, Act(e) \/ FileEvidence(e)
  PROVE  NeverLost'
<1> USE Parts DEF TypeInv, RowType, QueueType, row, content, filed, queue, handler, history, bounds, Complete
<1>1. UNCHANGED <<step, on, locked, deferred, stranded>>
  BY DEF Act, FileEvidence, View, Sign, Respond, UploadResponse, Cancel, RetryFiling
<1>2. \A d \in Doc : status[d] = "cancelled" => status'[d] = "cancelled"
  BY DEF Act, FileEvidence, View, Sign, Respond, UploadResponse, Cancel, RetryFiling, Actionable
<1>3. CASE RetryFiling(e)
  <2>1. /\ filing' = [filing EXCEPT ![e] = "pending"]
        /\ renders' = [renders EXCEPT ![e] = @ + 1]
    BY <1>3 DEF RetryFiling, SentAgain
  <2>2. ASSUME NEW d \in Doc, filing'[d] = "pending" PROVE Waits(d)'
    <3>1. CASE d = e
      <4>1. renders'[e] > 0
        BY <2>1
      <4> QED BY <3>1, <4>1 DEF Waits
    <3>2. CASE d # e
      <4>1. filing[d] = "pending" /\ renders'[d] >= renders[d] /\ renders'[d] \in Nat
        BY <2>1, <2>2, <3>2 DEF FilingType
      <4> QED BY <4>1, <1>1, <1>2, StillWaits DEF NeverLost
    <3> QED BY <3>1, <3>2
  <2> QED BY <2>2 DEF NeverLost
<1>4. CASE ~RetryFiling(e)
  <2>1. filing' = filing /\ renders' = renders
    BY <1>4 DEF Act, FileEvidence, View, Sign, Respond, UploadResponse, Cancel
  <2>2. \A d \in Doc : renders'[d] >= renders[d] /\ renders'[d] \in Nat
    BY <2>1
  <2> QED BY <1>1, <1>2, <2>1, <2>2, StillWaits DEF NeverLost
<1> QED BY <1>3, <1>4

LEMMA LostIssue == TypeInv /\ NeverLost /\ IssueSome => NeverLost'
<1> SUFFICES ASSUME TypeInv, NeverLost, IssueSome, NEW d \in Doc, filing'[d] = "pending"
             PROVE  Waits(d)'
  BY DEF NeverLost
<1> USE Parts DEF TypeInv, RowType, QueueType
<1>1. PICK S \in SUBSET Doc, ordered \in BOOLEAN :
        \E place \in [S -> 1 .. Cardinality(Doc)], m \in [S -> Mode] : Issue(S, place, ordered, m)
  BY DEF IssueSome
<1>2. PICK place \in [S -> 1 .. Cardinality(Doc)], m \in [S -> Mode] : Issue(S, place, ordered, m)
  BY <1>1
<1>3. /\ renders' = [c \in Doc |-> IF c \in S THEN renders[c] + 1 ELSE renders[c]]
      /\ filing' = [c \in Doc |-> IF c \in S THEN "pending" ELSE filing[c]]
      /\ status' = [c \in Doc |-> IF c \in S THEN "issued" ELSE status[c]]
      /\ \A c \in S : status[c] = "draft"
  BY <1>2 DEF Issue
<1>4. UNCHANGED <<step, on, locked, deferred, stranded>>
  BY <1>2 DEF Issue, handler, history
<1>5. CASE d \in S
  <2>1. renders'[d] > 0
    BY <1>3, <1>5
  <2> QED BY <2>1 DEF Waits
<1>6. CASE d \notin S
  <2>1. filing[d] = "pending" /\ renders'[d] >= renders[d] /\ renders'[d] \in Nat /\ status'[d] = status[d]
    BY <1>3, <1>6
  <2> QED BY <2>1, <1>4, StillWaits DEF NeverLost
<1> QED BY <1>5, <1>6

\* A handler that hands its message back, or whose message was handed back before.
LEMMA LostHandBack ==
  ASSUME TypeInv, NeverLost, NEW w \in Worker, step[w] # "idle", HandBack(w),
         locked' = locked \ {w}, \A v \in Worker \ {w} : step'[v] = step[v] /\ on'[v] = on[v],
         UNCHANGED <<status, filing, deferred, stranded>>
  PROVE  NeverLost'
<1> SUFFICES ASSUME NEW d \in Doc, filing[d] = "pending" PROVE Waits(d)'
  BY DEF NeverLost
<1> USE Parts DEF TypeInv, QueueType, HandlerType
<1>1. on[w] \in Doc
  BY DEF AtWork
<1>2. \/ UNCHANGED queue /\ w \notin locked
      \/ answers' = [answers EXCEPT ![on[w]] = @ + 1] /\ renders' = renders /\ job[w] = "answer"
      \/ renders' = [renders EXCEPT ![on[w]] = @ + 1]
  BY DEF HandBack
<1>3. renders'[d] >= renders[d] /\ {renders[d], renders'[d]} \subseteq Nat
  BY <1>1, <1>2 DEF queue
<1>4. CASE renders[d] > 0
  BY <1>3, <1>4 DEF Waits
<1>5. CASE Excused(d)
  BY <1>5 DEF Waits, Excused
<1>6. CASE Held(d)
  <2>1. PICK v \in locked : on[v] = d /\ step[v] \in Working
    BY <1>6 DEF Held
  <2>2. CASE v # w
    BY <2>1, <2>2 DEF Held, Waits
  <2>3. CASE v = w
    <3>1. job[w] = "render"
      BY <2>1, <2>3 DEF AtWork, Working
    <3>2. renders' = [renders EXCEPT ![d] = @ + 1]
      BY <1>2, <2>1, <2>3, <3>1
    <3>3. renders'[d] > 0
      BY <3>2
    <3> QED BY <3>3 DEF Waits
  <2> QED BY <2>2, <2>3
<1> QED BY <1>4, <1>5, <1>6 DEF NeverLost, Waits

\* A handler that goes on to `s`: at work still, or through with the filing.
LEMMA LostGoto ==
  ASSUME TypeInv, NeverLost, NEW w \in Worker, NEW s \in Step, Goto(w, s),
         UNCHANGED <<status, on, locked, renders>>,
         deferred \subseteq deferred', stranded \subseteq stranded',
         \A d \in Doc : filing'[d] = "pending" => filing[d] = "pending",
         step[w] \in Working => s \in Working \/ filing'[on[w]] # "pending" \/ Excused(on[w])'
  PROVE  NeverLost'
<1> SUFFICES ASSUME NEW d \in Doc, filing'[d] = "pending" PROVE Waits(d)'
  BY DEF NeverLost
<1> USE Parts DEF TypeInv, QueueType, HandlerType
<1>1. filing[d] = "pending" /\ Waits(d)
  BY DEF NeverLost
<1>2. CASE renders[d] > 0
  BY <1>2 DEF Waits
<1>3. CASE Excused(d)
  BY <1>3 DEF Waits, Excused
<1>4. CASE Held(d)
  <2>1. PICK v \in locked : on[v] = d /\ step[v] \in Working
    BY <1>4 DEF Held
  <2>2. CASE v # w \/ s \in Working
    BY <2>1, <2>2 DEF Held, Waits, Goto
  <2>3. CASE v = w /\ s \notin Working
    BY <2>1, <2>3 DEF Waits
  <2> QED BY <2>2, <2>3
<1> QED BY <1>1, <1>2, <1>3, <1>4 DEF Waits

LEMMA LostTake ==
  ASSUME TypeInv, NeverLost, NEW w \in Worker, NEW e \in Doc, Take(w, e) \/ TakeAnswer(w, e)
  PROVE  NeverLost'
<1> SUFFICES ASSUME NEW d \in Doc, filing'[d] = "pending" PROVE Waits(d)'
  BY DEF NeverLost
<1> USE Parts DEF TypeInv, QueueType, HandlerType
<1>1. /\ step[w] = "idle" /\ locked' = locked \cup {w} /\ on' = [on EXCEPT ![w] = e]
      /\ UNCHANGED <<filing, status, deferred, stranded>>
      /\ \A v \in Worker \ {w} : step'[v] = step[v]
  BY DEF Take, TakeAnswer, Receive, Goto, filed, row, history
<1>2. w \notin locked
  BY <1>1 DEF AtWork
<1>3. Held(d) => Held(d)'
  BY <1>1, <1>2 DEF Held
<1>4. Excused(d) => Excused(d)'
  BY <1>1 DEF Excused
<1>5. filing[d] = "pending" /\ Waits(d)
  BY <1>1 DEF NeverLost
<1>6. CASE TakeAnswer(w, e)
  <2>1. renders' = renders
    BY <1>6 DEF TakeAnswer
  <2> QED BY <2>1, <1>3, <1>4, <1>5 DEF Waits
<1>7. CASE Take(w, e)
  <2>1. CASE d # e
    <3>1. renders'[d] = renders[d]
      BY <1>7, <2>1 DEF Take
    <3> QED BY <3>1, <1>3, <1>4, <1>5 DEF Waits
  <2>2. CASE d = e /\ status[d] = "cancelled"
    BY <2>2, <1>1 DEF Waits, Excused
  <2>3. CASE d = e /\ status[d] # "cancelled"
    <3>1. step'[w] \in Working
      BY <1>5, <1>7, <2>3 DEF Take, Goto, Working
    <3>2. Held(d)'
      BY <3>1, <1>1, <2>3 DEF Held
    <3> QED BY <3>2 DEF Waits
  <2> QED BY <2>1, <2>2, <2>3
<1> QED BY <1>6, <1>7

LEMMA LostHandler ==
  ASSUME TypeInv, NeverLost, NEW w \in Worker, Handle(w) \/ Crash(w) \/ LoseLock(w)
  PROVE  NeverLost'
<1> USE Parts DEF TypeInv, row, content, filed, queue, handler, history, bounds
<1>1. CASE \E d \in Doc : Take(w, d) \/ TakeAnswer(w, d)
  BY <1>1, LostTake
<1>2. CASE Stage(w)
  BY <1>2, LostGoto DEF Stage, Step, Working
<1>3. CASE Defer(w)
  <2>1. Excused(on[w])'
    BY <1>3 DEF Defer, Excused
  <2> QED BY <1>3, <2>1, LostGoto DEF Defer, Step
<1>4. CASE Store(w)
  BY <1>4, LostGoto DEF Store, Step, Working
<1>5. CASE MarkFiled(w)
  <2>1. filing'[on[w]] # "pending" /\ \A d \in Doc : filing'[d] = "pending" => filing[d] = "pending"
    BY <1>5 DEF MarkFiled, AtWork, FilingType
  <2> QED BY <1>5, <2>1, LostGoto DEF MarkFiled, Step
<1>6. CASE FailAgain(w)
  BY <1>6, LostHandBack DEF FailAgain, Leave, Goto, HandlerType
<1>7. CASE GiveUp(w)
  <2>1. filing'[on[w]] # "pending" /\ \A d \in Doc : filing'[d] = "pending" => filing[d] = "pending"
    BY <1>7 DEF GiveUp, AtWork, FilingType
  <2> QED BY <1>7, <2>1, LostGoto DEF GiveUp, Step
<1>8. CASE GiveUpUnrecorded(w)
  <2>1. Excused(on[w])'
    BY <1>8 DEF GiveUpUnrecorded, Excused
  <2> QED BY <1>8, <2>1, LostGoto DEF GiveUpUnrecorded, Step
<1>9. CASE PutAnswer(w)
  BY <1>9, LostGoto DEF PutAnswer, Step, Working
<1>10. CASE Settle(w)
  <2>1. /\ UNCHANGED <<filing, status, deferred, stranded, renders>> /\ locked' = locked \ {w}
        /\ \A v \in Worker \ {w} : step'[v] = step[v] /\ on'[v] = on[v]
        /\ step[w] = "complete"
    BY <1>10 DEF Settle, Leave, Goto, HandlerType
  <2>2. \A d \in Doc : Held(d) => Held(d)'
    BY <2>1 DEF Held, Working, HandlerType
  <2>3. \A d \in Doc : Waits(d) => Waits(d)'
    BY <2>1, <2>2 DEF Waits, Excused
  <2> QED BY <2>1, <2>3 DEF NeverLost
<1>11. CASE Crash(w)
  BY <1>11, LostHandBack DEF Crash, Leave, Goto, HandlerType
<1>12. CASE LoseLock(w)
  BY <1>12, LostHandBack DEF LoseLock, AtWork
<1> QED BY <1>1, <1>2, <1>3, <1>4, <1>5, <1>6, <1>7, <1>8, <1>9, <1>10, <1>11, <1>12 DEF Handle

LEMMA LostNext == TypeInv /\ NeverLost /\ [Next]_vars => NeverLost'
<1>1. ASSUME TypeInv, NeverLost, UNCHANGED vars PROVE NeverLost'
  BY <1>1 DEF vars, row, content, filed, queue, handler, history, NeverLost, Waits, Held, Excused
<1> QED BY <1>1, LostIssue, LostPeople, LostHandler DEF Next

\* A filing that waits is on the queue or in a handler's hands, through crashes,
\* expired locks and retries; but for a document withdrawn, put off or stranded.
THEOREM AlwaysFilingNeverSilent == Spec => []FilingNeverSilent
<1>1. TypeInv /\ NeverLost => FilingNeverSilent
  BY Parts DEF TypeInv, HandlerType, NeverLost, Waits, Held, Excused, Working, FilingNeverSilent, Handled
<1> QED BY <1>1, LostInit, LostNext, AlwaysTyped, PTL DEF Spec
-----------------------------------------------------------------------------
\* What is done and yet open to be viewed asked for nothing.
ForInformation ==
  \A d \in Doc : d \in completed =>
    status[d] # "draft" /\ (status[d] \in {"issued", "viewed"} => mode[d] = "no_action")

LEMMA InformationNext == TypeInv /\ ForInformation /\ [Next]_vars => ForInformation'
<1> SUFFICES ASSUME TypeInv, ForInformation, [Next]_vars PROVE ForInformation'
  OBVIOUS
<1> USE Parts DEF TypeInv, RowType, row, content, filed, queue, handler, history, bounds, Complete
<1>1. CASE IssueSome
  <2>1. PICK S \in SUBSET Doc, ordered \in BOOLEAN :
          \E place \in [S -> 1 .. Cardinality(Doc)], m \in [S -> Mode] : Issue(S, place, ordered, m)
    BY <1>1 DEF IssueSome
  <2>2. PICK place \in [S -> 1 .. Cardinality(Doc)], m \in [S -> Mode] : Issue(S, place, ordered, m)
    BY <2>1
  <2>3. /\ status' = [d \in Doc |-> IF d \in S THEN "issued" ELSE status[d]]
        /\ mode' = [d \in Doc |-> IF d \in S THEN m[d] ELSE mode[d]]
        /\ completed' = completed \cup { d \in S : m[d] = "no_action" }
        /\ \A d \in S : status[d] = "draft"
    BY <2>2 DEF Issue
  <2>4. ASSUME NEW d \in S, d \in completed' PROVE mode'[d] = "no_action"
    BY <2>3, <2>4 DEF ForInformation
  <2> QED BY <2>3, <2>4 DEF ForInformation
<1>2. ASSUME NEW d \in Doc, Act(d) \/ FileEvidence(d) PROVE ForInformation'
  <2>1. CASE View(d)
    <3>1. mode' = mode /\ status[d] = "issued"
      BY <2>1 DEF View
    <3>2. \/ completed' = completed \cup {d} /\ status' = [status EXCEPT ![d] = "completed"]
          \/ completed' = completed \ {d} /\ status' = [status EXCEPT ![d] = "viewed"]
      BY <2>1 DEF View
    <3> QED BY <3>1, <3>2 DEF ForInformation
  <2>2. CASE Sign(d)
    BY <2>2 DEF Sign, ForInformation
  <2>3. CASE Respond(d) \/ UploadResponse(d)
    BY <2>3 DEF Respond, UploadResponse, ForInformation
  <2>4. CASE Cancel(d)
    BY <2>4 DEF Cancel, ForInformation
  <2>5. CASE RetryFiling(d) \/ FileEvidence(d)
    BY <2>5 DEF RetryFiling, FileEvidence, ForInformation
  <2> QED BY <1>2, <2>1, <2>2, <2>3, <2>4, <2>5 DEF Act
<1>3. ASSUME NEW w \in Worker, Handle(w) \/ Crash(w) \/ LoseLock(w) PROVE ForInformation'
  BY <1>3, PeopleOnly DEF ForInformation
<1>4. CASE UNCHANGED vars
  BY <1>4 DEF vars, ForInformation
<1> QED BY <1>1, <1>2, <1>3, <1>4 DEF Next

\* Phase, unfolded.
LEMMA PhaseIs ==
  ASSUME NEW d \in Doc, status[d] \in Status
  PROVE  /\ status[d] = "draft" => Phase(d) = "draft"
         /\ status[d] = "cancelled" => Phase(d) = "withdrawn"
         /\ status[d] \in {"signed", "completed"} => Phase(d) = "answered"
         /\ status[d] \in {"issued", "viewed"} =>
              Phase(d) = IF mode[d] = "no_action" THEN "info" ELSE "open"
BY DEF Phase, Status

LEMMA PhaseNext ==
  ASSUME NEW d \in Doc, status'[d] \in Status
  PROVE  /\ status'[d] = "draft" => Phase(d)' = "draft"
         /\ status'[d] = "cancelled" => Phase(d)' = "withdrawn"
         /\ status'[d] \in {"signed", "completed"} => Phase(d)' = "answered"
         /\ status'[d] \in {"issued", "viewed"} =>
              Phase(d)' = IF mode'[d] = "no_action" THEN "info" ELSE "open"
BY DEF Phase, Status

SignedOn(d) == IF evidence[d] = << >> THEN None ELSE evidence[d][1]

PhaseOf  == [d \in Doc |-> Phase(d)]
SignedOf == [d \in Doc |-> SignedOn(d)]

Mapped == Promise!Next \/ UNCHANGED <<PhaseOf, ahead, hash, SignedOf>>

LEMMA PhaseKept ==
  ASSUME UNCHANGED row
  PROVE  UNCHANGED <<PhaseOf, ahead, SignedOf>>
<1>1. \A d \in Doc : Phase(d)' = Phase(d)
  BY DEF row, Phase
<1>2. \A d \in Doc : SignedOn(d)' = SignedOn(d)
  BY DEF row, SignedOn
<1>3. PhaseOf' = PhaseOf
  BY <1>1 DEF PhaseOf
<1>4. SignedOf' = SignedOf
  BY <1>2 DEF SignedOf
<1> QED BY <1>3, <1>4 DEF row

\* A document whose status becomes `s` is in phase `p` from then on; the others
\* stay where they were.
LEMMA OnePhase ==
  ASSUME TypeInv, TypeInv', NEW d \in Doc, NEW s \in Status, NEW p,
         status' = [status EXCEPT ![d] = s], mode' = mode,
         Phase(d)' = p
  PROVE  PhaseOf' = [PhaseOf EXCEPT ![d] = p]
<1>1. \A e \in Doc : e # d => status'[e] = status[e]
  BY DEF TypeInv, TypeOK
<1>2. \A e \in Doc : e # d => Phase(e)' = Phase(e)
  BY <1>1 DEF Phase
<1> QED BY <1>2 DEF PhaseOf

\* The document that is next is next in IssuedDocuments, too.
LEMMA TurnIs ==
  ASSUME TypeInv, ForInformation, NEW d \in Doc, ~SequenceLocked(d)
  PROVE  \A e \in ahead[d] : PhaseOf[e] # "open"
<1> SUFFICES ASSUME NEW e \in ahead[d] PROVE PhaseOf[e] # "open"
  OBVIOUS
<1>1. e \in Doc /\ status[e] \in Status
  BY DEF TypeInv, TypeOK
<1>2. e \in completed \/ status[e] = "cancelled"
  BY DEF SequenceLocked
<1>3. Phase(e) # "open"
  BY <1>1, <1>2, PhaseIs DEF ForInformation, Status
<1> QED BY <1>1, <1>3 DEF PhaseOf

LEMMA MappedIssue == ASSUME TypeInv, TypeInv', IssueSome PROVE Mapped
<1> USE Parts DEF TypeInv, RowType
<1>1. PICK S \in SUBSET Doc, ordered \in BOOLEAN :
        \E place \in [S -> 1 .. Cardinality(Doc)], m \in [S -> Mode] : Issue(S, place, ordered, m)
  BY DEF IssueSome
<1>2. PICK place \in [S -> 1 .. Cardinality(Doc)], m \in [S -> Mode] : Issue(S, place, ordered, m)
  BY <1>1
<1> DEFINE info == { d \in S : m[d] = "no_action" }
<1>3. /\ status' = [d \in Doc |-> IF d \in S THEN "issued" ELSE status[d]]
      /\ mode' = [d \in Doc |-> IF d \in S THEN m[d] ELSE mode[d]]
      /\ ahead' = [d \in Doc |-> IF d \in S
                     THEN { e \in S : ordered /\ place[e] < place[d] } ELSE ahead[d]]
      /\ UNCHANGED <<evidence, hash>>
      /\ \A d \in S : status[d] = "draft"
  BY <1>2 DEF Issue, content
<1>4. \A d \in S : PhaseOf[d] = "draft"
  BY <1>3, PhaseIs DEF PhaseOf
<1>5. PhaseOf' = [d \in Doc |-> IF d \notin S THEN PhaseOf[d] ELSE IF d \in info THEN "info" ELSE "open"]
  <2>1. ASSUME NEW d \in Doc, d \notin S PROVE Phase(d)' = PhaseOf[d]
    BY <1>3, <2>1 DEF Phase, PhaseOf
  <2>2. ASSUME NEW d \in S PROVE Phase(d)' = IF d \in info THEN "info" ELSE "open"
    <3>1. status'[d] = "issued" /\ status'[d] \in Status /\ mode'[d] = m[d]
      BY <1>3 DEF Status
    <3> QED BY <3>1, PhaseNext
  <2> QED BY <2>1, <2>2 DEF PhaseOf
<1>6. \A d \in Doc : IF d \in S THEN d \notin ahead'[d] ELSE ahead'[d] = ahead[d]
  <2>1. ASSUME NEW d \in S PROVE d \notin ahead'[d]
    <3>1. place[d] \in Int
      BY DocumentsAssumption, FS_CardinalityType
    <3>2. ~(place[d] < place[d])
      BY <3>1
    <3>3. ahead'[d] = { e \in S : ordered /\ place[e] < place[d] }
      BY <1>3
    <3> QED BY <3>2, <3>3
  <2> QED BY <1>3, <2>1
<1>7. SignedOf' = SignedOf
  <2>1. \A d \in Doc : SignedOn(d)' = SignedOn(d)
    BY <1>3 DEF SignedOn
  <2> QED BY <2>1 DEF SignedOf
<1>8. ahead' \in [Doc -> SUBSET Doc]
  BY PartsNext
<1>9. Promise!Issue(S, info)
  BY <1>3, <1>4, <1>5, <1>6, <1>7, <1>8 DEF Promise!Issue, PhaseOf, SignedOf, SignedOn
<1>10. info \in SUBSET Doc
  OBVIOUS
<1> QED BY <1>9, <1>10 DEF Mapped, Promise!Next

LEMMA MappedPeople ==
  ASSUME TypeInv, TypeInv', SignatureStands, ForInformation, NEW d \in Doc, Act(d) \/ FileEvidence(d)
  PROVE  Mapped
<1> USE Parts DEF TypeInv, RowType, row, content, filed, queue, handler, history, bounds, Complete
<1>1. \A e \in Doc : e \in Doc /\ status[e] \in Status /\ status'[e] \in Status
  BY PartsNext
<1>2. (UNCHANGED evidence) => SignedOf' = SignedOf
  <2>1. (UNCHANGED evidence) => \A e \in Doc : SignedOn(e)' = SignedOn(e)
    BY DEF SignedOn
  <2> QED BY <2>1 DEF SignedOf
<1>3. (mode[d] # "no_action" /\ status[d] \in {"issued", "viewed"}) => PhaseOf[d] = "open"
  BY PhaseIs DEF PhaseOf
\* Answered, but not by signing.
<1>4. ASSUME status' = [status EXCEPT ![d] = "completed"], UNCHANGED <<mode, ahead, hash, evidence>>,
             PhaseOf[d] = "open", ~SequenceLocked(d)
      PROVE  Mapped
  <2>1. Phase(d)' = "answered"
    BY <1>1, <1>4, PhaseNext
  <2>2. PhaseOf' = [PhaseOf EXCEPT ![d] = "answered"]
    BY <1>4, <2>1, OnePhase DEF Status
  <2>3. Promise!Answer(d)
    BY <1>2, <1>4, <2>2, TurnIs DEF Promise!Answer, Promise!Turn, PhaseOf, SignedOf, SignedOn
  <2> QED BY <2>3 DEF Mapped, Promise!Next
<1>5. CASE View(d)
  <2>1. CASE mode[d] = "read_only"
    BY <1>3, <1>4, <1>5, <2>1 DEF View
  <2>2. CASE mode[d] # "read_only"
    <3>1. /\ status' = [status EXCEPT ![d] = "viewed"] /\ status[d] = "issued"
          /\ UNCHANGED <<mode, ahead, hash, evidence>>
      BY <1>5, <2>2 DEF View
    <3>2. Phase(d)' = Phase(d)
      BY <1>1, <3>1, PhaseIs, PhaseNext
    <3>3. PhaseOf' = [PhaseOf EXCEPT ![d] = Phase(d)]
      BY <3>1, <3>2, OnePhase DEF Status
    <3>4. PhaseOf' = PhaseOf
      BY <3>3 DEF PhaseOf
    <3> QED BY <1>2, <3>1, <3>4 DEF Mapped
  <2> QED BY <2>1, <2>2
<1>6. CASE Sign(d)
  <2>1. /\ status' = [status EXCEPT ![d] = "signed"] /\ status[d] \in {"issued", "viewed"}
        /\ mode[d] = "sign" /\ ~SequenceLocked(d) /\ hash[d] # None
        /\ evidence' = [evidence EXCEPT ![d] = Append(evidence[d], hash[d])]
        /\ UNCHANGED <<mode, ahead, hash>>
    BY <1>6 DEF Sign, Actionable, Rendered
  <2>2. evidence[d] = << >>
    BY <2>1 DEF SignatureStands
  <2>3. SignedOn(d)' = hash[d]
    <3>1. evidence'[d] = <<hash[d]>>
      BY <2>1, <2>2
    <3> QED BY <3>1 DEF SignedOn
  <2>4. SignedOf' = [SignedOf EXCEPT ![d] = hash[d]]
    <3>1. \A e \in Doc : e # d => evidence'[e] = evidence[e]
      BY <2>1
    <3>2. \A e \in Doc : e # d => SignedOn(e)' = SignedOn(e)
      BY <3>1 DEF SignedOn
    <3> QED BY <2>3, <3>2 DEF SignedOf
  <2>5. Phase(d)' = "answered"
    BY <1>1, <2>1, PhaseNext
  <2>6. PhaseOf' = [PhaseOf EXCEPT ![d] = "answered"]
    BY <2>1, <2>5, OnePhase DEF Status
  <2>7. PhaseOf[d] = "open"
    BY <1>3, <2>1
  <2>8. Promise!Sign(d)
    BY <2>1, <2>4, <2>6, <2>7, TurnIs DEF Promise!Sign, Promise!Turn, PhaseOf, SignedOf, SignedOn
  <2> QED BY <2>8 DEF Mapped, Promise!Next
<1>7. CASE Respond(d) \/ UploadResponse(d)
  BY <1>3, <1>4, <1>7 DEF Respond, UploadResponse, Actionable
<1>8. CASE Cancel(d)
  <2>1. /\ status' = [status EXCEPT ![d] = "cancelled"] /\ status[d] \in {"draft", "issued", "viewed"}
        /\ UNCHANGED <<mode, ahead, hash, evidence>>
    BY <1>8 DEF Cancel
  <2>2. Phase(d)' = "withdrawn"
    BY <1>1, <2>1, PhaseNext
  <2>3. PhaseOf' = [PhaseOf EXCEPT ![d] = "withdrawn"]
    BY <2>1, <2>2, OnePhase DEF Status
  <2>4. PhaseOf[d] \in {"draft", "open", "info"}
    BY <1>1, <2>1, PhaseIs DEF PhaseOf
  <2>5. Promise!Withdraw(d)
    BY <1>2, <2>1, <2>3, <2>4 DEF Promise!Withdraw, PhaseOf, SignedOf, SignedOn
  <2> QED BY <2>5 DEF Mapped, Promise!Next
<1>9. CASE RetryFiling(d) \/ FileEvidence(d)
  BY <1>9, PhaseKept DEF RetryFiling, FileEvidence, Mapped
<1> QED BY <1>5, <1>6, <1>7, <1>8, <1>9 DEF Act

LEMMA MappedHandler ==
  ASSUME TypeInv, TypeInv', NEW v \in Worker, Handle(v) \/ Crash(v) \/ LoseLock(v)
  PROVE  Mapped
<1>1. UNCHANGED row
  BY PeopleOnly
<1>2. UNCHANGED <<PhaseOf, ahead, SignedOf>>
  BY <1>1, PhaseKept
<1>3. CASE hash' = hash
  BY <1>2, <1>3 DEF Mapped
<1>4. CASE \E w \in Worker, b \in Bytes :
             /\ on[w] \in Doc /\ status[on[w]] # "draft" /\ Binds(on[w], b)
             /\ hash' = [hash EXCEPT ![on[w]] = b]
             /\ UNCHANGED row
  <2>1. PICK w \in Worker, b \in Bytes :
          /\ on[w] \in Doc /\ status[on[w]] # "draft" /\ Binds(on[w], b)
          /\ hash' = [hash EXCEPT ![on[w]] = b]
    BY <1>4
  <2>2. CASE hash[on[w]] = b
    BY <1>3, <2>1, <2>2 DEF TypeInv, TypeOK
  <2>3. CASE hash[on[w]] = None
    <3>1. status[on[w]] \in Status
      BY <2>1 DEF TypeInv, TypeOK
    <3>2. Phase(on[w]) # "draft"
      BY <2>1, <3>1, PhaseIs DEF Status
    <3>3. Promise!Bind(on[w], b)
      BY <1>2, <2>1, <2>3, <3>2 DEF Promise!Bind, PhaseOf, SignedOf, SignedOn
    <3> QED BY <2>1, <3>3 DEF Mapped, Promise!Next
  <2> QED BY <2>1, <2>2, <2>3 DEF Binds
<1>5. [Next]_vars
  BY DEF Next
<1> QED BY <1>3, <1>4, <1>5, HashBound

LEMMA MappedNext ==
  TypeInv /\ TypeInv' /\ SignatureStands /\ ForInformation /\ [Next]_vars =>
    [Promise!Next]_<<PhaseOf, ahead, hash, SignedOf>>
<1>1. (UNCHANGED vars) => UNCHANGED <<PhaseOf, ahead, hash, SignedOf>>
  BY PhaseKept DEF vars, content
<1> QED BY <1>1, MappedIssue, MappedPeople, MappedHandler DEF Next, Mapped

\* The engine implements IssuedDocuments: a document is answered once and in turn,
\* its bytes are bound once, and a signature is on the bytes bound.
THEOREM IssuedDocumentsImplemented == Spec => ImplementsIssuedDocuments
<1>1. Init => ForInformation /\ Promise!Init
  <2>1. Init => ForInformation
    BY DEF Init, ForInformation
  <2>2. ASSUME Init PROVE Promise!Init
    <3>1. \A d \in Doc : Phase(d) = "draft"
      BY <2>2 DEF Init, Phase
    <3> QED BY <2>2, <3>1 DEF Init, Promise!Init
  <2> QED BY <2>1, <2>2
<1>2. TypeInv /\ TypeInv' /\ SignatureStands /\ ForInformation /\ [Next]_vars =>
        [Promise!Next]_<<[d \in Doc |-> Phase(d)], ahead, hash,
                         [d \in Doc |-> IF evidence[d] = << >> THEN None ELSE evidence[d][1]]>>
  BY MappedNext DEF PhaseOf, SignedOf, SignedOn
<1> QED BY <1>1, <1>2, InformationNext, AlwaysTyped, AlwaysSignatureStands, PTL
        DEF Spec, ImplementsIssuedDocuments, Promise!Spec
-----------------------------------------------------------------------------
\* The handlers that have a rendering message of d.
Renders(w, d) == on[w] = d /\ job[w] = "render" /\ step[w] # "idle"

\* Until the bytes of a document are bound, one message is about them, on the
\* queue or in the hands of one handler: filing has not failed, so it has not been
\* retried.  Bound bytes stay staged until they are filed.
OneRendering ==
  /\ \A d \in Doc : hash[d] = None =>
       /\ renders[d] \in {0, 1} /\ filing[d] \notin {"failed", "filed"}
       /\ \A w \in Worker : Renders(w, d) =>
            renders[d] = 0 /\ \A v \in Worker : Renders(v, d) => v = w
  /\ \A d \in Doc : hash[d] # None /\ filing[d] # "filed" => pending[d] # None
  /\ \A d \in Doc : status[d] = "draft" => mode[d] = "draft"
  /\ \A w \in Worker : step[w] # "idle" => job[w] \in {"render", "answer"}
  /\ \A w \in Worker : step[w] = "render" => hash[on[w]] = None
  /\ \A w \in Worker : step[w] \in {"staged", "stored", "bounced"} => hash[on[w]] # None

\* Every copy of what is to be filed is of the bytes bound, but for a document that
\* is answered by an upload.
Kept(d) ==
  /\ pending[d] \in {None, hash[d]}
  /\ filing[d] = "filed" => library[d] = hash[d]

Carried(w) ==
  /\ step[w] \in {"staged", "stored", "bounced"} => copy[w] = hash[on[w]]
  /\ step[w] = "stored" => library[on[w]] = hash[on[w]]

SameBytes ==
  /\ OneRendering
  /\ \A d \in Doc : mode[d] # "upload" => Kept(d)
  /\ \A w \in Worker : step[w] # "idle" /\ mode[on[w]] # "upload" => Carried(w)

FiledInv == overlaps = 0 => SameBytes

LEMMA FiledInit == Init => FiledInv
BY DEF Init, FiledInv, SameBytes, OneRendering, Kept, Carried, Renders

\* Steps that touch neither bytes nor filing nor handlers.
LEMMA FiledFrame ==
  ASSUME SameBytes, UNCHANGED <<mode, content, filing, library, renders, step, job, on, copy>>,
         \A d \in Doc : status'[d] = "draft" => status[d] = "draft"
  PROVE  SameBytes'
BY DEF content, SameBytes, OneRendering, Kept, Carried, Renders

LEMMA FiledIssue == ASSUME TypeInv, SameBytes, IssueSome PROVE SameBytes'
<1> USE Parts DEF TypeInv, RowType, QueueType, FilingType
<1>1. PICK S \in SUBSET Doc, ordered \in BOOLEAN :
        \E place \in [S -> 1 .. Cardinality(Doc)], m \in [S -> Mode] : Issue(S, place, ordered, m)
  BY DEF IssueSome
<1>2. PICK place \in [S -> 1 .. Cardinality(Doc)], m \in [S -> Mode] : Issue(S, place, ordered, m)
  BY <1>1
<1>3. /\ status' = [d \in Doc |-> IF d \in S THEN "issued" ELSE status[d]]
      /\ mode' = [d \in Doc |-> IF d \in S THEN m[d] ELSE mode[d]]
      /\ filing' = [d \in Doc |-> IF d \in S THEN "pending" ELSE filing[d]]
      /\ renders' = [d \in Doc |-> IF d \in S THEN renders[d] + 1 ELSE renders[d]]
      /\ UNCHANGED <<hash, pending, library, step, job, on, copy>>
      /\ \A d \in S : status[d] = "draft"
  BY <1>2 DEF Issue, content, handler
<1>4. \A w \in Worker : step[w] # "idle" => on[w] \in Doc \ S
  BY <1>3 DEF AtWork
<1>5. \A d \in S : renders[d] = 0 /\ mode[d] = "draft"
  BY <1>3 DEF AtWork, SameBytes, OneRendering
<1>6. OneRendering'
  <2>1. ASSUME NEW d \in Doc, hash[d] = None
        PROVE  /\ renders'[d] \in {0, 1} /\ filing'[d] \notin {"failed", "filed"}
               /\ \A w \in Worker : Renders(w, d)' =>
                    renders'[d] = 0 /\ \A v \in Worker : Renders(v, d)' => v = w
    BY <1>3, <1>4, <1>5, <2>1 DEF SameBytes, OneRendering, Renders
  <2>2. \A d \in Doc : hash[d] # None /\ filing'[d] # "filed" => pending[d] # None
    <3>1. \A d \in S : filing[d] = "none"
      BY <1>3 DEF AtWork
    <3> QED BY <1>3, <3>1 DEF SameBytes, OneRendering
  <2>3. \A d \in Doc : status'[d] = "draft" => mode'[d] = "draft"
    BY <1>3 DEF SameBytes, OneRendering
  <2> QED BY <1>3, <2>1, <2>2, <2>3 DEF SameBytes, OneRendering
<1>7. \A d \in Doc : mode'[d] # "upload" => Kept(d)'
  BY <1>3, <1>5 DEF SameBytes, Kept
<1>8. \A w \in Worker : step[w] # "idle" /\ mode'[on[w]] # "upload" => Carried(w)'
  BY <1>3, <1>4 DEF SameBytes, Carried
<1> QED BY <1>3, <1>6, <1>7, <1>8 DEF SameBytes

LEMMA FiledPeople ==
  ASSUME TypeInv, SameBytes, NEW d \in Doc, Act(d) \/ FileEvidence(d)
  PROVE  SameBytes'
<1> USE Parts, DocumentsAssumption
    DEF TypeInv, RowType, QueueType, BytesType, row, content, filed, queue, handler, history, bounds, Complete
<1>1. CASE View(d) \/ Sign(d) \/ Respond(d) \/ Cancel(d) \/ FileEvidence(d)
  <2>1. UNCHANGED <<mode, content, filing, library, renders, step, job, on, copy>>
    BY <1>1 DEF View, Sign, Respond, Cancel, FileEvidence
  <2>2. \A e \in Doc : status'[e] = "draft" => status[e] = "draft"
    BY <1>1 DEF View, Sign, Respond, Cancel, FileEvidence
  <2> QED BY <2>1, <2>2, FiledFrame
<1>2. CASE UploadResponse(d)
  <2>1. /\ pending' = [pending EXCEPT ![d] = Upload] /\ mode[d] = "upload"
        /\ UNCHANGED <<mode, hash, filing, library, renders, step, job, on, copy>>
        /\ \A e \in Doc : status'[e] = "draft" => status[e] = "draft"
    BY <1>2 DEF UploadResponse
  <2>2. OneRendering'
    BY <2>1 DEF SameBytes, OneRendering, Renders
  <2>3. \A e \in Doc : mode[e] # "upload" => Kept(e)'
    BY <2>1 DEF SameBytes, Kept
  <2>4. \A w \in Worker : step[w] # "idle" /\ mode[on[w]] # "upload" => Carried(w)'
    BY <2>1 DEF SameBytes, Carried
  <2> QED BY <2>1, <2>2, <2>3, <2>4 DEF SameBytes
<1>3. CASE RetryFiling(d)
  <2>1. /\ filing[d] = "failed" /\ filing' = [filing EXCEPT ![d] = "pending"]
        /\ renders' = [renders EXCEPT ![d] = @ + 1]
        /\ UNCHANGED <<status, mode, content, library, step, job, on, copy>>
    BY <1>3 DEF RetryFiling, SentAgain
  <2>2. hash[d] # None
    BY <2>1 DEF SameBytes, OneRendering
  <2>3. OneRendering'
    BY <2>1, <2>2 DEF SameBytes, OneRendering, Renders, FilingType
  <2>4. \A e \in Doc : mode[e] # "upload" => Kept(e)'
    BY <2>1 DEF SameBytes, Kept, FilingType
  <2>5. \A w \in Worker : step[w] # "idle" /\ mode[on[w]] # "upload" => Carried(w)'
    BY <2>1 DEF SameBytes, Carried
  <2> QED BY <2>1, <2>3, <2>4, <2>5 DEF SameBytes
<1> QED BY <1>1, <1>2, <1>3 DEF Act

\* A handler that leaves, its message handed back or not.
LEMMA FiledLeave ==
  ASSUME TypeInv, SameBytes, NEW w \in Worker, step[w] # "idle", Leave(w),
         UNCHANGED queue \/ HandBack(w),
         UNCHANGED <<status, mode, content, filing, library>>
  PROVE  SameBytes'
<1> USE Parts DEF TypeInv, QueueType, HandlerType, content
<1>1. /\ step' = [step EXCEPT ![w] = "idle"] /\ job' = [job EXCEPT ![w] = "none"]
      /\ on' = [on EXCEPT ![w] = NoDoc] /\ copy' = [copy EXCEPT ![w] = None]
  BY DEF Leave, Goto
<1>2. \/ renders' = renders
      \/ job[w] = "render" /\ renders' = [renders EXCEPT ![on[w]] = @ + 1]
  BY DEF HandBack, queue, SameBytes, OneRendering
<1>3. \A v \in Worker : step'[v] # "idle" =>
        v # w /\ step'[v] = step[v] /\ job'[v] = job[v] /\ on'[v] = on[v] /\ copy'[v] = copy[v]
  BY <1>1
<1>4. on[w] \in Doc
  BY DEF AtWork
<1>5. ASSUME NEW d \in Doc, hash[d] = None
      PROVE  /\ renders'[d] \in {0, 1}
             /\ \A u \in Worker : Renders(u, d)' =>
                  renders'[d] = 0 /\ \A v \in Worker : Renders(v, d)' => v = u
  <2>1. CASE renders'[d] = renders[d]
    BY <1>3, <1>5, <2>1 DEF SameBytes, OneRendering, Renders
  <2>2. CASE renders'[d] # renders[d]
    <3>1. Renders(w, d)
      BY <1>2, <1>4, <2>2 DEF Renders
    <3>2. renders'[d] = 1
      BY <1>2, <1>4, <1>5, <2>2, <3>1 DEF SameBytes, OneRendering, Renders
    <3>3. \A v \in Worker : ~Renders(v, d)'
      BY <1>3, <1>5, <3>1 DEF SameBytes, OneRendering, Renders
    <3> QED BY <3>2, <3>3
  <2> QED BY <2>1, <2>2
<1>6. OneRendering'
  BY <1>3, <1>5 DEF SameBytes, OneRendering
<1>7. \A d \in Doc : mode[d] # "upload" => Kept(d)'
  BY DEF SameBytes, Kept
<1>8. \A v \in Worker : step'[v] # "idle" /\ mode[on'[v]] # "upload" => Carried(v)'
  BY <1>3 DEF SameBytes, Carried
<1> QED BY <1>6, <1>7, <1>8 DEF SameBytes

\* A handler at work that goes on, and touches no bytes.
LEMMA FiledGoto ==
  ASSUME TypeInv, SameBytes, NEW w \in Worker, step[w] # "idle", Goto(w, "complete"),
         UNCHANGED <<status, mode, content, library, renders, job, on, copy>>,
         UNCHANGED filing \/ (step[w] = "bounced" /\ filing' = [filing EXCEPT ![on[w]] = "failed"]
                                /\ filing[on[w]] # "filed")
  PROVE  SameBytes'
<1> USE Parts DEF TypeInv, HandlerType, FilingType, content
<1>1. step' = [step EXCEPT ![w] = "complete"] /\ on[w] \in Doc
  BY DEF Goto, AtWork
<1>2. \A d \in Doc : filing'[d] # filing[d] => hash[d] # None /\ filing[d] # "filed" /\ filing'[d] = "failed"
  BY <1>1 DEF SameBytes, OneRendering
<1>3. \A d \in Doc : \A v \in Worker : Renders(v, d)' = Renders(v, d)
  BY <1>1 DEF Renders
<1>4. OneRendering'
  <2>1. \A d \in Doc : hash[d] = None =>
          /\ renders[d] \in {0, 1} /\ filing'[d] \notin {"failed", "filed"}
          /\ \A u \in Worker : Renders(u, d)' =>
               renders[d] = 0 /\ \A v \in Worker : Renders(v, d)' => v = u
    BY <1>2, <1>3 DEF SameBytes, OneRendering
  <2>2. \A d \in Doc : hash[d] # None /\ filing'[d] # "filed" => pending[d] # None
    BY <1>2 DEF SameBytes, OneRendering
  <2> QED BY <1>1, <2>1, <2>2 DEF SameBytes, OneRendering
<1>5. \A d \in Doc : mode[d] # "upload" => Kept(d)'
  BY <1>2 DEF SameBytes, Kept
<1>6. \A v \in Worker : step'[v] # "idle" /\ mode[on[v]] # "upload" => Carried(v)'
  BY <1>1 DEF SameBytes, Carried
<1> QED BY <1>4, <1>5, <1>6 DEF SameBytes

LEMMA FiledTake ==
  ASSUME TypeInv, SameBytes, NEW w \in Worker, NEW d \in Doc, Take(w, d)
  PROVE  SameBytes'
<1> USE Parts DEF TypeInv, QueueType, HandlerType, FilingType
<1>1. /\ step[w] = "idle" /\ job' = [job EXCEPT ![w] = "render"] /\ on' = [on EXCEPT ![w] = d]
      /\ renders[d] > 0 /\ renders' = [renders EXCEPT ![d] = @ - 1]
      /\ UNCHANGED <<status, mode, hash, pending, filing, library>>
  BY DEF Take, Receive, row, content, filed
<1>2. \/ step' = [step EXCEPT ![w] = "complete"] /\ copy' = copy
      \/ /\ step' = [step EXCEPT ![w] = "staged"] /\ copy' = [copy EXCEPT ![w] = pending[d]]
         /\ pending[d] # None /\ hash[d] # None
      \/ /\ step' = [step EXCEPT ![w] = "render"] /\ copy' = copy
         /\ ~Staged(d) /\ filing[d] # "filed"
  BY DEF Take, Goto, Staged
<1>3. ~Staged(d) /\ filing[d] # "filed" => hash[d] = None
  BY DEF Staged, SameBytes, OneRendering
<1>4. \A v \in Worker \ {w} :
        step'[v] = step[v] /\ job'[v] = job[v] /\ on'[v] = on[v] /\ copy'[v] = copy[v]
  BY <1>1, <1>2
<1>5. job'[w] = "render" /\ on'[w] = d
  BY <1>1
<1>6. ASSUME NEW e \in Doc, hash[e] = None
      PROVE  /\ renders'[e] \in {0, 1}
             /\ \A u \in Worker : Renders(u, e)' =>
                  renders'[e] = 0 /\ \A v \in Worker : Renders(v, e)' => v = u
  <2>1. CASE e # d
    <3>1. renders'[e] = renders[e]
      BY <1>1, <2>1
    <3>2. \A v \in Worker : Renders(v, e)' => Renders(v, e)
      BY <1>4, <1>5, <2>1 DEF Renders
    <3> QED BY <1>6, <3>1, <3>2 DEF SameBytes, OneRendering
  <2>2. CASE e = d
    <3>1. renders[e] = 1 /\ renders'[e] = 0
      BY <1>1, <1>6, <2>2 DEF SameBytes, OneRendering
    <3>2. \A v \in Worker : ~Renders(v, e)
      BY <1>6, <3>1 DEF SameBytes, OneRendering
    <3>3. \A v \in Worker : Renders(v, e)' => v = w
      BY <1>4, <3>2 DEF Renders
    <3> QED BY <3>1, <3>3
  <2> QED BY <2>1, <2>2
<1>7. \A v \in Worker : step'[v] # "idle" => job'[v] \in {"render", "answer"}
  BY <1>4, <1>5 DEF SameBytes, OneRendering
<1>8. \A v \in Worker : step'[v] = "render" => hash[on'[v]] = None
  BY <1>2, <1>3, <1>4, <1>5 DEF SameBytes, OneRendering
<1>9. \A v \in Worker : step'[v] \in {"staged", "stored", "bounced"} => hash[on'[v]] # None
  BY <1>2, <1>4, <1>5 DEF SameBytes, OneRendering
<1>10. OneRendering'
  BY <1>1, <1>6, <1>7, <1>8, <1>9 DEF SameBytes, OneRendering
<1>11. \A e \in Doc : mode[e] # "upload" => Kept(e)'
  BY <1>1 DEF SameBytes, Kept
<1>12. ASSUME NEW v \in Worker, step'[v] # "idle", mode[on'[v]] # "upload" PROVE Carried(v)'
  <2>1. CASE v # w
    BY <1>1, <1>4, <1>12, <2>1 DEF SameBytes, Carried
  <2>2. CASE v = w
    <3>1. step'[w] # "stored"
      BY <1>2
    <3>2. step'[w] \in {"staged", "stored", "bounced"} => copy'[w] = pending[d] /\ pending[d] # None
      BY <1>2
    <3>3. pending[d] \in {None, hash[d]}
      BY <1>5, <1>12, <2>2 DEF SameBytes, Kept
    <3> QED BY <1>1, <1>5, <2>2, <3>1, <3>2, <3>3 DEF Carried
  <2> QED BY <2>1, <2>2
<1> QED BY <1>1, <1>10, <1>11, <1>12 DEF SameBytes

LEMMA FiledTakeAnswer ==
  ASSUME TypeInv, SameBytes, NEW w \in Worker, NEW d \in Doc, TakeAnswer(w, d)
  PROVE  SameBytes'
<1> USE Parts DEF TypeInv, HandlerType
<1>1. /\ job' = [job EXCEPT ![w] = "answer"] /\ on' = [on EXCEPT ![w] = d]
      /\ UNCHANGED <<status, mode, hash, pending, filing, library, renders>>
  BY DEF TakeAnswer, Receive, row, content, filed
<1>2. /\ \A v \in Worker \ {w} : step'[v] = step[v] /\ copy'[v] = copy[v]
      /\ step'[w] \in {"complete", "answer"}
  BY DEF TakeAnswer, Goto
<1>3. \A v \in Worker, e \in Doc : Renders(v, e)' => Renders(v, e)
  BY <1>1, <1>2 DEF Renders
<1>4. OneRendering'
  BY <1>1, <1>2, <1>3 DEF SameBytes, OneRendering
<1>5. \A e \in Doc : mode[e] # "upload" => Kept(e)'
  BY <1>1 DEF SameBytes, Kept
<1>6. \A v \in Worker : step'[v] # "idle" /\ mode[on'[v]] # "upload" => Carried(v)'
  BY <1>1, <1>2 DEF SameBytes, Carried
<1> QED BY <1>1, <1>4, <1>5, <1>6 DEF SameBytes

\* The handler that renders is the only one of the document, and binds the bytes.
LEMMA FiledStage == ASSUME TypeInv, SameBytes, NEW w \in Worker, Stage(w) PROVE SameBytes'
<1> USE Parts, DocumentsAssumption DEF TypeInv, HandlerType, BytesType
<1>1. /\ step[w] = "render" /\ step' = [step EXCEPT ![w] = "staged"]
      /\ UNCHANGED <<status, mode, filing, library, renders, job, on>>
  BY DEF Stage, Goto, row, filed, queue
<1>2. on[w] \in Doc /\ job[w] = "render" /\ hash[on[w]] = None
  BY <1>1 DEF AtWork, SameBytes, OneRendering
<1>3. PICK b \in Bytes : /\ copy' = [copy EXCEPT ![w] = b]
                         /\ hash' = [hash EXCEPT ![on[w]] = b]
                         /\ pending' = [pending EXCEPT ![on[w]] = b]
  BY <1>2 DEF Stage, Binds
<1>4. hash'[on[w]] = b /\ pending'[on[w]] = b /\ b # None /\ copy'[w] = b
  BY <1>2, <1>3
<1>5. \A d \in Doc \ {on[w]} : hash'[d] = hash[d] /\ pending'[d] = pending[d]
  BY <1>3
<1>6. Renders(w, on[w])
  BY <1>1, <1>2 DEF Renders
<1>7. \A v \in Worker \ {w} : step'[v] = step[v] /\ copy'[v] = copy[v] /\ ~Renders(v, on[w])
  BY <1>1, <1>2, <1>3, <1>6 DEF SameBytes, OneRendering
<1>8. \A v \in Worker \ {w} : step[v] \in Working => on[v] \in Doc \ {on[w]}
  BY <1>7 DEF AtWork, Renders, Working
<1>9. OneRendering'
  <2>1. ASSUME NEW d \in Doc, hash'[d] = None
        PROVE  /\ renders[d] \in {0, 1} /\ filing[d] \notin {"failed", "filed"}
               /\ \A u \in Worker : Renders(u, d)' =>
                    renders[d] = 0 /\ \A v \in Worker : Renders(v, d)' => v = u
    <3>1. d # on[w] /\ hash[d] = None
      BY <1>4, <1>5, <2>1
    <3>2. \A v \in Worker : Renders(v, d)' => Renders(v, d)
      BY <1>1 DEF Renders
    <3> QED BY <3>1, <3>2 DEF SameBytes, OneRendering
  <2>2. \A d \in Doc : hash'[d] # None /\ filing[d] # "filed" => pending'[d] # None
    BY <1>4, <1>5 DEF SameBytes, OneRendering
  <2>3. \A v \in Worker : step'[v] = "render" => hash'[on[v]] = None
    BY <1>1, <1>5, <1>7, <1>8 DEF SameBytes, OneRendering, Working
  <2>4. \A v \in Worker : step'[v] \in {"staged", "stored", "bounced"} => hash'[on[v]] # None
    BY <1>1, <1>4, <1>5, <1>7, <1>8 DEF SameBytes, OneRendering, Working
  <2>5. \A v \in Worker : step'[v] # "idle" => job[v] \in {"render", "answer"}
    BY <1>1 DEF SameBytes, OneRendering
  <2> QED BY <1>1, <2>1, <2>2, <2>3, <2>4, <2>5 DEF SameBytes, OneRendering
<1>10. \A d \in Doc : mode[d] # "upload" => Kept(d)'
  <2>1. filing[on[w]] # "filed"
    BY <1>2 DEF SameBytes, OneRendering
  <2> QED BY <1>1, <1>4, <1>5, <2>1 DEF SameBytes, Kept
<1>11. ASSUME NEW v \in Worker, step'[v] # "idle", mode[on[v]] # "upload" PROVE Carried(v)'
  <2>1. CASE v # w
    BY <1>1, <1>5, <1>7, <1>8, <1>11, <2>1 DEF SameBytes, Carried, Working
  <2>2. CASE v = w
    BY <1>1, <1>4, <2>2 DEF Carried
  <2> QED BY <2>1, <2>2
<1> QED BY <1>1, <1>9, <1>10, <1>11 DEF SameBytes

LEMMA FiledStore ==
  ASSUME TypeInv, SameBytes, NEW w \in Worker, Store(w) \/ MarkFiled(w)
  PROVE  SameBytes'
<1> USE Parts DEF TypeInv, HandlerType, BytesType, FilingType
<1>1. /\ step[w] \in {"staged", "stored"} /\ on[w] \in Doc /\ hash[on[w]] # None
      /\ UNCHANGED <<status, mode, hash, renders, job, on, copy>>
  BY DEF Store, MarkFiled, row, content, queue, AtWork, SameBytes, OneRendering
<1>2. PICK s \in {"stored", "bounced", "complete"} : step' = [step EXCEPT ![w] = s]
  BY DEF Store, MarkFiled, Goto
<1>3. \A v \in Worker, d \in Doc : Renders(v, d)' => Renders(v, d)
  BY <1>1, <1>2 DEF Renders
<1>4. mode[on[w]] # "upload" => copy[w] = hash[on[w]]
  BY <1>1 DEF SameBytes, Carried
<1>5. CASE Store(w)
  <2>1. /\ UNCHANGED <<filing, pending>>
        /\ \/ library' = [library EXCEPT ![on[w]] = copy[w]]
           \/ library' = library /\ s = "bounced"
    BY <1>2, <1>5 DEF Store, Goto, content
  <2>2. OneRendering'
    BY <1>1, <1>2, <1>3, <2>1 DEF SameBytes, OneRendering
  <2>3. \A d \in Doc : mode[d] # "upload" => Kept(d)'
    BY <1>1, <1>4, <2>1 DEF SameBytes, Kept
  <2>4. s # "complete"
    BY <1>2, <1>5 DEF Store, Goto
  <2>5. ASSUME NEW v \in Worker, step'[v] # "idle", mode[on[v]] # "upload" PROVE Carried(v)'
    <3>1. CASE v # w
      BY <1>1, <1>2, <1>4, <2>1, <2>5, <3>1 DEF SameBytes, Carried, AtWork
    <3>2. CASE v = w
      BY <1>1, <1>2, <1>4, <2>1, <2>5, <3>2 DEF Carried
    <3> QED BY <3>1, <3>2
  <2> QED BY <1>1, <2>2, <2>3, <2>5 DEF SameBytes
<1>6. CASE MarkFiled(w)
  <2>1. /\ library' = library /\ step[w] = "stored" /\ step'[w] = "complete"
        /\ \/ UNCHANGED <<filing, pending>>
           \/ /\ filing' = [filing EXCEPT ![on[w]] = "filed"]
              /\ pending' = [pending EXCEPT ![on[w]] = None]
    BY <1>6 DEF MarkFiled, Goto
  <2>2. OneRendering'
    BY <1>1, <1>2, <1>3, <2>1 DEF SameBytes, OneRendering
  <2>3. mode[on[w]] # "upload" => library[on[w]] = hash[on[w]]
    BY <2>1 DEF SameBytes, Carried
  <2>4. \A d \in Doc : mode[d] # "upload" => Kept(d)'
    BY <1>1, <2>1, <2>3 DEF SameBytes, Kept
  <2>5. \A v \in Worker : step'[v] # "idle" /\ mode[on[v]] # "upload" => Carried(v)'
    BY <1>1, <1>2, <2>1 DEF SameBytes, Carried
  <2> QED BY <1>1, <2>2, <2>4, <2>5 DEF SameBytes
<1> QED BY <1>5, <1>6

LEMMA FiledHandler ==
  ASSUME TypeInv, SameBytes, NEW w \in Worker, Handle(w) \/ Crash(w)
  PROVE  SameBytes'
<1> USE DEF row, content, filed, queue, handler, history, bounds
<1>1. CASE \E d \in Doc : Take(w, d) \/ TakeAnswer(w, d)
  BY <1>1, FiledTake, FiledTakeAnswer
<1>2. CASE Stage(w) \/ Store(w) \/ MarkFiled(w)
  BY <1>2, FiledStage, FiledStore
<1>3. CASE Defer(w) \/ GiveUpUnrecorded(w)
  BY <1>3, FiledGoto DEF Defer, GiveUpUnrecorded
<1>4. CASE GiveUp(w)
  BY <1>4, FiledGoto DEF GiveUp
<1>5. CASE PutAnswer(w)
  BY <1>5, FiledGoto DEF PutAnswer
<1>6. CASE FailAgain(w)
  BY <1>6, FiledLeave DEF FailAgain
<1>7. CASE Settle(w)
  BY <1>7, FiledLeave DEF Settle
<1>8. CASE Crash(w)
  BY <1>8, FiledLeave DEF Crash
<1> QED BY <1>1, <1>2, <1>3, <1>4, <1>5, <1>6, <1>7, <1>8 DEF Handle

LEMMA FiledNext == TypeInv /\ FiledInv /\ [Next]_vars => FiledInv'
<1> SUFFICES ASSUME TypeInv, FiledInv, [Next]_vars, overlaps' = 0 PROVE SameBytes'
  BY DEF FiledInv
<1> USE DEF row, content, filed, queue, handler, history, bounds
<1>1. ASSUME NEW w \in Worker, LoseLock(w) PROVE FALSE
  <2>1. overlaps \in Nat /\ overlaps' = overlaps + 1
    BY <1>1, DocumentsAssumption, Parts DEF LoseLock, TypeInv, CountType
  <2> QED BY <2>1
<1>2. ASSUME overlaps' = overlaps PROVE SameBytes
  BY <1>2 DEF FiledInv
<1>3. CASE IssueSome
  <2>1. overlaps' = overlaps
    BY <1>3 DEF IssueSome, Issue
  <2> QED BY <1>2, <1>3, <2>1, FiledIssue
<1>4. ASSUME NEW d \in Doc, Act(d) \/ FileEvidence(d) PROVE SameBytes'
  <2>1. overlaps' = overlaps
    BY <1>4 DEF Act, View, Sign, Respond, UploadResponse, Cancel, RetryFiling, FileEvidence
  <2> QED BY <1>2, <1>4, <2>1, FiledPeople
<1>5. ASSUME NEW w \in Worker, Handle(w) \/ Crash(w) PROVE SameBytes'
  <2>1. overlaps' = overlaps
    BY <1>5 DEF Handle, Crash, Take, TakeAnswer, Stage, Defer, Store, MarkFiled, FailAgain,
                GiveUp, GiveUpUnrecorded, PutAnswer, Settle
  <2> QED BY <1>2, <1>5, <2>1, FiledHandler
<1>6. CASE UNCHANGED vars
  <2>1. overlaps' = overlaps
    BY <1>6 DEF vars
  <2> QED BY <1>2, <1>6, <2>1, FiledFrame DEF vars
<1> QED BY <1>1, <1>3, <1>4, <1>5, <1>6 DEF Next

\* What is filed is what was hashed, read and signed, through crashes, retries and
\* redeliveries: as long as no two handlers overlap, and no response is staged over
\* the rendering.
THEOREM AlwaysFiledAsHashed == Spec => []FiledAsHashed
<1>1. FiledInv => FiledAsHashed
  BY DEF FiledInv, SameBytes, Kept, FiledAsHashed
<1> QED BY <1>1, FiledInit, FiledNext, AlwaysTyped, PTL DEF Spec
=============================================================================
