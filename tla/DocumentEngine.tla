--------------------------- MODULE DocumentEngine ----------------------------
(***************************************************************************)
(* Documents from issue to filing (trpc/src/lib/documents.ts, document-    *)
(* effects.ts, domain/src/documents/lifecycle.ts, the upload route of      *)
(* api/src/routes/documents.ts).                                           *)
(*                                                                         *)
(* People's calls are one transaction each, under the document's row lock, *)
(* and so one action.  The handlers of the effects queue work between      *)
(* transactions, on a row they have read before: rendering, staging,       *)
(* uploading and marking are steps apart.  A message is handed out again   *)
(* when its handler throws, dies or outlives its lock.                     *)
(*                                                                         *)
(* A rendering yields some bytes of Bytes, and another one may yield       *)
(* others.  The five modes answered by an action of their own are two:     *)
(* "respond", and "upload", which brings bytes.  Content is left out, and  *)
(* so are the chase and the notices of issue and completion.               *)
(* Bounds: MaxRetries calls of retryFiling; MaxFaults crashes and expired  *)
(* locks.                                                                  *)
(***************************************************************************)
EXTENDS Integers, Sequences, FiniteSets

CONSTANTS Doc, Worker, Bytes, Upload, None, NoDoc, Mode, MaxAttempts, MaxRetries, MaxFaults

Modes == {"no_action", "read_only", "sign", "respond", "upload"}

ASSUME DocumentsAssumption ==
  /\ IsFiniteSet(Doc) /\ Mode \subseteq Modes
  /\ NoDoc \notin Doc /\ None \notin Bytes \cup {Upload} /\ Upload \notin Bytes
  /\ MaxAttempts \in Nat \ {0} /\ {MaxRetries, MaxFaults} \subseteq Nat

VARIABLES
  \* the row of a document
  status, mode,
  ahead,       \* the documents of its group with a lower sequence_no
  completed,   \* the documents whose completed_at is set
  hash,        \* content_hash
  pending,     \* pending_content
  filing, attempts,
  evidence,    \* its signature_evidence rows: the hashes they cite
  certificate, \* file_evidence: "none", "queued", "filed", "deferred"
  alerts,      \* attempts named by the dedupe_keys of filing_failed notices
  \* SharePoint
  library, answer,
  \* the effects queue: messages of a document not in a handler's hands
  renders, answers,
  \* a handler: where it stands, the message it has and of which document, the
  \* bytes it holds, its lock
  step, job, on, copy, locked,
  \* history
  deferred,    \* filing put off as there is no store
  stranded,    \* a filing failure whose record was rolled back
  retries, crashes, overlaps

row      == <<status, mode, ahead, completed, evidence>>
content  == <<hash, pending>>
filed    == <<filing, attempts, alerts, library>>
queue    == <<renders, answers>>
handler  == <<step, job, on, copy, locked>>
history  == <<deferred, stranded>>
bounds   == <<retries, crashes, overlaps>>
vars     == <<row, content, filed, certificate, answer, queue, handler, history, bounds>>

Status == {"draft", "issued", "viewed", "signed", "completed", "cancelled"}
Step   == {"idle", "render", "staged", "stored", "bounced", "answer", "complete"}

Init ==
  /\ status = [d \in Doc |-> "draft"] /\ mode = [d \in Doc |-> "draft"]
  /\ ahead = [d \in Doc |-> {}] /\ completed = {}
  /\ hash = [d \in Doc |-> None] /\ pending = [d \in Doc |-> None]
  /\ filing = [d \in Doc |-> "none"] /\ attempts = [d \in Doc |-> 0]
  /\ evidence = [d \in Doc |-> << >>] /\ certificate = [d \in Doc |-> "none"]
  /\ alerts = [d \in Doc |-> {}]
  /\ library = [d \in Doc |-> None] /\ answer = [d \in Doc |-> None]
  /\ renders = [d \in Doc |-> 0] /\ answers = [d \in Doc |-> 0]
  /\ step = [w \in Worker |-> "idle"] /\ job = [w \in Worker |-> "none"]
  /\ on = [w \in Worker |-> NoDoc] /\ copy = [w \in Worker |-> None] /\ locked = {}
  /\ deferred = {} /\ stranded = {}
  /\ retries = 0 /\ crashes = 0 /\ overlaps = 0
-----------------------------------------------------------------------------
\* Mutant: an earlier document stops locking once it has been viewed.
LockedUntilSeen(d) == \E e \in ahead[d] : status[e] = "issued" /\ e \notin completed

\* loadDocument: what is earlier in its group and still outstanding locks it.
SequenceLocked(d) == \E e \in ahead[d] : e \notin completed /\ status[e] # "cancelled"

Actionable(d) == status[d] \in {"issued", "viewed"}

\* issueDocuments: a list of drafts, in the order of the list or in none.
Issue(S, place, ordered, m) ==
  /\ S # {} /\ \A d \in S : status[d] = "draft"
  /\ \A d, e \in S : place[d] = place[e] => d = e
  /\ status' = [d \in Doc |-> IF d \in S THEN "issued" ELSE status[d]]
  /\ mode' = [d \in Doc |-> IF d \in S THEN m[d] ELSE mode[d]]
  /\ completed' = completed \cup { d \in S : m[d] = "no_action" }
  /\ ahead' = [d \in Doc |-> IF d \in S
                 THEN { e \in S : ordered /\ place[e] < place[d] } ELSE ahead[d]]
  /\ filing' = [d \in Doc |-> IF d \in S THEN "pending" ELSE filing[d]]
  /\ renders' = [d \in Doc |-> IF d \in S THEN renders[d] + 1 ELSE renders[d]]
  /\ UNCHANGED <<evidence, content, attempts, alerts, library, certificate, answer,
                 answers, handler, history, bounds>>

Complete(d, s) ==
  /\ status' = [status EXCEPT ![d] = s]
  /\ completed' = completed \cup {d}

\* recordDocumentView: completed_at is set anew, which takes back the one that a
\* no_action document got when it was issued.
View(d) ==
  /\ status[d] = "issued" /\ ~SequenceLocked(d)
  /\ IF mode[d] = "read_only"
       THEN Complete(d, "completed")
       ELSE /\ status' = [status EXCEPT ![d] = "viewed"]
            /\ completed' = completed \ {d}
  /\ UNCHANGED <<mode, ahead, evidence, content, filed, certificate, answer, queue,
                 handler, history, bounds>>

Rendered(d) == hash[d] # None

\* signDocument: the hash that was read is the row's, and goes on the evidence.
Sign(d) ==
  /\ Actionable(d) /\ mode[d] = "sign" /\ ~SequenceLocked(d)
  /\ Rendered(d)
  /\ evidence' = [evidence EXCEPT ![d] = Append(@, hash[d])]
  /\ certificate' = [certificate EXCEPT ![d] = "queued"]
  /\ Complete(d, "signed")
  /\ UNCHANGED <<mode, ahead, content, filed, answer, queue, handler, history, bounds>>

\* completeDocument, by the action of the document's mode.
Respond(d) ==
  /\ Actionable(d) /\ mode[d] = "respond" /\ ~SequenceLocked(d)
  /\ Complete(d, "completed")
  /\ UNCHANGED <<mode, ahead, evidence, content, filed, certificate, answer, queue,
                 handler, history, bounds>>

\* POST response-file: the bytes are staged where a rendering would be.
UploadResponse(d) ==
  /\ Actionable(d) /\ mode[d] = "upload" /\ ~SequenceLocked(d)
  /\ Complete(d, "completed")
  /\ pending' = [pending EXCEPT ![d] = Upload]
  /\ answers' = [answers EXCEPT ![d] = @ + 1]
  /\ UNCHANGED <<mode, ahead, evidence, hash, filed, certificate, answer, renders,
                 handler, history, bounds>>

Cancel(d) ==
  /\ status[d] \in {"draft", "issued", "viewed"}
  /\ status' = [status EXCEPT ![d] = "cancelled"]
  /\ UNCHANGED <<mode, ahead, completed, evidence, content, filed, certificate, answer,
                 queue, handler, history, bounds>>

\* Mutant: the filing is reset, and nothing sent.
NotSentAgain(d) == renders

SentAgain(d) == [renders EXCEPT ![d] = @ + 1]

\* Starting again, not continuing: the count goes back to 0.
RetryFiling(d) ==
  /\ filing[d] = "failed"
  /\ retries < MaxRetries /\ retries' = retries + 1
  /\ filing' = [filing EXCEPT ![d] = "pending"]
  /\ attempts' = [attempts EXCEPT ![d] = 0]
  /\ renders' = SentAgain(d)
  /\ UNCHANGED <<row, content, alerts, library, certificate, answer, answers,
                 handler, history, crashes, overlaps>>
-----------------------------------------------------------------------------
Goto(w, s) == step' = [step EXCEPT ![w] = s]

Receive(w, j, d) ==
  /\ step[w] = "idle"
  /\ job' = [job EXCEPT ![w] = j]
  /\ on' = [on EXCEPT ![w] = d]
  /\ locked' = locked \cup {w}

\* Mutant: every delivery renders anew.
NeverStaged(d) == FALSE

\* A previous delivery has staged what is to be filed.
Staged(d) == pending[d] # None /\ hash[d] # None

\* renderAndFile reads the row once, and goes on from there.
Take(w, d) ==
  /\ Receive(w, "render", d)
  /\ renders[d] > 0 /\ renders' = [renders EXCEPT ![d] = @ - 1]
  /\ IF filing[d] = "filed" \/ status[d] = "cancelled"
       THEN Goto(w, "complete") /\ UNCHANGED copy
       ELSE IF Staged(d)
         THEN Goto(w, "staged") /\ copy' = [copy EXCEPT ![w] = pending[d]]
         ELSE Goto(w, "render") /\ UNCHANGED copy
  /\ UNCHANGED <<row, content, filed, certificate, answer, answers, history, bounds>>

\* Mutant: the hash follows the last rendering.
BindsAgain(d, b) == TRUE

\* The WHERE of stageRender.
Binds(d, b) == hash[d] = None \/ hash[d] = b

\* Render, hash and stage.  Where other bytes are bound already, nothing is
\* staged, nothing raised, and the handler keeps its own.
Stage(w) ==
  /\ step[w] = "render"
  /\ \E b \in Bytes :
       /\ copy' = [copy EXCEPT ![w] = b]
       /\ IF Binds(on[w], b)
            THEN /\ hash' = [hash EXCEPT ![on[w]] = b]
                 /\ pending' = [pending EXCEPT ![on[w]] = b]
            ELSE UNCHANGED content
  /\ Goto(w, "staged")
  /\ UNCHANGED <<row, filed, certificate, answer, queue, job, on, locked, history, bounds>>

\* No store, no site or no drive: nothing to do, for good.
Defer(w) ==
  /\ step[w] = "staged"
  /\ deferred' = deferred \cup {on[w]}
  /\ Goto(w, "complete")
  /\ UNCHANGED <<row, content, filed, certificate, answer, queue, job, on, copy, locked,
                 stranded, bounds>>

\* The upload, to a path that is the document's alone.
Store(w) ==
  /\ step[w] = "staged"
  /\ \/ library' = [library EXCEPT ![on[w]] = copy[w]] /\ Goto(w, "stored")
     \/ UNCHANGED library /\ Goto(w, "bounced")
  /\ UNCHANGED <<row, content, filing, attempts, alerts, certificate, answer, queue, job, on,
                 copy, locked, history, bounds>>

MarkFiled(w) ==
  /\ step[w] = "stored"
  /\ IF filing[on[w]] # "filed"
       THEN /\ filing' = [filing EXCEPT ![on[w]] = "filed"]
            /\ pending' = [pending EXCEPT ![on[w]] = None]
       ELSE UNCHANGED <<filing, pending>>
  /\ Goto(w, "complete")
  /\ UNCHANGED <<row, hash, attempts, alerts, library, certificate, answer, queue, job, on,
                 copy, locked, history, bounds>>

Leave(w) ==
  /\ Goto(w, "idle")
  /\ job' = [job EXCEPT ![w] = "none"]
  /\ on' = [on EXCEPT ![w] = NoDoc]
  /\ copy' = [copy EXCEPT ![w] = None]
  /\ locked' = locked \ {w}

\* The message of a handler is handed out again, unless it already was.
HandBack(w) ==
  IF w \notin locked THEN UNCHANGED queue
  ELSE IF job[w] = "answer"
    THEN answers' = [answers EXCEPT ![on[w]] = @ + 1] /\ UNCHANGED renders
    ELSE renders' = [renders EXCEPT ![on[w]] = @ + 1] /\ UNCHANGED answers

LastAttempt(n) == n >= MaxAttempts

\* recordFilingFailure of an attempt to go on from: counted, and thrown.
FailAgain(w) ==
  LET d == on[w] IN
  /\ step[w] = "bounced"
  /\ \/ filing[d] = "filed" /\ UNCHANGED attempts
     \/ /\ filing[d] # "filed" /\ ~LastAttempt(attempts[d] + 1)
        /\ attempts' = [attempts EXCEPT ![d] = @ + 1]
  /\ HandBack(w) /\ Leave(w)
  /\ UNCHANGED <<row, content, filing, alerts, library, certificate, answer, history, bounds>>

\* ... of the last attempt: failed, with a notice to the administrators.
GiveUp(w) ==
  LET d == on[w] IN
  /\ step[w] = "bounced"
  /\ filing[d] # "filed" /\ LastAttempt(attempts[d] + 1)
  /\ attempts[d] + 1 \notin alerts[d]
  /\ attempts' = [attempts EXCEPT ![d] = @ + 1]
  /\ filing' = [filing EXCEPT ![d] = "failed"]
  /\ alerts' = [alerts EXCEPT ![d] = @ \cup {attempts[d] + 1}]
  /\ Goto(w, "complete")
  /\ UNCHANGED <<row, content, library, certificate, answer, queue, job, on, copy, locked,
                 history, bounds>>

\* ... of a second run of failures: the notice's dedupe_key is taken.  The error
\* is caught, but the transaction is aborted: COMMIT rolls it back, nothing is
\* recorded, and the handler takes the failure for recorded.
GiveUpUnrecorded(w) ==
  LET d == on[w] IN
  /\ step[w] = "bounced"
  /\ filing[d] # "filed" /\ LastAttempt(attempts[d] + 1)
  /\ attempts[d] + 1 \in alerts[d]
  /\ stranded' = stranded \cup {d}
  /\ Goto(w, "complete")
  /\ UNCHANGED <<row, content, filed, certificate, answer, queue, job, on, copy, locked,
                 deferred, bounds>>

Settle(w) ==
  /\ step[w] = "complete"
  /\ Leave(w)
  /\ UNCHANGED <<row, content, filed, certificate, answer, queue, history, bounds>>

\* fileResponse: what is staged when it looks, if anything is.
TakeAnswer(w, d) ==
  /\ answers[d] > 0 /\ answers' = [answers EXCEPT ![d] = @ - 1]
  /\ Receive(w, "answer", d)
  /\ \/ Goto(w, "complete") /\ UNCHANGED copy      \* there is no store
     \/ /\ answer[d] # None \/ pending[d] = None
        /\ Goto(w, "complete") /\ UNCHANGED copy
     \/ /\ answer[d] = None /\ pending[d] # None
        /\ Goto(w, "answer") /\ copy' = [copy EXCEPT ![w] = pending[d]]
  /\ UNCHANGED <<row, content, filed, certificate, answer, renders, history, bounds>>

PutAnswer(w) ==
  /\ step[w] = "answer"
  /\ answer' = [answer EXCEPT ![on[w]] = copy[w]]
  /\ Goto(w, "complete")
  /\ UNCHANGED <<row, content, filed, certificate, queue, job, on, copy, locked, history, bounds>>

\* fileEvidence, in one step: the evidence it files cannot change.
FileEvidence(d) ==
  /\ certificate[d] = "queued" /\ evidence[d] # << >>
  /\ \E c \in {"filed", "deferred"} : certificate' = [certificate EXCEPT ![d] = c]
  /\ UNCHANGED <<row, content, filed, answer, queue, handler, history, bounds>>

Crash(w) ==
  /\ step[w] # "idle"
  /\ crashes + overlaps < MaxFaults /\ crashes' = crashes + 1
  /\ HandBack(w) /\ Leave(w)
  /\ UNCHANGED <<row, content, filed, certificate, answer, history, retries, overlaps>>

\* A handler outlives the lock of its message.
LoseLock(w) ==
  /\ w \in locked
  /\ crashes + overlaps < MaxFaults /\ overlaps' = overlaps + 1
  /\ HandBack(w)
  /\ locked' = locked \ {w}
  /\ UNCHANGED <<row, content, filed, certificate, answer, step, job, on, copy, history,
                 retries, crashes>>

IssueSome ==
  \E S \in SUBSET Doc, ordered \in BOOLEAN :
    \E place \in [S -> 1 .. Cardinality(Doc)], m \in [S -> Mode] : Issue(S, place, ordered, m)

Act(d) == View(d) \/ Sign(d) \/ Respond(d) \/ UploadResponse(d) \/ Cancel(d) \/ RetryFiling(d)

Handle(w) ==
  \/ \E d \in Doc : Take(w, d) \/ TakeAnswer(w, d)
  \/ Stage(w) \/ Defer(w) \/ Store(w) \/ MarkFiled(w)
  \/ FailAgain(w) \/ GiveUp(w) \/ GiveUpUnrecorded(w)
  \/ PutAnswer(w) \/ Settle(w)

Next ==
  \/ IssueSome
  \/ \E d \in Doc : Act(d) \/ FileEvidence(d)
  \/ \E w \in Worker : Handle(w) \/ Crash(w) \/ LoseLock(w)

Spec == Init /\ [][Next]_vars

\* The broker hands messages out again until a handler gets to the end of them.
FairSpec == Spec /\ \A w \in Worker : WF_vars(Handle(w))
-----------------------------------------------------------------------------
(***************************************************************************)
(* Properties.                                                             *)
(***************************************************************************)
\* Type invariant.
TypeOK ==
  /\ status \in [Doc -> Status] /\ mode \in [Doc -> Mode \cup {"draft"}]
  /\ ahead \in [Doc -> SUBSET Doc] /\ completed \subseteq Doc
  /\ evidence \in [Doc -> Seq(Bytes)]
  /\ hash \in [Doc -> Bytes \cup {None}]
  /\ pending \in [Doc -> Bytes \cup {None, Upload}]
  /\ library \in [Doc -> Bytes \cup {None, Upload}]
  /\ answer \in [Doc -> Bytes \cup {None, Upload}]
  /\ filing \in [Doc -> {"none", "pending", "filed", "failed"}]
  /\ certificate \in [Doc -> {"none", "queued", "filed", "deferred"}]
  /\ attempts \in [Doc -> Nat] /\ alerts \in [Doc -> SUBSET Nat]
  /\ renders \in [Doc -> Nat] /\ answers \in [Doc -> Nat]
  /\ step \in [Worker -> Step] /\ job \in [Worker -> {"none", "render", "answer"}]
  /\ on \in [Worker -> Doc \cup {NoDoc}]
  /\ copy \in [Worker -> Bytes \cup {None, Upload}] /\ locked \subseteq Worker
  /\ deferred \subseteq Doc /\ stranded \subseteq Doc
  /\ retries \in 0 .. MaxRetries /\ crashes \in 0 .. MaxFaults /\ overlaps \in 0 .. MaxFaults

\* Two tabs signing at once, renderings redelivered: a document is signed exactly
\* when one evidence row stands for it, and that row cites the hash the row still
\* carries.
SignatureStands ==
  \A d \in Doc :
    /\ status[d] = "signed" => evidence[d] = <<hash[d]>> /\ hash[d] # None /\ d \in completed
    /\ status[d] # "signed" => evidence[d] = << >>

\* What is filed is what was hashed, read and signed: without overlapping
\* handlers, and where no response is staged over the rendering.
FiledAsHashed ==
  \A d \in Doc : filing[d] = "filed" /\ overlaps = 0 /\ mode[d] # "upload" => library[d] = hash[d]

Handled(d) == \E w \in Worker : on[w] = d /\ step[w] \in {"render", "staged", "stored", "bounced"}

\* A filing that waits is on the queue or in a handler's hands; but for a document
\* withdrawn, one put off as there was no store, and one whose second run of
\* failures left no trace.
FilingNeverSilent ==
  \A d \in Doc : filing[d] = "pending" =>
    \/ renders[d] > 0 \/ Handled(d)
    \/ status[d] = "cancelled"
    \/ d \in deferred \cup stranded

\* In the end every filing is filed, failed, or one of those.
EveryFilingSettles ==
  <>[](\A d \in Doc : filing[d] = "pending" => status[d] = "cancelled" \/ d \in deferred \cup stranded)

\* A document that failed says so: filing stops in `failed` only after every
\* attempt, with a notice for the administrators.
FailureIsTold ==
  \A d \in Doc : filing[d] = "failed" => attempts[d] >= MaxAttempts /\ MaxAttempts \in alerts[d]

\* "SharePoint when filed, the staged copy before that - the same bytes and the
\* same hash either way", a document answered by an upload included.
BytesInTheirPlace ==
  \A d \in Doc : filing[d] = "filed" /\ overlaps = 0 => library[d] = hash[d]

Phase(d) ==
  CASE status[d] = "draft" -> "draft"
    [] status[d] = "cancelled" -> "withdrawn"
    [] status[d] \in {"signed", "completed"} -> "answered"
    [] OTHER -> IF mode[d] = "no_action" THEN "info" ELSE "open"

\* To those who issue and sign, the engine behaves as IssuedDocuments says.
Promise == INSTANCE IssuedDocuments WITH
  phase  <- [d \in Doc |-> Phase(d)],
  before <- ahead,
  bound  <- hash,
  signed <- [d \in Doc |-> IF evidence[d] = << >> THEN None ELSE evidence[d][1]]

ImplementsIssuedDocuments == Promise!Spec
=============================================================================
