----------------------------- MODULE DocumentRules -----------------------------
(***************************************************************************)
(* The rules of documents that need no queue: how a template becomes a     *)
(* letter (domain/src/documents/merge.ts, merge-contexts.ts), what an      *)
(* issued letter asks for and when it is done (lifecycle.ts), the versions *)
(* of a template (routers/platform/templates.ts and the trigger            *)
(* template_guard), who sees which category (lib/documents.ts), and what   *)
(* the client of SharePoint makes of its answers (packages/m365).          *)
(*                                                                         *)
(* A body is a sequence of pieces, text or tokens, as TOKEN_PATTERN splits *)
(* it; a value that is merged in is a piece too, and may read like a       *)
(* token.  Escaping is the mark a merged piece gets.  The registry maps a  *)
(* context to its fields, and each to whether it is required; a data bag   *)
(* maps contexts to fields to values.  A family is the sequence of the     *)
(* versions of one template_key.                                           *)
(***************************************************************************)
LOCAL INSTANCE Integers
LOCAL INSTANCE Sequences
LOCAL INSTANCE SequencesExt
LOCAL INSTANCE TLC
LOCAL INSTANCE FiniteSetsExt

Text(words)           == [kind |-> "text", context |-> words, field |-> words]
Token(context, field) == [kind |-> "token", context |-> context, field |-> field]
Escaped(piece)        == [piece EXCEPT !.kind = "escaped"]

\* parseMergeTokens, as a set.
TokensOf(body) == { p \in ToSet(body) : p.kind = "token" }

Problem(registry, declared, t) ==
  CASE t.context \notin DOMAIN registry -> "unknown_context"
    [] t.context \in DOMAIN registry \ declared -> "undeclared_context"
    [] t.context \in DOMAIN registry \cap declared /\ t.field \notin DOMAIN registry[t.context] -> "unknown_field"
    [] OTHER -> "none"

\* What the save of a template is refused for; every problem, not the first.
MergeProblems(registry, declared, body) ==
  { <<t, Problem(registry, declared, t)>> : t \in { u \in TokensOf(body) : Problem(registry, declared, u) # "none" } }

\* validateMergeData: strict in the contexts and in the fields of each.
MergeDataValid(registry, declared, data) ==
  /\ declared \subseteq DOMAIN registry /\ DOMAIN data = declared
  /\ \A c \in declared :
       /\ DOMAIN data[c] \subseteq DOMAIN registry[c]
       /\ \A f \in DOMAIN registry[c] : registry[c][f] => f \in DOMAIN data[c]

Holds(data, t) == t.context \in DOMAIN data /\ t.field \in DOMAIN data[t.context]

\* One pass over the body; what the bag lacks is blank, and reported.
RenderMerge(body, data) ==
  LET merged(p) == IF p.kind # "token" THEN <<p>>
                   ELSE IF Holds(data, p) THEN <<Escaped(data[p.context][p.field])>> ELSE <<>>
  IN [html   |-> FlattenSeq([ i \in DOMAIN body |-> merged(body[i]) ]),
      blanks |-> { t \in TokensOf(body) : ~Holds(data, t) }]

\* COMPLETION_TRIGGERS: what completes a letter of each mode; the last five are the
\* actions of documents.complete.
Triggers == [no_action |-> "issue", read_only |-> "view", read_and_sign |-> "sign", receipt_only |-> "receipt",
             read_and_understood |-> "acknowledge", qa_response |-> "qa", text_response |-> "text", file_upload |-> "upload"]

IssuedAs(m) == [mode |-> m, status |-> "issued", completed |-> Triggers[m] = "issue"]

StillOpen(doc) == doc.status \in {"issued", "viewed"}

\* recordDocumentView with stampOnFirstView: completed_at is written anew.
Opened(doc) ==
  IF doc.status # "issued" THEN doc
  ELSE LET done == Triggers[doc.mode] = "view"
       IN [doc EXCEPT !.status = IF done THEN "completed" ELSE "viewed", !.completed = done]

Answered(doc, s) == [doc EXCEPT !.status = s, !.completed = TRUE]

\* cancelDocument: completed_at stays.
Withdrawn(doc) == IF doc.status \in {"signed", "completed"} THEN doc ELSE [doc EXCEPT !.status = "cancelled"]

\* A call: locked, as an earlier letter is outstanding; rendered, same: the hash it shows
\* is the row's; scrolled, asked: require_scroll_ack; given: answers that validate, text.
SignAllowed(doc, call) ==
  /\ StillOpen(doc) /\ Triggers[doc.mode] = "sign" /\ ~call.locked
  /\ call.rendered /\ call.same /\ (call.asked => call.scrolled)

CompleteAllowed(doc, action, call) ==
  /\ StillOpen(doc) /\ Triggers[doc.mode] = action /\ ~call.locked
  /\ doc.mode = "read_and_understood" => call.scrolled
  /\ doc.mode \in {"qa_response", "text_response"} => call.given

\* Not done, in four places: isOutstanding, the filter of the list, the satisfaction
\* check of the chase, and precedingIncompleteSql.
IsOutstanding(doc)     == doc.status \notin {"cancelled", "draft"} /\ ~doc.completed
ListedOutstanding(doc) == ~doc.completed /\ StillOpen(doc)
IsSatisfied(doc)       == doc.completed \/ doc.status \in {"cancelled", "draft"}
PrecedingIncomplete(doc) == ~doc.completed /\ doc.status # "cancelled"

CreateVersion(f, body) == Append(f, [status |-> "draft", body |-> body])
UpdateVersion(f, v, body) == IF f[v].status = "draft" THEN [f EXCEPT ![v].body = body] ELSE f
PublishVersion(f, v) == IF f[v].status = "draft" THEN [f EXCEPT ![v].status = "published"] ELSE f
ArchiveVersion(f, v) == IF f[v].status = "published" THEN [f EXCEPT ![v].status = "archived"] ELSE f

\* template_guard, on a version as it was and as it is to be.
TemplateGuard(old, new) ==
  old.status = "draft" \/ (new.body = old.body /\ (new.status = old.status
                            \/ (old.status = "published" /\ new.status = "archived")))

PublishedVersions(f) == { v \in DOMAIN f : f[v].status = "published" }
IsCurrent(f, v) == f[v].status = "published" /\ v = Max(PublishedVersions(f))

\* The default list of templates.
ListedVersions(f) ==
  LET rows == IF PublishedVersions(f) # {} THEN PublishedVersions(f) ELSE DOMAIN f
  IN { v \in DOMAIN f : v = Max(rows) }

MayGenerate(f, v) == f[v].status = "published"

\* EveryCategory is null: the predicate is left out.
EveryCategory == "every"
VisibleCategoryCodes(byCategory, fallback, roles, categories) ==
  LET list(c)  == IF c \in DOMAIN byCategory THEN byCategory[c] ELSE fallback
      allowed  == { c \in categories : list(c) \cap roles # {} }
  IN IF allowed = categories THEN <<EveryCategory>> ELSE <<"of", allowed>>

DocumentVisible(allowed, own, category) == allowed[1] = EveryCategory \/ own \/ category \in allowed[2]
-----------------------------------------------------------------------------
(***************************************************************************)
(* Merging against its contract: two contexts, one with an optional       *)
(* field, bodies of up to three pieces, and values of which one reads like *)
(* a token.                                                                *)
(***************************************************************************)
LOCAL Registry == [person |-> [name |-> TRUE, email |-> FALSE], case |-> [start |-> TRUE]]
LOCAL Pieces == {Text("dear"), Token("person", "name"), Token("person", "email"), Token("case", "start"),
                 Token("case", "name"), Token("team", "name")}
LOCAL Bodies == UNION { [1 .. n -> Pieces] : n \in 0 .. 3 }
LOCAL Declared == SUBSET {"person", "case", "team"}
LOCAL Sly    == Token("person", "email")
LOCAL Values == {Text("a"), Sly}
LOCAL Fields(names) == UNION { [fs -> Values] : fs \in SUBSET names }
LOCAL Bags == { d \in UNION { [cs -> Fields({"name", "email", "start"})] : cs \in SUBSET {"person", "case"} } :
                  \A c \in DOMAIN d : c = "case" => DOMAIN d[c] \subseteq {"start"} }

\* A template that could be saved and a bag that was accepted make a whole letter:
\* all its text is there, no token is left standing or unknown, and only what its
\* context calls optional may be blank.
ASSUME AcceptedLettersAreWhole ==
  \A b \in Bodies, ds \in Declared :
    MergeProblems(Registry, ds, b) = {} =>
      \A d \in { x \in Bags : MergeDataValid(Registry, ds, x) } :
        LET r == RenderMerge(b, d)
        IN /\ r.blanks \subseteq {Token("person", "email")}
           /\ \A p \in ToSet(r.html) : p.kind # "token"
           /\ Len(r.html) = Len(SelectSeq(b, LAMBDA p : p \notin r.blanks))

\* "The one-pass rule": a person's own name that reads {{person.email}} does not pull
\* the address into the letter; what a letter does not name does not show in it.
ASSUME ValuesPullNothingIn ==
  \A b \in Bodies, v, w \in Values :
    LET bag(value) == [person |-> [name |-> Sly, email |-> value], case |-> [start |-> v]]
    IN Sly \notin ToSet(b) => RenderMerge(b, bag(v)).html = RenderMerge(b, bag(w)).html

\* A template cannot be saved with a token whose context it does not declare, even one
\* that is registered: no accepted bag could ever supply it.
ASSUME UndeclaredIsRefused ==
  \A b \in Bodies, ds \in Declared, t \in Pieces :
    t \in TokensOf(b) /\ (\A d \in Bags : MergeDataValid(Registry, ds, d) => ~Holds(d, t)) =>
      \/ t \in {q[1] : q \in MergeProblems(Registry, ds, b)}
      \/ ~ \E d \in Bags : MergeDataValid(Registry, ds, d)

(***************************************************************************)
(* Letters: everything a letter of any mode can become, alone and before   *)
(* another one of an ordered group.                                        *)
(***************************************************************************)
LOCAL Calls == [locked : BOOLEAN, rendered : BOOLEAN, same : BOOLEAN, scrolled : BOOLEAN, asked : BOOLEAN, given : BOOLEAN]
LOCAL Actions == {"receipt", "acknowledge", "qa", "text", "upload"}
LOCAL Answers(doc, calls) ==
  (IF \E c \in calls : SignAllowed(doc, c) THEN {Answered(doc, "signed")} ELSE {}) \cup
  (IF \E c \in calls, a \in Actions : CompleteAllowed(doc, a, c) THEN {Answered(doc, "completed")} ELSE {})
LOCAL Onward(doc, calls) == {doc, Opened(doc)} \cup Answers(doc, calls)
LOCAL Draft == [mode |-> "no_action", status |-> "draft", completed |-> FALSE]
LOCAL Fresh == { IssuedAs(m) : m \in DOMAIN Triggers }
LOCAL Lives == LET grow(S) == UNION { Onward(d, Calls) \cup {Withdrawn(d)} : d \in S }
               IN grow(grow(grow(Fresh \cup {Draft})))

\* "One definition of done, in two languages": whatever was issued is outstanding for the
\* list exactly when it is chased, and when it locks what follows; what was answered is
\* done, and what was answered or withdrawn stays as it is.  (A draft locks, but only what is issued has a group.)
ASSUME OneMeaningOfDone ==
  \A d \in Lives :
    /\ UNION { Onward(e, Calls) \cup {Withdrawn(e)} : e \in Lives } \subseteq Lives
    /\ IsOutstanding(d) <=> ListedOutstanding(d)
    /\ IsOutstanding(d) <=> ~IsSatisfied(d)
    /\ d.status # "draft" => (IsOutstanding(d) <=> PrecedingIncomplete(d))
    /\ d.status \in {"signed", "completed"} => d.completed
    /\ d.status \in {"signed", "completed", "cancelled"} => Onward(d, Calls) \cup {Withdrawn(d)} = {d}

\* "A client cannot satisfy a document by pressing the cheapest button": every mode that
\* asks for something is completed by a call of its own and by no other, and never while it
\* is locked.
ASSUME OneWayToAnswer ==
  \A d \in Fresh :
    /\ Cardinality({ a \in Actions : \E c \in Calls : CompleteAllowed(d, a, c) }
                   \cup (IF \E c \in Calls : SignAllowed(d, c) THEN {"sign"} ELSE {})
                   \cup (IF Opened(d).completed THEN {"view"} ELSE {})
                   \cup (IF d.completed THEN {"issue"} ELSE {})) = 1
    /\ Answers(d, { c \in Calls : c.locked }) = {}
    /\ \A e \in Fresh, a \in Actions, c \in Calls : CompleteAllowed(d, a, c) /\ CompleteAllowed(e, a, c) => d = e

\* "Pretending otherwise would leave it outstanding on every list and reminder sweep
\* forever": opening a no_action letter does just that, and it is the only letter that
\* nothing but withdrawing it can ever settle.
ASSUME OnlyNoticesGetStuck ==
  \A d \in Lives :
    (IsOutstanding(d) /\ \A e \in UNION { Onward(x, Calls) : x \in Onward(d, Calls) } : IsOutstanding(e))
      <=> d = Opened(IssuedAs("no_action"))

\* An ordered group can be answered to its end from wherever its reader is, unless a
\* no_action letter in it has been opened: then what is behind it and not answered never
\* will be.
LOCAL Unlocked == { c \in Calls : ~c.locked }
LOCAL Reading(g) ==
  LET open(i) == \A j \in 1 .. i - 1 : ~PrecedingIncomplete(g[j])
  IN UNION { { [g EXCEPT ![i] = d] : d \in IF open(i) THEN Onward(g[i], Unlocked) ELSE {g[i]} } : i \in DOMAIN g }
LOCAL Read(groups) == UNION { Reading(g) : g \in groups }
LOCAL Wholly(groups) == Read(Read(Read(Read(groups))))
ASSUME OrderedGroupsFinish ==
  \A first, second \in Fresh :
    \A g \in Wholly({<<first, second>>}) :
      LET stuck(i) == g[i] = Opened(IssuedAs("no_action"))
      IN /\ (\E h \in Wholly({g}) : \A i \in 1 .. 2 : h[i].completed) <=> ~stuck(1) /\ ~stuck(2)
         /\ stuck(1) /\ ~g[2].completed => \A h \in Wholly({g}) : ~h[2].completed

(***************************************************************************)
(* Templates: every family of up to three versions, in any order of calls. *)
(***************************************************************************)
LOCAL Words == {"a", "b"}
LOCAL Edits(f) ==
  (IF Len(f) < 3 THEN { CreateVersion(f, w) : w \in Words } ELSE {}) \cup
  UNION { {PublishVersion(f, v), ArchiveVersion(f, v)} \cup { UpdateVersion(f, v, w) : w \in Words } : v \in DOMAIN f }
LOCAL Families == LET more[n \in 0 .. 9] == IF n = 0 THEN {<<>>} ELSE more[n - 1] \cup UNION { Edits(f) : f \in more[n - 1] }
                  IN more[9]

\* A version that was published keeps its text for good and never becomes a draft again,
\* although publish and archive order the calls and the trigger only backs them: the
\* trigger never has to refuse what the calls let through.  And letters come from nothing
\* but published text.
ASSUME PublishedTextStands ==
  \A f \in Families : \A g \in Edits(f) : \A v \in DOMAIN f :
    /\ TemplateGuard(f[v], g[v])
    /\ f[v].status # "draft" => g[v].body = f[v].body /\ g[v].status # "draft"
    /\ MayGenerate(f, v) /\ MayGenerate(g, v) => g[v].body = f[v].body

\* The list shows a family once, by its current version if it has one.  Which one is
\* current goes by number and not by when it was published: an older draft published
\* later does not become current, and archiving the current one brings back the one before.
ASSUME OneCurrentVersion ==
  /\ \A f \in Families \ {<<>>} :
       /\ Cardinality(ListedVersions(f)) = 1
       /\ { v \in DOMAIN f : IsCurrent(f, v) } = IF PublishedVersions(f) = {} THEN {} ELSE ListedVersions(f)
  /\ \E f \in Families : Len(f) = 2 /\ ~IsCurrent(PublishVersion(f, 1), 1) /\ f[1].status = "draft"
  /\ \E f \in Families : Len(f) = 2 /\ IsCurrent(f, 2) /\ IsCurrent(ArchiveVersion(f, 2), 1)

(***************************************************************************)
(* Categories: three of them, one no longer in the lookup list.            *)
(***************************************************************************)
LOCAL Roles == {"hr", "manager"}
LOCAL Rules == UNION { [cs -> SUBSET Roles] : cs \in SUBSET {"letter", "medical", "old"} }

\* "Deny-by-default": of the categories in use one sees those whose roles, or the fallback
\* where none are set, one holds, whatever else there is; and one's own letters always.
ASSUME CategoriesAreDenied ==
  \A rules \in Rules, fallback, roles \in SUBSET Roles, own \in BOOLEAN, c \in {"letter", "medical"} :
    DocumentVisible(VisibleCategoryCodes(rules, fallback, roles, {"letter", "medical"}), own, c)
      <=> own \/ (IF c \in DOMAIN rules THEN rules[c] ELSE fallback) \cap roles # {}

\* A category that was deleted is not denied by its own rule: its letters are shown to
\* whoever sees all that are left, and to nobody else.
ASSUME DeletedCategoriesFollowTheOthers ==
  \A rules \in Rules, fallback, roles \in SUBSET Roles :
    LET allowed == VisibleCategoryCodes(rules, fallback, roles, {"letter", "medical"})
    IN DocumentVisible(allowed, FALSE, "old")
         <=> \A c \in {"letter", "medical"} : DocumentVisible(allowed, FALSE, c)


(***************************************************************************)
(* SharePoint (packages/m365): one request to Graph, answered by statuses  *)
(* in turn, and a file sent in chunks.                                     *)
(***************************************************************************)
NoHeader == -1
Retryable == {429, 503, 504, 509}
GraphErrorClass(status) ==
  CASE status < 400 -> "ok" [] status \in Retryable \/ status >= 500 -> "transient" [] status \in 400 .. 499 \ Retryable -> "permanent"

\* retryDelayMs; seconds is the Retry-After header, NoHeader when there is none to go by.
RetryDelay(seconds, attempt) == IF seconds >= 0 THEN Min({seconds * 1000, 60000}) ELSE Min({2 ^ attempt * 500, 30000})

\* authorised, to what its caller makes of the answer; answers are pairs of status and header.
Authorised(answers, maxAttempts, token) ==
  LET settled == { n \in 1 .. maxAttempts : answers[n][1] \notin Retryable }
      calls   == IF settled = {} THEN maxAttempts ELSE Min(settled)
  IN IF ~token THEN [calls |-> 0, waits |-> <<>>, outcome |-> "transient"]
     ELSE [calls   |-> calls,
           waits   |-> [ n \in 1 .. calls - 1 |-> RetryDelay(answers[n][2], n - 1) ],
           outcome |-> GraphErrorClass(answers[calls][1])]

\* deleteFile.
DeleteOutcome(answers, maxAttempts, token) ==
  LET sent == Authorised(answers, maxAttempts, token)
  IN IF sent.calls > 0 /\ answers[sent.calls][1] = 404 THEN "ok" ELSE sent.outcome

\* uploadFile: one request for a small file, else chunks until one is refused.
UploadRanges(total, limit, chunk) ==
  IF total <= limit THEN << <<0, total - 1>> >>
  ELSE [ n \in 1 .. (total + chunk - 1) \div chunk |-> <<(n - 1) * chunk, Min({n * chunk, total}) - 1>> ]
Uploaded(ranges, refused) == LET bad == { n \in DOMAIN ranges : n \in refused } IN IF bad = {} THEN ranges ELSE SubSeq(ranges, 1, Min(bad))

\* A throttled Graph is asked maxAttempts times and waited for as long as it says, within a
\* minute, never after the last; a refusal is final at once; and what can be tried again is
\* told from what cannot.  A 500 is not tried again here, though it counts as transient.
ASSUME ThrottlingIsRespected ==
  \A answers \in [1 .. 3 -> {200, 403, 404, 429, 500, 503} \X {NoHeader, 0, 2, 90}], token \in BOOLEAN :
    LET sent == Authorised(answers, 3, token)
        last == answers[sent.calls][1]
    IN /\ sent.calls <= 3 /\ (sent.calls = 0 <=> ~token)
       /\ Len(sent.waits) + 1 = sent.calls \/ sent.calls = 0
       /\ \A n \in DOMAIN sent.waits :
            /\ answers[n][1] \in {429, 503} /\ sent.waits[n] <= 60000
            /\ answers[n][2] * 1000 <= 60000 => sent.waits[n] >= answers[n][2] * 1000
       /\ token => /\ sent.outcome = "permanent" <=> last \in {403, 404}
                   /\ last \in {429, 503} <=> sent.calls = 3 /\ \A n \in 1 .. 3 : answers[n][1] \in {429, 503}
                   /\ answers[1][1] = 500 => sent.calls = 1 /\ sent.outcome = "transient"
       /\ DeleteOutcome(answers, 3, token) = "permanent" <=> token /\ last = 403
       /\ DeleteOutcome(answers, 3, token) = "ok" <=> token /\ last \in {200, 404}

\* "Off-by-one here produces a corrupt file that uploads successfully": the ranges that were
\* sent hold every byte once, in order, none empty and none above the size of a chunk; a
\* chunk that is refused is the last that is sent.
ASSUME ChunksTileTheFile ==
  \A total \in 1 .. 13, refused \in SUBSET (1 .. 3) :
    LET ranges == UploadRanges(total, 4, 3)
        sent   == Uploaded(ranges, refused)
    IN /\ ranges[1][1] = 0 /\ Last(ranges)[2] = total - 1
       /\ \A n \in DOMAIN ranges :
            /\ ranges[n][1] <= ranges[n][2]
            /\ n > 1 => ranges[n][1] = ranges[n - 1][2] + 1 /\ total > 4
            /\ ranges[n][2] - ranges[n][1] < IF total > 4 THEN 3 ELSE 4
            /\ n < Len(ranges) => ranges[n][2] - ranges[n][1] = 2
       /\ sent # ranges => Len(sent) \in refused
       /\ refused \cap (1 .. Len(sent) - 1) = {}

(***************************************************************************)
(* Reading a letter back (apps/api/src/routes/documents.ts) and the pack   *)
(* of evidence about it (routers/platform/documents.ts).  Bytes stand for  *)
(* their hash too; NoBytes is none staged, none hashed, none signed.       *)
(***************************************************************************)
NoBytes == "none"

ContentAnswer(doc) ==
  CASE doc.staged # NoBytes -> [answer |-> "bytes", bytes |-> doc.staged, header |-> doc.hash]
    [] doc.staged = NoBytes /\ doc.hash = NoBytes -> [answer |-> "not_rendered"]
    [] doc.staged = NoBytes /\ doc.hash # NoBytes -> [answer |-> "filed_remotely"]

VerifyStoredBytes(doc, signed) ==
  IF NoBytes \in {doc.hash, doc.staged} THEN [recomputed |-> FALSE, matches |-> FALSE]
  ELSE [recomputed |-> TRUE, matches |-> doc.staged = doc.hash /\ signed \in {NoBytes, doc.staged}]

\* journalContentAccess, of somebody who got past DocumentVisible, before the answer.
JournalsAccess(rules, own, category) == ~own /\ category \in DOMAIN rules

\* "An unverifiable claim reported as verified is worse than an honest gap": a pack that
\* claims a match was made from bytes that are those hashed and those signed.  What is shown
\* as the bytes of the hash that is sent along may be others, which nobody but the pack tells:
\* an upload is staged where the letter is.
ASSUME PacksClaimNoMore ==
  \A doc \in [staged : {"letter", "upload", NoBytes}, hash : {"letter", NoBytes}], signed \in {"letter", NoBytes} :
    LET pack == VerifyStoredBytes(doc, signed)
        view == ContentAnswer(doc)
    IN /\ pack.matches => pack.recomputed /\ view.answer = "bytes" /\ view.bytes = view.header /\ signed \in {NoBytes, view.bytes}
       /\ view.answer = "bytes" /\ view.header # NoBytes => (pack.matches <=> view.bytes = view.header)
       /\ pack.recomputed <=> view.answer = "bytes" /\ doc.hash # NoBytes

\* The journal knows who read another's letter of a category with a rule of its own, and of
\* no other: a category some roles may not see by the fallback alone is read without a trace,
\* and one that all may see by its rule with one.
ASSUME JournalFollowsTheRules ==
  LET denied(rules, fallback) ==
        { r \in Roles : ~DocumentVisible(VisibleCategoryCodes(rules, fallback, {r}, {"letter", "medical"}), FALSE, "medical") }
  IN /\ \A rules \in Rules, c \in {"letter", "medical"} : ~JournalsAccess(rules, TRUE, c)
     /\ \E rules \in Rules, fallback \in SUBSET Roles : denied(rules, fallback) # {} /\ ~JournalsAccess(rules, FALSE, "medical")
     /\ \E rules \in Rules, fallback \in SUBSET Roles : denied(rules, fallback) = {} /\ JournalsAccess(rules, FALSE, "medical")
     /\ \A rules \in Rules : denied(rules, Roles) # {} => JournalsAccess(rules, FALSE, "medical")
=============================================================================
