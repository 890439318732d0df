------------------------------ MODULE Approval ------------------------------
(***************************************************************************)
(* Content-bound approval (orchestrator/approval.go and the two dispatch   *)
(* decisions of pipeline.go that consult it).  Applying a required label   *)
(* approves the issue as it read at that moment.  A decision reads the     *)
(* change log, then the content together with its last edit time, and the  *)
(* loop admits the content, and pins it for every attempt's prompt, only   *)
(* if no edit can have followed the approving instant.                     *)
(*                                                                         *)
(* People label, unlabel and edit between any two of those steps.  The     *)
(* tracker's clock has a second's granularity: several events share a      *)
(* second.  `seen` in an event, the content that stood when it happened,   *)
(* and `upto` in the pin, the length of the log the decision read, are     *)
(* history variables; the code never reads them.                           *)
(***************************************************************************)
EXTENDS Integers, Sequences, FiniteSets

CONSTANTS
    LabelSpellings,     \* spellings under which people apply labels
    RequiredSets,       \* values of tracker.required_labels over reloads
    MaxHistory,         \* bound on events of the change log
    MaxContent,         \* bound on edits
    MaxSecond,          \* bound on the tracker's clock
    MaxDecisions        \* bound on dispatch decisions

ASSUME ApprovalAssumption ==
    /\ {MaxHistory, MaxContent, MaxSecond, MaxDecisions} \subseteq Nat
    /\ \A r \in RequiredSets : r # {}

\* strings.EqualFold on the labels of the instance.
Folded(label) == IF label = "QUEUE" THEN "queue" ELSE label

Never == -1

VARIABLES
    trackerSecond,  \* the tracker's clock
    issueLog,       \* the change log: labeled and unlabeled events
    carries,        \* the labels on the issue, by their folded name
    page,           \* the content, numbered by edit, and its last edit
    required,       \* the required labels of the definition in force
    decision,       \* the dispatch decision under way
    pinned,         \* the content the record renders, and its instant
    stage           \* the record: queued, waiting, parked or gone

approvalVars == <<trackerSecond, issueLog, carries, page, required, decision, pinned, stage>>

NoDecision == [on |-> FALSE, labels |-> {}, history |-> << >>, knows |-> FALSE, stood |-> {},
               read |-> [status |-> "unread", content |-> 0, at |-> Never], failed |-> "none",
               count |-> 0]
NoPin == [content |-> Never, at |-> Never, upto |-> 0]

ApprovalInit ==
    /\ trackerSecond = 0
    /\ issueLog = << >>
    /\ carries = {}
    /\ page = [content |-> 0, edited |-> Never]
    /\ required \in {CHOOSE r \in RequiredSets : TRUE}
    /\ decision = NoDecision
    /\ pinned = NoPin
    /\ stage = "queued"

-----------------------------------------------------------------------------
(* The pure half: which instant approved, and may this content go out *)

\* standingLabeledEvent: the last application of a label that no removal
\* followed, or no event.
NoEvent == [id |-> 0, kind |-> "none", subject |-> "none", at |-> Never, seen |-> Never]
StandingEverApplied(history, label) ==
    LET walk[i \in 0..Len(history)] ==
          IF i = 0 THEN NoEvent
          ELSE IF Folded(history[i].subject) = label /\ history[i].kind = "labeled"
               THEN history[i] ELSE walk[i - 1]
    IN walk[Len(history)]
StandingExactly(history, label) ==
    LET walk[i \in 0..Len(history)] ==
          IF i = 0 THEN NoEvent
          ELSE IF history[i].subject # label THEN walk[i - 1]
          ELSE IF history[i].kind = "labeled" THEN history[i] ELSE NoEvent
    IN walk[Len(history)]
StandingLabeledEvent(history, label) ==
    LET walk[i \in 0..Len(history)] ==
          IF i = 0 THEN NoEvent
          ELSE IF Folded(history[i].subject) # label THEN walk[i - 1]
          ELSE IF history[i].kind = "labeled" THEN history[i] ELSE NoEvent
    IN walk[Len(history)]

LatestOf(S) == CHOOSE x \in S : \A y \in S : y <= x

\* approvingInstant: the latest standing application of the required labels,
\* if every one of them stands.
ApprovingInstant(history, labels) ==
    IF labels = {} \/ \E l \in labels : StandingLabeledEvent(history, l) = NoEvent
    THEN Never
    ELSE LatestOf({StandingLabeledEvent(history, l).at : l \in labels})

\* StandingApproval and approvalCycleAnchor: the same event, by its id.
StandingApproval(history, labels) ==
    IF labels = {} \/ \E l \in labels : StandingLabeledEvent(history, l).id <= 0
    THEN 0
    ELSE LatestOf({StandingLabeledEvent(history, l).id : l \in labels})

\* checkApproval: "unknown" when the instant or the edit is not stated, "drift"
\* when the edit is later, "unorderable" within one second.
Refusals == {"instant", "edit", "drift", "unorderable"}
CheckApprovalInclusive(history, labels, read) ==
    LET at == ApprovingInstant(history, labels) IN
    CASE at = Never -> "instant"
      [] read.status = "never" -> "admitted"
      [] read.status = "at" -> IF read.at > at THEN "drift" ELSE "admitted"
      [] OTHER -> "edit"
CheckApproval(history, labels, read) ==
    LET at == ApprovingInstant(history, labels) IN
    CASE at = Never -> "instant"
      [] read.status = "never" -> "admitted"
      [] read.status = "at" -> CASE read.at > at -> "drift"
                                 [] read.at = at -> "unorderable"
                                 [] OTHER -> "admitted"
      [] OTHER -> "edit"

-----------------------------------------------------------------------------
(* People *)

Log(kind, label) ==
    Append(issueLog, [id |-> Len(issueLog) + 1, kind |-> kind, subject |-> label,
                      at |-> trackerSecond, seen |-> page.content])

PersonLabels ==
    /\ stage # "gone" /\ Len(issueLog) < MaxHistory
    /\ \E label \in LabelSpellings :
         /\ Folded(label) \notin carries
         /\ issueLog' = Log("labeled", label)
         /\ carries' = carries \cup {Folded(label)}
    /\ UNCHANGED <<trackerSecond, page, required, decision, pinned, stage>>

PersonUnlabels ==
    /\ stage # "gone" /\ Len(issueLog) < MaxHistory
    /\ \E label \in LabelSpellings :
         /\ Folded(label) \in carries
         /\ issueLog' = Log("unlabeled", label)
         /\ carries' = carries \ {Folded(label)}
    /\ UNCHANGED <<trackerSecond, page, required, decision, pinned, stage>>

PersonEditsContent ==
    /\ stage # "gone" /\ page.content < MaxContent
    /\ page' = [content |-> page.content + 1, edited |-> trackerSecond]
    /\ UNCHANGED <<trackerSecond, issueLog, carries, required, decision, pinned, stage>>

TrackerSecond ==
    /\ stage # "gone" /\ trackerSecond < MaxSecond
    /\ trackerSecond' = trackerSecond + 1
    /\ UNCHANGED <<issueLog, carries, page, required, decision, pinned, stage>>

\* A reload puts another required set in force.  (A decision under way keeps the
\* set it captured, so a change while it reads is the same as one after it.)
RequiredChanges ==
    /\ stage # "gone" /\ ~decision.on
    /\ \E r \in RequiredSets \ {required} : required' = r
    /\ UNCHANGED <<trackerSecond, issueLog, carries, page, decision, pinned, stage>>

-----------------------------------------------------------------------------
(* The reads of one decision *)

\* beginApproval and the timer's re-fetch: the required set is captured with
\* the adapter that answers.
BeginDecision ==
    /\ ~decision.on
    /\ stage \in {"queued", "waiting"}
    /\ decision.count < MaxDecisions
    /\ decision' = [NoDecision EXCEPT !.on = TRUE, !.labels = required,
                                      !.count = decision.count + 1]
    /\ UNCHANGED <<trackerSecond, issueLog, carries, page, required, pinned, stage>>

\* The change log is read before the content.
ContentAlreadyRead == decision.read.status # "unread"
HistoryNextLast == ContentAlreadyRead /\ ~decision.knows
HistoryNext == ~decision.knows

ReadHistory ==
    /\ decision.on /\ decision.failed = "none"
    /\ HistoryNext
    /\ decision' = [decision EXCEPT !.knows = TRUE, !.history = issueLog, !.stood = carries]
    /\ UNCHANGED <<trackerSecond, issueLog, carries, page, required, pinned, stage>>

\* ContentApproval: the bytes and their last edit from one response, the later
\* of the body's edit and the title's; a tracker without the read says nothing.
ContentFactsBodyOnly ==
    {[status |-> IF page.content = 0 THEN "never" ELSE "at",
      content |-> page.content, at |-> IF page.content = 1 THEN page.edited ELSE 0]}
ContentFacts == {[status |-> IF page.edited = Never THEN "never" ELSE "at",
                  content |-> page.content, at |-> page.edited],
                 [status |-> "unknown", content |-> 0, at |-> Never]}
ReadContent ==
    /\ decision.on /\ decision.failed = "none"
    /\ ~HistoryNext /\ ~ContentAlreadyRead
    /\ \E facts \in ContentFacts : decision' = [decision EXCEPT !.read = facts]
    /\ UNCHANGED <<trackerSecond, issueLog, carries, page, required, pinned, stage>>

\* Either read fails, or says the issue is not there.
ReadFails ==
    /\ decision.on /\ decision.failed = "none"
    /\ ~decision.knows \/ ~ContentAlreadyRead
    /\ \E why \in {"error", "gone"} : decision' = [decision EXCEPT !.failed = why]
    /\ UNCHANGED <<trackerSecond, issueLog, carries, page, required, pinned, stage>>

-----------------------------------------------------------------------------
(* The verdicts of the loop *)

Decided == [NoDecision EXCEPT !.count = decision.count]
ApprovalVerdict == CheckApproval(decision.history, decision.labels, decision.read)
FactsRead == decision.on /\ decision.failed = "none" /\ decision.knows /\ ContentAlreadyRead

\* A failed read is asked again later; a gone issue leaves the machine.
OnReadFailed ==
    /\ decision.on /\ decision.failed # "none"
    /\ stage' = IF decision.failed = "gone" THEN "gone" ELSE stage
    /\ decision' = Decided
    /\ UNCHANGED <<trackerSecond, issueLog, carries, page, required, pinned>>

\* A stated refusal parks, keeping the claim and the pin.
OnRefused ==
    /\ FactsRead /\ ApprovalVerdict \in Refusals
    /\ stage' = "parked"
    /\ decision' = Decided
    /\ UNCHANGED <<trackerSecond, issueLog, carries, page, required, pinned>>

\* onApproved pins; onTimerFetched re-pins only when the instant moved.  The
\* attempt admitted ends in a wait and the next decision.
Repins(at) == stage = "queued" \/ at > pinned.at
OnAdmitted ==
    LET at == ApprovingInstant(decision.history, decision.labels) IN
    /\ FactsRead /\ ApprovalVerdict = "admitted"
    /\ pinned' = IF Repins(at) THEN [content |-> decision.read.content, at |-> at,
                                    upto |-> Len(decision.history)]
                 ELSE pinned
    /\ stage' = "waiting"
    /\ decision' = Decided
    /\ UNCHANGED <<trackerSecond, issueLog, carries, page, required>>

\* The human re-queue resumes a parked record and approves nothing.
PersonRequeues ==
    /\ stage = "parked"
    /\ stage' = "waiting"
    /\ UNCHANGED <<trackerSecond, issueLog, carries, page, required, decision, pinned>>

ApprovalNext ==
    \/ PersonLabels \/ PersonUnlabels \/ PersonEditsContent \/ TrackerSecond \/ RequiredChanges
    \/ BeginDecision \/ ReadHistory \/ ReadContent \/ ReadFails
    \/ OnReadFailed \/ OnRefused \/ OnAdmitted \/ PersonRequeues

ApprovalSpec == ApprovalInit /\ [][ApprovalNext]_approvalVars

-----------------------------------------------------------------------------
(* Properties *)

\* The shape of the state.
ApprovalTypeOK ==
    /\ trackerSecond \in 0..MaxSecond /\ page.content \in 0..MaxContent
    /\ stage \in {"queued", "waiting", "parked", "gone"}
    /\ required \in RequiredSets

\* What an attempt is prompted with is what the issue said when it was
\* approved: every label the decision knew to be applied in the approving trackerSecond
\* saw the very content pinned, and there is such a label (checkApproval).
PinWasApproved ==
    pinned # NoPin =>
        LET approving == {i \in 1..pinned.upto :
                            issueLog[i].kind = "labeled" /\ issueLog[i].at = pinned.at} IN
        /\ approving # {}
        /\ \A i \in approving : issueLog[i].seen = pinned.content

\* Nothing goes out for a label the issue did not carry: an admitted decision
\* had every required label on the issue when its change log was read.
AdmittedStood ==
    (FactsRead /\ ApprovalVerdict = "admitted") => decision.labels \subseteq decision.stood

\* An approval the issue carries is found: with the log and the labels read
\* together, the anchor and the instant exist exactly when every label stands.
StandingIsFound ==
    (decision.on /\ decision.knows) =>
        /\ (StandingApproval(decision.history, decision.labels) > 0)
             <=> decision.labels \subseteq decision.stood
        /\ (ApprovingInstant(decision.history, decision.labels) # Never)
             <=> decision.labels \subseteq decision.stood

\* Re-pinning is never needed for the bytes: a later decision admitted against
\* the same instant read the content already pinned (pipeline.go, onTimerFetched).
RepinAgrees ==
    (FactsRead /\ ApprovalVerdict = "admitted" /\ stage # "queued" /\ pinned # NoPin
       /\ ApprovingInstant(decision.history, decision.labels) = pinned.at)
        => decision.read.content = pinned.content

ApprovalSafe ==
    /\ ApprovalTypeOK /\ PinWasApproved /\ AdmittedStood /\ StandingIsFound /\ RepinAgrees

=============================================================================
