-------------------------- MODULE ApprovalWorkflow --------------------------
(***************************************************************************)
(* The approval record of one campaign plan: requests of ad managers that  *)
(* edit it (AdCopyService, ApprovalService), submit it, and of reviewers   *)
(* that decide on it in the console or by the links of a mail.             *)
(*                                                                         *)
(* A request loads the plan, changes its own copy and commits: the columns *)
(* that differ from the loaded ones are written, the others are left as    *)
(* they are by then.  The value of a column is the number of the write it  *)
(* stems from; 0 is the value the plan was generated with, or none.        *)
(***************************************************************************)
EXTENDS Naturals

CONSTANTS
  Sessions,   \* threads that serve requests
  Kinds,      \* the requests that are made
  MaxWrites   \* bound: requests that write

Edits     == {"override", "pacing", "keywords", "assets", "regenerate", "groups"}
Decisions == {"approve", "reject", "approve_link", "reject_link", "changes"}

ASSUME KindsAssumption == Kinds \subseteq Edits \cup Decisions \cup {"submit", "resend"}
ASSUME BoundAssumption == MaxWrites \in Nat

VARIABLES
  plan,      \* the committed row
  pc,        \* pc[s]: idle, write (plan loaded), mail
  kind,      \* kind[s]: the request s serves
  link,      \* link[s]: the token of the link that was followed
  row,       \* row[s]: the plan as loaded, then with the changes of s
  writes,    \* the number of the latest write
  event,     \* the newest row of approval_events on a status or an edit
  links,     \* tokens of the links in mails that were sent
  settled,   \* history: the content that was approved
  behind,    \* history: sessions another one has written since they loaded
  raced      \* history: an edit by a session in behind followed the approval

vars == <<plan, pc, kind, link, row, writes, event, links, settled, behind, raced>>

-----------------------------------------------------------------------------
Statuses == {"draft", "submitted", "approved", "rejected", "changes_requested"}
Kpis     == {"budget", "target_leads"}

\* overrides: the KPIs that have a value, and the latest override.
\* payload: result_payload, the ad groups, whether they were edited by hand,
\* and the rest.  assets is generated_assets, manual is asset_edits.
Numbers == 0..MaxWrites
Plans ==
  [status: Statuses, reviewed: Numbers, token: Numbers,
   overrides: [kpis: SUBSET Kpis, at: Numbers],
   pacing: Numbers, keywords: Numbers, scores: Numbers,
   assets: Numbers, manual: Numbers,
   payload: [groups: Numbers, hand: BOOLEAN, rest: Numbers]]

\* What a reviewer reviews.
Content(p) ==
  <<p.overrides, p.pacing, p.keywords, p.scores, p.assets, p.manual, p.payload>>

Generated(kpis) ==
  [status |-> "draft", reviewed |-> 0, token |-> 0,
   overrides |-> [kpis |-> kpis, at |-> 0],
   pacing |-> 0, keywords |-> 0, scores |-> 0, assets |-> 0, manual |-> 0,
   payload |-> [groups |-> 0, hand |-> FALSE, rest |-> 0]]

Init ==
  /\ \E kpis \in SUBSET Kpis : plan = Generated(kpis)
  /\ pc = [s \in Sessions |-> "idle"]
  /\ kind = [s \in Sessions |-> "submit"]
  /\ link = [s \in Sessions |-> 0]
  /\ row = [s \in Sessions |-> Generated({})]
  /\ writes = 0
  /\ event = "generated"
  /\ links = {}
  /\ settled = Content(plan)
  /\ behind = {}
  /\ raced = FALSE

-----------------------------------------------------------------------------
(* What a request makes of the plan p it has loaded; n is its write.       *)

\* Mutant of Reset: a submitted plan is edited and stays submitted.
ResetDecided(p, from) ==
  IF p.status \in from \ {"submitted"} THEN [p EXCEPT !.status = "draft"] ELSE p

\* Mutant of Reset: an edit leaves the status alone.
ResetNever(p, from) == p

\* An edited plan has to be approved again.
Reset(p, from) == IF p.status \in from THEN [p EXCEPT !.status = "draft"] ELSE p

AnyReview == {"submitted", "approved", "rejected", "changes_requested"}

\* ApprovalService.set_override and set_budget_pacing also clear reviewed_at
\* when they reset the status; set_override does not undo a change request.
Unreviewed(p, from) ==
  IF p.status \in from THEN [Reset(p, from) EXCEPT !.reviewed = 0] ELSE p

Override(p, n) ==
  {[Unreviewed(p, AnyReview \ {"changes_requested"}) EXCEPT
      !.overrides = [kpis |-> kpis, at |-> n]] :
     kpis \in {p.overrides.kpis} \cup {p.overrides.kpis \cup {f} : f \in Kpis}
                                 \cup {p.overrides.kpis \ {f} : f \in Kpis}}

Pacing(p, n) == {[Unreviewed(p, AnyReview) EXCEPT !.pacing = n]}

\* _refresh_ad_groups leaves ad groups that were edited by hand.
MayRefresh(p) == IF p.payload.hand THEN {FALSE} ELSE BOOLEAN

\* The copy is not generated again once it was edited by hand.
MayCopy(p) == IF p.manual = 0 THEN BOOLEAN ELSE {FALSE}

\* save_keyword_edits: the demand curve, the copy (unless edited by hand) and
\* the ad groups are derived again, each of them only if that succeeds.
Derived(q, n, demand, copied, refreshed) ==
  [q EXCEPT
     !.keywords = n,
     !.scores   = IF demand THEN n ELSE q.scores,
     !.assets   = IF copied THEN n ELSE q.assets,
     !.payload  = [groups |-> IF refreshed THEN n ELSE q.payload.groups,
                   hand   |-> q.payload.hand,
                   rest   |-> IF demand \/ copied THEN n ELSE q.payload.rest]]

Keywords(p, n) ==
  {Derived(Reset(p, AnyReview), n, demand, copied, refreshed) :
     demand \in BOOLEAN,
     copied \in MayCopy(p),
     refreshed \in MayRefresh(p)}

Assets(p, n) == {[Reset(p, AnyReview) EXCEPT !.manual = n]}

Regenerate(p, n) ==
  {[Reset(p, AnyReview) EXCEPT !.manual = 0, !.assets = n, !.payload.rest = n]}

Groups(p, n) ==
  {[Reset(p, AnyReview) EXCEPT !.payload.groups = n, !.payload.hand = TRUE]}

EnsureToken(p, n) == [p EXCEPT !.token = IF @ = 0 THEN n ELSE @]

Decided(p, status, n) == [p EXCEPT !.status = status, !.reviewed = n]

Outcomes(k, p, n) ==
  CASE k = "override"   -> Override(p, n)
    [] k = "pacing"     -> Pacing(p, n)
    [] k = "keywords"   -> Keywords(p, n)
    [] k = "assets"     -> Assets(p, n)
    [] k = "regenerate" -> Regenerate(p, n)
    [] k = "groups"     -> Groups(p, n)
    [] k = "submit"     -> {[EnsureToken(p, n) EXCEPT !.status = "submitted"]}
    [] k = "resend"     -> {EnsureToken(p, n)}
    [] k = "changes"    -> {Decided(p, "changes_requested", n)}
    [] k \in {"approve", "approve_link"} -> {Decided(p, "approved", n)}
    [] k \in {"reject", "reject_link"}   -> {Decided(p, "rejected", n)}

-----------------------------------------------------------------------------
\* The request of s is answered and its session closed.
End(s) ==
  /\ pc' = [pc EXCEPT ![s] = "idle"]
  /\ kind' = [kind EXCEPT ![s] = "submit"]
  /\ link' = [link EXCEPT ![s] = 0]
  /\ row' = [row EXCEPT ![s] = Generated({})]

\* The request is received and the plan loaded.
Load(s) ==
  /\ pc[s] = "idle" /\ writes < MaxWrites
  /\ \E k \in Kinds :
       /\ kind' = [kind EXCEPT ![s] = k]
       /\ IF k \in {"approve_link", "reject_link"}
            THEN \E t \in links : link' = [link EXCEPT ![s] = t]
            ELSE UNCHANGED link
  /\ row' = [row EXCEPT ![s] = plan]
  /\ behind' = behind \ {s}
  /\ pc' = [pc EXCEPT ![s] = "write"]
  /\ UNCHANGED <<plan, writes, event, links, settled, raced>>

\* Mutant of Refused: plans are submitted without their KPIs.
RefusedLink(s) ==
  kind[s] \in {"approve_link", "reject_link"} /\ link[s] # row[s].token

\* The KPI gate of submit, and the token check of approve_via_token.
Refused(s) ==
  \/ kind[s] = "submit" /\ row[s].overrides.kpis # Kpis
  \/ kind[s] \in {"approve_link", "reject_link"} /\ link[s] # row[s].token

\* Mutant of Merge: the whole loaded row is written back.
MergeAll(now, loaded, new) == new

\* The columns that differ from the loaded ones are written.
Merge(now, loaded, new) ==
  [c \in DOMAIN now |-> IF new[c] = loaded[c] THEN now[c] ELSE new[c]]

\* What follows the commit: the mail to the reviewers.  (The mail that tells the
\* submitter of a decision by link changes nothing.)
After(k) == IF k \in {"submit", "resend"} THEN "mail" ELSE "idle"

EventOf(k) ==
  CASE k \in {"approve", "approve_link"} -> "approved"
    [] k \in {"reject", "reject_link"}   -> "rejected"
    [] k = "changes"                     -> "changes_requested"
    [] k = "submit"                      -> "submitted"
    [] OTHER                             -> k

\* The changed row and the event are flushed and committed.
Write(s) ==
  /\ pc[s] = "write" /\ ~Refused(s) /\ writes < MaxWrites
  /\ writes' = writes + 1
  /\ \E new \in Outcomes(kind[s], row[s], writes + 1) :
       /\ plan' = Merge(plan, row[s], new)
       /\ IF After(kind[s]) = "idle" THEN End(s)
          ELSE /\ pc' = [pc EXCEPT ![s] = After(kind[s])]
               /\ row' = [row EXCEPT ![s] = new]
               /\ UNCHANGED <<kind, link>>
  /\ event' = IF kind[s] = "resend" THEN event ELSE EventOf(kind[s])
  /\ settled' = IF EventOf(kind[s]) = "approved" THEN Content(plan') ELSE settled
  /\ raced' = IF EventOf(kind[s]) = "approved" THEN FALSE
              ELSE raced \/ (kind[s] \in Edits /\ s \in behind)
  /\ behind' = (behind \ {s}) \cup {r \in Sessions \ {s} : pc[r] = "write"}
  /\ UNCHANGED links

\* A request that is refused, that rejects its input, or that fails.
Drop(s) ==
  /\ pc[s] = "write"
  /\ End(s)
  /\ behind' = behind \ {s}
  /\ UNCHANGED <<plan, writes, event, links, settled, raced>>

\* send_approval mails the session's copy of the plan, with links that carry
\* its token unless it is approved; there may be nobody to mail, or mail fails.
Mail(s) ==
  /\ pc[s] = "mail"
  /\ End(s)
  /\ links' \in {links, links \cup
                   (IF row[s].status = "approved" THEN {} ELSE {row[s].token})}
  /\ UNCHANGED <<plan, writes, event, settled, behind, raced>>

Next == \E s \in Sessions : Load(s) \/ Write(s) \/ Drop(s) \/ Mail(s)

Spec == Init /\ [][Next]_vars

-----------------------------------------------------------------------------
(* Properties.                                                             *)

\* Every variable has its type.
TypeOK ==
  /\ plan \in Plans
  /\ pc \in [Sessions -> {"idle", "write", "mail"}]
  /\ kind \in [Sessions -> Kinds \cup {"submit"}]
  /\ link \in [Sessions -> Numbers]
  /\ row \in [Sessions -> Plans]
  /\ writes \in Numbers
  /\ event \in {"generated", "submitted", "approved", "rejected",
                "changes_requested"} \cup Edits
  /\ links \subseteq Numbers
  /\ behind \subseteq Sessions
  /\ raced \in BOOLEAN

\* An approved plan is the plan that was approved: any later edit, of whatever
\* part, takes the approval back.
ApprovedUnchanged == plan.status = "approved" => Content(plan) = settled

\* The same for any number of sessions, unless an edit that had loaded the plan
\* before another session wrote it followed the approval.
ApprovedUnlessRaced ==
  plan.status = "approved" /\ ~raced => Content(plan) = settled

\* Submitting, mailing or deciding on a plan never changes what is in it, even
\* when the session had loaded it before an edit.
ContentOnlyByEdits ==
  [][Content(plan') # Content(plan) =>
       \E s \in Sessions : pc[s] = "write" /\ kind[s] \in Edits /\ pc'[s] = "idle"]_vars

\* The newest event tells the status: the trail and the record agree.
Explains(e) ==
  CASE e \in {"submitted", "approved", "rejected", "changes_requested"} -> {e}
    [] e = "override" -> {"draft", "changes_requested"}
    [] OTHER          -> {"draft"}

StatusExplained == plan.status \in Explains(event)

\* No plan waits for approval without a budget and a target of leads: submit
\* checks them, and an override that takes one away resets the plan.
SubmittedHasKpis == plan.status = "submitted" => plan.overrides.kpis = Kpis

=============================================================================
