--------------------------- MODULE ApprovalProofs ---------------------------
(***************************************************************************)
(* An approval covers the content it was given for, unless an edit had     *)
(* loaded the plan before another session wrote it: for any number of      *)
(* sessions, any kinds of requests and any bound.                          *)
(***************************************************************************)
EXTENDS ApprovalWorkflow, TLAPS

AllKinds == Edits \cup Decisions \cup {"submit", "resend"}

\* The number of what was never written.
LEMMA Zero == 0 \in Numbers
  BY BoundAssumption DEF Numbers

\* Resetting the status leaves the other columns.
LEMMA ResetType ==
  ASSUME NEW p \in Plans, NEW from
  PROVE  /\ Reset(p, from) \in Plans
         /\ Unreviewed(p, from) \in Plans
  BY Zero DEF Reset, Unreviewed, Plans, Statuses

\* Writing to a part of the payload leaves the other columns and the status.
LEMMA PayloadType ==
  ASSUME NEW q \in Plans, NEW n \in Numbers
  PROVE  /\ [q EXCEPT !.payload.rest = n] \in Plans
         /\ [q EXCEPT !.payload.rest = n].status = q.status
         /\ [q EXCEPT !.payload.groups = n, !.payload.hand = TRUE] \in Plans
         /\ [q EXCEPT !.payload.groups = n, !.payload.hand = TRUE].status = q.status
<1>1. /\ [q.payload EXCEPT !.rest = n] \in [groups: Numbers, hand: BOOLEAN, rest: Numbers]
      /\ [q.payload EXCEPT !.groups = n, !.hand = TRUE]
           \in [groups: Numbers, hand: BOOLEAN, rest: Numbers]
  BY DEF Plans
<1>2. [q EXCEPT !.payload.rest = n] = [q EXCEPT !.payload = [q.payload EXCEPT !.rest = n]]
  BY DEF Plans
<1>3. [q EXCEPT !.payload.groups = n, !.payload.hand = TRUE]
        = [q EXCEPT !.payload = [q.payload EXCEPT !.groups = n, !.hand = TRUE]]
  BY DEF Plans
<1>4. ASSUME NEW new \in [groups: Numbers, hand: BOOLEAN, rest: Numbers]
      PROVE  /\ [q EXCEPT !.payload = new] \in Plans
             /\ [q EXCEPT !.payload = new].status = q.status
  BY DEF Plans
<1> QED
  BY <1>1, <1>2, <1>3, <1>4

\* Deriving from keywords leaves the other columns and the status.
LEMMA DerivedType ==
  ASSUME NEW q \in Plans, NEW n \in Numbers,
         NEW demand \in BOOLEAN, NEW copied \in BOOLEAN, NEW refreshed \in BOOLEAN
  PROVE  /\ Derived(q, n, demand, copied, refreshed) \in Plans
         /\ Derived(q, n, demand, copied, refreshed).status = q.status
<1> DEFINE scores == IF demand THEN n ELSE q.scores
           assets == IF copied THEN n ELSE q.assets
           payload == [groups |-> IF refreshed THEN n ELSE q.payload.groups,
                       hand   |-> q.payload.hand,
                       rest   |-> IF demand \/ copied THEN n ELSE q.payload.rest]
<1>1. q.payload \in [groups: Numbers, hand: BOOLEAN, rest: Numbers]
  BY DEF Plans
<1>2. payload \in [groups: Numbers, hand: BOOLEAN, rest: Numbers]
  BY <1>1
<1>3. scores \in Numbers /\ assets \in Numbers
  BY DEF Plans
<1>4. Derived(q, n, demand, copied, refreshed)
        = [q EXCEPT !.keywords = n, !.scores = scores, !.assets = assets,
                    !.payload = payload]
  BY DEF Derived
<1> HIDE DEF scores, assets, payload
<1> QED
  BY <1>2, <1>3, <1>4, ZenonT(30) DEF Plans

\* What saving keywords makes of a plan.
LEMMA KeywordsDerive ==
  ASSUME NEW p, NEW n, NEW new \in Keywords(p, n)
  PROVE  \E demand \in BOOLEAN, copied \in BOOLEAN, refreshed \in BOOLEAN :
           new = Derived(Reset(p, AnyReview), n, demand, copied, refreshed)
<1>1. MayRefresh(p) \subseteq BOOLEAN /\ MayCopy(p) \subseteq BOOLEAN
  BY DEF MayRefresh, MayCopy
<1> QED
  BY <1>1 DEF Keywords

\* A request makes a plan of a plan.
LEMMA OutcomeType ==
  ASSUME NEW p \in Plans, NEW n \in Numbers, NEW k \in AllKinds,
         NEW new \in Outcomes(k, p, n)
  PROVE  new \in Plans
<1> USE ResetType, Zero
<1>1. CASE k = "override"
  BY <1>1 DEF Outcomes, Override, Plans
<1>2. CASE k = "pacing"
  BY <1>2 DEF Outcomes, Pacing, Plans
<1>3. CASE k = "keywords"
  <2>1. PICK demand \in BOOLEAN, copied \in BOOLEAN, refreshed \in BOOLEAN :
          new = Derived(Reset(p, AnyReview), n, demand, copied, refreshed)
    <3>1. new \in Keywords(p, n)
      BY <1>3 DEF Outcomes
    <3> QED
      BY <3>1, KeywordsDerive
  <2>2. Reset(p, AnyReview) \in Plans
    BY ResetType
  <2> QED
    BY <2>1, <2>2, DerivedType
<1>4. CASE k = "assets"
  BY <1>4 DEF Outcomes, Assets, Plans
<1>5. CASE k = "regenerate"
  <2> DEFINE q == [Reset(p, AnyReview) EXCEPT !.manual = 0, !.assets = n]
  <2>1. new = [q EXCEPT !.payload.rest = n]
    BY <1>5 DEF Outcomes, Regenerate, Plans
  <2>2. q \in Plans
    BY DEF Plans
  <2> HIDE DEF q
  <2> QED
    BY <2>1, <2>2, PayloadType
<1>6. CASE k = "groups"
  <2>1. new = [Reset(p, AnyReview) EXCEPT !.payload.groups = n, !.payload.hand = TRUE]
    BY <1>6 DEF Outcomes, Groups
  <2>2. Reset(p, AnyReview) \in Plans
    BY ResetType
  <2> QED
    BY <2>1, <2>2, PayloadType
<1>7. CASE k \in {"submit", "resend"}
  <2>1. EnsureToken(p, n) \in Plans
    BY DEF EnsureToken, Plans
  <2>2. new \in {EnsureToken(p, n), [EnsureToken(p, n) EXCEPT !.status = "submitted"]}
    BY <1>7 DEF Outcomes
  <2> QED
    BY <2>1, <2>2 DEF Plans, Statuses
<1>8. CASE k \in Decisions
  <2>1. PICK status \in Statuses : new = Decided(p, status, n)
    BY <1>8 DEF Outcomes, Decisions, Statuses
  <2> QED
    BY <2>1 DEF Decided, Plans
<1> QED
  BY <1>1, <1>2, <1>3, <1>4, <1>5, <1>6, <1>7, <1>8 DEF AllKinds, Edits

\* Column by column, a write leaves a plan.
LEMMA MergeType ==
  ASSUME NEW now \in Plans, NEW loaded \in Plans, NEW new \in Plans
  PROVE  Merge(now, loaded, new) \in Plans
  BY DEF Merge, Plans

\* What an edit leaves is a draft, or a plan that changes were requested for.
LEMMA EditsReset ==
  ASSUME NEW p \in Plans, NEW n \in Numbers, NEW k \in Edits,
         NEW new \in Outcomes(k, p, n)
  PROVE  new.status \in Explains(k)
<1> USE ResetType, Zero
<1>a. /\ Reset(p, AnyReview).status = "draft"
      /\ Unreviewed(p, AnyReview).status = "draft"
      /\ Unreviewed(p, AnyReview \ {"changes_requested"}).status
           \in {"draft", "changes_requested"}
  BY DEF Reset, Unreviewed, AnyReview, Plans, Statuses
<1>b. Explains(k) = IF k = "override" THEN {"draft", "changes_requested"} ELSE {"draft"}
  BY DEF Explains, Edits
<1>1. CASE k = "override"
  <2> DEFINE q == Unreviewed(p, AnyReview \ {"changes_requested"})
  <2>1. PICK kpis : new = [q EXCEPT !.overrides = [kpis |-> kpis, at |-> n]]
    BY <1>1 DEF Outcomes, Override
  <2>2. q \in Plans /\ q.status \in {"draft", "changes_requested"}
    BY <1>a
  <2> HIDE DEF q
  <2> QED
    BY <1>1, <1>b, <2>1, <2>2 DEF Plans
<1>2. CASE k = "pacing"
  BY <1>a, <1>b, <1>2 DEF Outcomes, Pacing, Plans
<1>3. CASE k = "keywords"
  <2>1. PICK demand \in BOOLEAN, copied \in BOOLEAN, refreshed \in BOOLEAN :
          new = Derived(Reset(p, AnyReview), n, demand, copied, refreshed)
    <3>1. new \in Keywords(p, n)
      BY <1>3 DEF Outcomes
    <3> QED
      BY <3>1, KeywordsDerive
  <2>2. Reset(p, AnyReview) \in Plans
    BY ResetType
  <2>3. Derived(Reset(p, AnyReview), n, demand, copied, refreshed).status
          = Reset(p, AnyReview).status
    BY <2>2, DerivedType
  <2> QED
    BY <1>3, <1>a, <1>b, <2>1, <2>3
<1>4. CASE k = "assets"
  BY <1>a, <1>b, <1>4 DEF Outcomes, Assets, Plans
<1>5. CASE k = "regenerate"
  <2> DEFINE q == [Reset(p, AnyReview) EXCEPT !.manual = 0, !.assets = n]
  <2>1. new = [q EXCEPT !.payload.rest = n]
    BY <1>5 DEF Outcomes, Regenerate, Plans
  <2>2. q \in Plans /\ q.status = "draft"
    BY <1>a DEF Plans
  <2> HIDE DEF q
  <2> QED
    BY <1>5, <1>b, <2>1, <2>2, PayloadType
<1>6. CASE k = "groups"
  <2>1. new = [Reset(p, AnyReview) EXCEPT !.payload.groups = n, !.payload.hand = TRUE]
    BY <1>6 DEF Outcomes, Groups
  <2>2. Reset(p, AnyReview) \in Plans /\ Reset(p, AnyReview).status = "draft"
    BY <1>a, ResetType
  <2> QED
    BY <1>6, <1>b, <2>1, <2>2, PayloadType
<1> QED
  BY <1>1, <1>2, <1>3, <1>4, <1>5, <1>6 DEF Edits

\* Submitting, mailing and deciding leave the content columns, and set another
\* status than approved unless they approve.
LEMMA OthersKeepContent ==
  ASSUME NEW p \in Plans, NEW n \in Numbers, NEW k \in AllKinds \ Edits,
         NEW new \in Outcomes(k, p, n)
  PROVE  /\ \A c \in {"overrides", "pacing", "keywords", "scores", "assets",
                      "manual", "payload"} : new[c] = p[c]
         /\ EventOf(k) # "approved" =>
              new.status = p.status \/ new.status # "approved"
<1>1. CASE k \in {"submit", "resend"}
  BY <1>1 DEF Outcomes, EnsureToken, Plans
<1>2. CASE k \in Decisions
  BY <1>2, ZenonT(30) DEF Outcomes, Decisions, Decided, EventOf, Plans
<1> QED
  BY <1>1, <1>2 DEF AllKinds, Edits

\* The columns of a written plan.
LEMMA MergeColumns ==
  ASSUME NEW now \in Plans, NEW loaded, NEW new,
         NEW c \in {"status", "overrides", "pacing", "keywords", "scores", "assets",
                   "manual", "payload"}
  PROVE  Merge(now, loaded, new)[c] = IF new[c] = loaded[c] THEN now[c] ELSE new[c]
  BY DEF Merge, Plans

-----------------------------------------------------------------------------
\* A session that no other one has written since it loaded holds the plan.
FreshCopies ==
  \A s \in Sessions : pc[s] = "write" /\ s \notin behind => row[s] = plan

\* The inductive invariant: without FreshCopies nothing says that what an edit
\* has loaded, and resets, is the plan it writes.
ApprovalInv == TypeOK /\ FreshCopies /\ ApprovedUnlessRaced

\* What a request may write, given the types.
LEMMA WriteFacts ==
  ASSUME TypeOK, NEW s \in Sessions, Write(s)
  PROVE  \E new \in Plans :
           /\ new \in Outcomes(kind[s], row[s], writes + 1)
           /\ plan' = Merge(plan, row[s], new)
           /\ IF After(kind[s]) = "idle" THEN End(s)
              ELSE /\ pc' = [pc EXCEPT ![s] = After(kind[s])]
                   /\ row' = [row EXCEPT ![s] = new]
                   /\ UNCHANGED <<kind, link>>
<1>1. row[s] \in Plans /\ kind[s] \in AllKinds /\ writes + 1 \in Numbers
  BY KindsAssumption, BoundAssumption DEF TypeOK, AllKinds, Numbers, Write
<1>2. PICK new \in Outcomes(kind[s], row[s], writes + 1) :
           /\ plan' = Merge(plan, row[s], new)
           /\ IF After(kind[s]) = "idle" THEN End(s)
              ELSE /\ pc' = [pc EXCEPT ![s] = After(kind[s])]
                   /\ row' = [row EXCEPT ![s] = new]
                   /\ UNCHANGED <<kind, link>>
  BY DEF Write
<1>3. new \in Plans
  BY <1>1, <1>2, OutcomeType
<1> QED
  BY <1>2, <1>3

\* A freshly generated plan is a plan.
LEMMA GeneratedType ==
  ASSUME NEW kpis \in SUBSET Kpis
  PROVE  Generated(kpis) \in Plans
  BY Zero DEF Generated, Plans, Statuses

LEMMA InitInv == Init => ApprovalInv
<1> SUFFICES ASSUME Init PROVE ApprovalInv
  OBVIOUS
<1>1. TypeOK
  <2>1. plan \in Plans /\ Generated({}) \in Plans
    BY GeneratedType DEF Init
  <2> QED
    BY <2>1, Zero DEF Init, TypeOK
<1>2. FreshCopies
  BY DEF Init, FreshCopies
<1>3. ApprovedUnlessRaced
  BY DEF Init, ApprovedUnlessRaced
<1> QED
  BY <1>1, <1>2, <1>3 DEF ApprovalInv

\* Ending a request keeps the types of what a session holds.
LEMMA EndType ==
  ASSUME TypeOK, NEW s \in Sessions, End(s)
  PROVE  /\ pc' \in [Sessions -> {"idle", "write", "mail"}]
         /\ kind' \in [Sessions -> Kinds \cup {"submit"}]
         /\ link' \in [Sessions -> Numbers]
         /\ row' \in [Sessions -> Plans]
<1>1. Generated({}) \in Plans
  BY GeneratedType
<1> QED
  BY <1>1, Zero DEF End, TypeOK

LEMMA TypeStep == TypeOK /\ [Next]_vars => TypeOK'
<1> SUFFICES ASSUME TypeOK, [Next]_vars PROVE TypeOK'
  OBVIOUS
<1>1. ASSUME NEW s \in Sessions, Load(s) PROVE TypeOK'
  BY <1>1 DEF Load, TypeOK
<1>2. ASSUME NEW s \in Sessions, Write(s) PROVE TypeOK'
  <2>1. PICK new \in Plans :
           /\ new \in Outcomes(kind[s], row[s], writes + 1)
           /\ plan' = Merge(plan, row[s], new)
           /\ IF After(kind[s]) = "idle" THEN End(s)
              ELSE /\ pc' = [pc EXCEPT ![s] = After(kind[s])]
                   /\ row' = [row EXCEPT ![s] = new]
                   /\ UNCHANGED <<kind, link>>
    BY <1>2, WriteFacts
  <2>2. plan' \in Plans
    <3>1. plan \in Plans /\ row[s] \in Plans
      BY DEF TypeOK
    <3> QED
      BY <2>1, <3>1, MergeType
  <2>3. /\ pc' \in [Sessions -> {"idle", "write", "mail"}]
        /\ kind' \in [Sessions -> Kinds \cup {"submit"}]
        /\ link' \in [Sessions -> Numbers]
        /\ row' \in [Sessions -> Plans]
    <3>1. CASE After(kind[s]) = "idle"
      BY <2>1, <3>1, EndType
    <3>2. CASE After(kind[s]) # "idle"
      BY <2>1, <3>2 DEF After, TypeOK
    <3> QED
      BY <3>1, <3>2
  <2>4. writes' \in Numbers
    BY <1>2, BoundAssumption DEF Write, TypeOK, Numbers
  <2>5. event' \in {"generated", "submitted", "approved", "rejected",
                   "changes_requested"} \cup Edits
    <3>1. kind[s] \in AllKinds
      BY KindsAssumption DEF TypeOK, AllKinds
    <3>2. kind[s] # "resend" =>
            EventOf(kind[s]) \in {"submitted", "approved", "rejected",
                                 "changes_requested"} \cup Edits
      BY <3>1 DEF EventOf, AllKinds, Decisions, Edits
    <3> QED
      BY <1>2, <3>2 DEF Write, TypeOK
  <2>6. links' \subseteq Numbers /\ behind' \subseteq Sessions /\ raced' \in BOOLEAN
    BY <1>2 DEF Write, TypeOK
  <2> QED
    BY <2>2, <2>3, <2>4, <2>5, <2>6 DEF TypeOK
<1>3. ASSUME NEW s \in Sessions, Drop(s) PROVE TypeOK'
  <2>1. End(s)
    BY <1>3 DEF Drop
  <2> QED
    BY <1>3, <2>1, EndType DEF Drop, TypeOK
<1>4. ASSUME NEW s \in Sessions, Mail(s) PROVE TypeOK'
  <2>1. End(s)
    BY <1>4 DEF Mail
  <2>2. row[s].token \in Numbers
    BY DEF TypeOK, Plans
  <2>3. links' \subseteq Numbers
    BY <1>4, <2>2 DEF Mail, TypeOK
  <2> QED
    BY <1>4, <2>1, <2>3, EndType DEF Mail, TypeOK
<1>5. CASE UNCHANGED vars
  BY <1>5 DEF vars, TypeOK
<1> QED
  BY <1>1, <1>2, <1>3, <1>4, <1>5 DEF Next

LEMMA FreshStep == TypeOK /\ FreshCopies /\ [Next]_vars => FreshCopies'
<1> SUFFICES ASSUME TypeOK, FreshCopies, [Next]_vars PROVE FreshCopies'
  OBVIOUS
<1>1. ASSUME NEW s \in Sessions, Load(s) PROVE FreshCopies'
  BY <1>1 DEF Load, TypeOK, FreshCopies
<1>2. ASSUME NEW s \in Sessions, Write(s) PROVE FreshCopies'
  <2>1. \A r \in Sessions : pc'[r] = "write" => r # s /\ pc[r] = "write"
    BY <1>2, WriteFacts DEF End, After, TypeOK
  <2> QED
    BY <1>2, <2>1 DEF Write, FreshCopies
<1>3. ASSUME NEW s \in Sessions, Drop(s) \/ Mail(s) PROVE FreshCopies'
  BY <1>3 DEF Drop, Mail, End, TypeOK, FreshCopies
<1>4. CASE UNCHANGED vars
  BY <1>4 DEF vars, FreshCopies
<1> QED
  BY <1>1, <1>2, <1>3, <1>4 DEF Next

LEMMA ApprovedStep == ApprovalInv /\ [Next]_vars => ApprovedUnlessRaced'
<1> SUFFICES ASSUME ApprovalInv, [Next]_vars PROVE ApprovedUnlessRaced'
  OBVIOUS
<1>1. ASSUME NEW s \in Sessions, Write(s) PROVE ApprovedUnlessRaced'
  <2> SUFFICES ASSUME plan'.status = "approved", ~raced'
               PROVE  Content(plan)' = settled'
    BY DEF ApprovedUnlessRaced
  <2>1. PICK new \in Plans :
           /\ new \in Outcomes(kind[s], row[s], writes + 1)
           /\ plan' = Merge(plan, row[s], new)
    BY <1>1, WriteFacts DEF ApprovalInv
  <2>2. /\ plan \in Plans /\ row[s] \in Plans /\ kind[s] \in AllKinds
        /\ writes + 1 \in Numbers
    BY <1>1, KindsAssumption, BoundAssumption DEF ApprovalInv, TypeOK, AllKinds, Numbers, Write
  <2>3. plan'.status = IF new.status = row[s].status THEN plan.status ELSE new.status
    BY <2>1, <2>2, MergeColumns
  <2>4. CASE EventOf(kind[s]) = "approved"
    BY <1>1, <2>4 DEF Write, Content
  <2>5. CASE EventOf(kind[s]) # "approved" /\ kind[s] \in Edits
    <3>1. s \notin behind
      BY <1>1, <2>5 DEF Write
    <3>2. row[s] = plan
      BY <1>1, <3>1 DEF Write, ApprovalInv, FreshCopies
    <3>3. new.status # "approved"
      BY <2>1, <2>2, <2>5, EditsReset DEF Explains, Edits
    <3> QED
      BY <2>3, <3>2, <3>3
  <2>6. CASE EventOf(kind[s]) # "approved" /\ kind[s] \notin Edits
    <3>1. /\ \A c \in {"overrides", "pacing", "keywords", "scores", "assets",
                        "manual", "payload"} : new[c] = row[s][c]
          /\ new.status = row[s].status \/ new.status # "approved"
      BY <2>1, <2>2, <2>6, OthersKeepContent
    <3>2. \A c \in {"overrides", "pacing", "keywords", "scores", "assets",
                     "manual", "payload"} : plan'[c] = plan[c]
      BY <2>1, <2>2, <3>1, MergeColumns
    <3>3. Content(plan)' = Content(plan)
      BY <3>2 DEF Content
    <3>4. plan.status = "approved" /\ ~raced /\ settled' = settled
      BY <1>1, <2>3, <2>6, <3>1 DEF Write
    <3> QED
      BY <3>3, <3>4 DEF ApprovalInv, ApprovedUnlessRaced
  <2> QED
    BY <2>4, <2>5, <2>6
<1>2. ASSUME NEW s \in Sessions, Load(s) \/ Drop(s) \/ Mail(s)
      PROVE  ApprovedUnlessRaced'
  <2>1. UNCHANGED <<plan, settled, raced>>
    BY <1>2 DEF Load, Drop, Mail
  <2> QED
    BY <2>1 DEF ApprovalInv, ApprovedUnlessRaced, Content
<1>3. CASE UNCHANGED vars
  BY <1>3 DEF vars, ApprovalInv, ApprovedUnlessRaced, Content
<1> QED
  BY <1>1, <1>2, <1>3 DEF Next

-----------------------------------------------------------------------------
\* Every variable keeps its type: whatever requests do, the columns hold values
\* that some request has written.
THEOREM Typing == Spec => []TypeOK
<1>1. Init => TypeOK
  BY InitInv DEF ApprovalInv
<1> QED
  BY <1>1, TypeStep, PTL DEF Spec

\* An approved plan is the plan that was approved, unless an edit that had loaded
\* it before another session wrote it (AdCopyService, ApprovalService: no row is
\* locked and no version compared) followed the approval.
THEOREM ApprovalCovers == Spec => []ApprovedUnlessRaced
<1>1. ApprovalInv /\ [Next]_vars => ApprovalInv'
  BY TypeStep, FreshStep, ApprovedStep DEF ApprovalInv
<1>2. ApprovalInv => ApprovedUnlessRaced
  BY DEF ApprovalInv
<1> QED
  BY InitInv, <1>1, <1>2, PTL DEF Spec

\* With one request at a time, every edit takes an approval back.
THEOREM SerialApproval ==
  ASSUME \A r, s \in Sessions : r = s
  PROVE  Spec => []ApprovedUnchanged
<1> DEFINE Serial == behind = {} /\ raced = FALSE
<1>1. Init => Serial
  BY DEF Init
<1>2. Serial /\ [Next]_vars => Serial'
  BY DEF Next, Load, Write, Drop, Mail, vars
<1>3. ApprovedUnlessRaced /\ Serial => ApprovedUnchanged
  BY DEF ApprovedUnlessRaced, ApprovedUnchanged
<1> HIDE DEF Serial
<1> QED
  BY <1>1, <1>2, <1>3, ApprovalCovers, PTL DEF Spec

\* A copy loaded before someone else's edit cannot undo that edit: the columns a
\* submission, a mail or a decision leaves alone are not written back.
THEOREM EditsOnly == Spec => ContentOnlyByEdits
<1> DEFINE ByEdit == Content(plan') # Content(plan) =>
      \E s \in Sessions : pc[s] = "write" /\ kind[s] \in Edits /\ pc'[s] = "idle"
<1>1. ASSUME TypeOK, NEW s \in Sessions, Write(s) PROVE ByEdit
  <2>1. PICK new \in Plans :
           /\ new \in Outcomes(kind[s], row[s], writes + 1)
           /\ plan' = Merge(plan, row[s], new)
           /\ IF After(kind[s]) = "idle" THEN End(s)
              ELSE /\ pc' = [pc EXCEPT ![s] = After(kind[s])]
                   /\ row' = [row EXCEPT ![s] = new]
                   /\ UNCHANGED <<kind, link>>
    BY <1>1, WriteFacts
  <2>2. /\ plan \in Plans /\ row[s] \in Plans /\ kind[s] \in AllKinds
        /\ writes + 1 \in Numbers
    BY <1>1, KindsAssumption, BoundAssumption DEF TypeOK, AllKinds, Numbers, Write
  <2>3. CASE kind[s] \in Edits
    <3>1. After(kind[s]) = "idle"
      BY <2>3 DEF After, Edits
    <3>2. pc'[s] = "idle"
      BY <1>1, <2>1, <3>1 DEF End, TypeOK
    <3> QED
      BY <1>1, <2>3, <3>2 DEF Write
  <2>4. CASE kind[s] \notin Edits
    <3>1. \A c \in {"overrides", "pacing", "keywords", "scores", "assets",
                     "manual", "payload"} : new[c] = row[s][c]
      BY <2>1, <2>2, <2>4, OthersKeepContent
    <3>2. \A c \in {"overrides", "pacing", "keywords", "scores", "assets",
                     "manual", "payload"} : plan'[c] = plan[c]
      BY <2>1, <2>2, <3>1, MergeColumns
    <3> QED
      BY <3>2 DEF Content
  <2> QED
    BY <2>3, <2>4
<1>2. ASSUME NEW s \in Sessions, Load(s) \/ Drop(s) \/ Mail(s) PROVE ByEdit
  BY <1>2 DEF Load, Drop, Mail
<1>3. TypeOK /\ [Next]_vars => [ByEdit]_vars
  BY <1>1, <1>2 DEF Next
<1> HIDE DEF ByEdit
<1>4. Spec => [][ByEdit]_vars
  BY <1>3, Typing, PTL DEF Spec
<1> QED
  BY <1>4 DEF ContentOnlyByEdits, ByEdit

-----------------------------------------------------------------------------
(* One request at a time.                                                  *)

\* What a request leaves agrees with its event, and is submitted with all its KPIs.
LEMMA OutcomeAgrees ==
  ASSUME NEW p \in Plans, NEW n \in Numbers, NEW k \in AllKinds,
         NEW new \in Outcomes(k, p, n)
  PROVE  /\ k # "resend" => new.status \in Explains(EventOf(k))
         /\ k = "resend" => new.status = p.status
         /\ /\ p.status = "submitted" \/ k = "submit" => p.overrides.kpis = Kpis
            /\ new.status = "submitted"
            => new.overrides.kpis = Kpis
<1>1. CASE k \in Edits
  <2>1. new.status \in Explains(k) /\ EventOf(k) = k
    BY <1>1, EditsReset DEF EventOf, Edits
  <2>2. new.status # "submitted" /\ k # "resend"
    BY <1>1, <2>1 DEF Explains, Edits
  <2> QED
    BY <2>1, <2>2
<1>2. CASE k \notin Edits
  <2>1. new.overrides = p.overrides
    BY <1>2, OthersKeepContent
  <2>2. CASE k \in {"submit", "resend"}
    BY <1>2, <2>1, <2>2 DEF Outcomes, EnsureToken, EventOf, Explains, Plans
  <2>3. CASE k \in Decisions
    <3>1. new.status \in Explains(EventOf(k)) /\ new.status # "submitted" /\ k # "resend"
      BY <2>3, ZenonT(30) DEF Outcomes, Decisions, Decided, EventOf, Explains, Plans
    <3> QED
      BY <3>1
  <2> QED
    BY <1>2, <2>2, <2>3 DEF AllKinds
<1> QED
  BY <1>1, <1>2

\* No session is ever behind another.
Alone == behind = {}

LEMMA AloneStep ==
  ASSUME \A r, s \in Sessions : r = s
  PROVE  Alone /\ [Next]_vars => Alone'
  BY DEF Alone, Next, Load, Write, Drop, Mail, vars

\* The status agrees with the trail and the KPIs.
Agrees == StatusExplained /\ SubmittedHasKpis

LEMMA AgreesStep == TypeOK /\ FreshCopies /\ Alone /\ Agrees /\ [Next]_vars => Agrees'
<1> SUFFICES ASSUME TypeOK, FreshCopies, Alone, Agrees, [Next]_vars PROVE Agrees'
  OBVIOUS
<1>1. ASSUME NEW s \in Sessions, Write(s) PROVE Agrees'
  <2>1. PICK new \in Plans :
           /\ new \in Outcomes(kind[s], row[s], writes + 1)
           /\ plan' = Merge(plan, row[s], new)
    BY <1>1, WriteFacts
  <2>2. /\ plan \in Plans /\ row[s] = plan /\ kind[s] \in AllKinds
        /\ writes + 1 \in Numbers
    BY <1>1, KindsAssumption, BoundAssumption
    DEF Write, FreshCopies, Alone, TypeOK, AllKinds, Numbers
  <2>3. plan'.status = new.status /\ plan'.overrides = new.overrides
    BY <2>1, <2>2, MergeColumns
  <2>4. kind[s] = "submit" => plan.overrides.kpis = Kpis
    BY <1>1, <2>2 DEF Write, Refused
  <2>5. /\ kind[s] # "resend" => new.status \in Explains(EventOf(kind[s]))
        /\ kind[s] = "resend" => new.status = plan.status
        /\ new.status = "submitted" => new.overrides.kpis = Kpis
    BY <2>1, <2>2, <2>4, OutcomeAgrees DEF Agrees, SubmittedHasKpis
  <2>6. event' = IF kind[s] = "resend" THEN event ELSE EventOf(kind[s])
    BY <1>1 DEF Write
  <2> QED
    BY <2>3, <2>5, <2>6 DEF Agrees, StatusExplained, SubmittedHasKpis
<1>2. ASSUME NEW s \in Sessions, Load(s) \/ Drop(s) \/ Mail(s) PROVE Agrees'
  <2>1. UNCHANGED <<plan, event>>
    BY <1>2 DEF Load, Drop, Mail
  <2> QED
    BY <2>1 DEF Agrees, StatusExplained, SubmittedHasKpis
<1>3. CASE UNCHANGED vars
  BY <1>3 DEF vars, Agrees, StatusExplained, SubmittedHasKpis
<1> QED
  BY <1>1, <1>2, <1>3 DEF Next

\* One request at a time keeps the trail: all that the two theorems below need.
LEMMA SerialAgrees ==
  ASSUME \A r, s \in Sessions : r = s
  PROVE  Spec => []Agrees
<1>1. Init => TypeOK /\ FreshCopies /\ Alone /\ Agrees
  <2>1. Init => Alone /\ Agrees
    BY DEF Init, Generated, Alone, Agrees, StatusExplained, SubmittedHasKpis, Explains
  <2> QED
    BY <2>1, InitInv DEF ApprovalInv
<1>2. Alone /\ [Next]_vars => Alone'
  BY AloneStep
<1> QED
  BY <1>1, <1>2, TypeStep, FreshStep, AgreesStep, PTL DEF Spec

\* With one request at a time no plan waits for approval without its KPIs: submit checks
\* them, and set_override takes the submission back.
THEOREM SerialKpis ==
  ASSUME \A r, s \in Sessions : r = s
  PROVE  Spec => []SubmittedHasKpis
<1>1. Agrees => SubmittedHasKpis
  BY DEF Agrees
<1> QED
  BY <1>1, SerialAgrees, PTL

\* With one request at a time the newest event of the trail tells the status: no operation
\* changes the one without recording the other.
THEOREM SerialTrail ==
  ASSUME \A r, s \in Sessions : r = s
  PROVE  Spec => []StatusExplained
<1>1. Agrees => StatusExplained
  BY DEF Agrees
<1> QED
  BY <1>1, SerialAgrees, PTL

=============================================================================
