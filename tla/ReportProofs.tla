---------------------------- MODULE ReportProofs ----------------------------
(***************************************************************************)
(* What stands of a plan, for any requests, keywords and edits: the copy   *)
(* that people have written by hand, and the figures of the media plan,    *)
(* which add up however the rounding falls and do not contradict each      *)
(* other, whatever is edited.                                              *)
(***************************************************************************)
EXTENDS AdCopy, MediaPlan, DataLemmas, TLAPS

-----------------------------------------------------------------------------
(* The copy of a plan.                                                     *)

CopySpec == CopyInit /\ [][CopyNext]_copyVars

Columns == {"keywords", "made", "typed", "page"}

IsPlan(row) ==
  DOMAIN row = Columns /\ DOMAIN row.page = {"assets", "groups", "byHand"}

\* The inductive invariant: who writes has read a plan, and there is one.
CopyInv ==
  /\ ad # NoAd => IsPlan(ad)
  /\ DOMAIN writing = Writers /\ requests \in Nat
  /\ \A m \in Writers : writing[m] # NoAd => ad # NoAd /\ IsPlan(writing[m])

\* What a request leaves of the row it has read, as HandWorkStands asks it of the row that
\* is stored.
Respects(what, kinds, old, new) ==
  /\ IsPlan(new)
  /\ what \in {"keywords", "groups"} => new.typed = old.typed
  /\ what = "assets" \/ old.typed # Untyped
       => \A k \in Kind \ kinds : EffectiveCopy(new, k) = EffectiveCopy(old, k)
  /\ what # "groups" /\ old.page.byHand => new.page.groups = old.page.groups /\ new.page.byHand
  /\ old.page.assets = old.made => new.page.assets = new.made

\* A plan is a row.
LEMMA PlanIsRow == \A row : IsPlan(row) => row # NoAd
<1>1. DOMAIN NoAd = {"typed"}
  BY DEF NoAd
<1> QED
  BY <1>1 DEF IsPlan, Columns

\* The columns that a request changes are written over those of the others.
LEMMA WrittenColumns ==
  ASSUME CopyInv, NEW m \in Writers, writing[m] # NoAd, NEW what, NEW kinds, NEW new, IsPlan(new),
         Done(m, what, kinds, new)
  PROVE  /\ IsPlan(ad') /\ CopyInv'
         /\ did'.what = what /\ did'.kinds = kinds /\ (did'.current <=> writing[m] = ad)
         /\ \A c \in Columns : new[c] = writing[m][c] => ad'[c] = ad[c]
         /\ writing[m] = ad => \A c \in Columns : ad'[c] = new[c]
<1>1. /\ ad' = [c \in DOMAIN ad |-> IF new[c] = writing[m][c] THEN ad[c] ELSE new[c]]
      /\ did' = [what |-> what, kinds |-> kinds, current |-> writing[m] = ad]
      /\ writing' = [writing EXCEPT ![m] = NoAd] /\ requests' = requests + 1
  BY DEF Done, Written
<1>2. ad # NoAd /\ IsPlan(ad)
  BY DEF CopyInv
<1>3. DOMAIN ad = Columns
  BY <1>2 DEF IsPlan
<1>4. \A c \in Columns : ad'[c] = IF new[c] = writing[m][c] THEN ad[c] ELSE new[c]
  BY <1>1, <1>3
<1>5. IsPlan(ad')
  <2>1. DOMAIN ad' = Columns
    BY <1>1, <1>3
  <2>2. ad'.page = ad.page \/ ad'.page = new.page
    BY <1>4 DEF Columns
  <2> QED
    BY <1>2, <2>1, <2>2 DEF IsPlan
<1>6. ad' # NoAd
  BY <1>5, PlanIsRow
<1>7. CopyInv'
  BY <1>1, <1>5, <1>6 DEF CopyInv, IsPlan
<1> QED
  BY <1>1, <1>4, <1>5, <1>7

\* Such a request leaves the stored row as it should.
LEMMA DoneStands ==
  ASSUME CopyInv, NEW m \in Writers, writing[m] # NoAd, NEW what, NEW kinds, NEW new,
         Respects(what, kinds, writing[m], new), Done(m, what, kinds, new)
  PROVE  /\ CopyInv'
         /\ did'.what \in {"keywords", "groups"} => ad'.typed = ad.typed
         /\ did'.current /\ (did'.what = "assets" \/ ad.typed # Untyped)
              => \A k \in Kind \ did'.kinds : EffectiveCopy(ad', k) = EffectiveCopy(ad, k)
         /\ did'.current /\ did'.what # "groups" /\ ad.page.byHand
              => ad'.page.groups = ad.page.groups /\ ad'.page.byHand
         /\ did'.current /\ ad.page.assets = ad.made => ad'.page.assets = ad'.made
<1>1. /\ CopyInv' /\ did'.what = what /\ did'.kinds = kinds /\ (did'.current <=> writing[m] = ad)
      /\ \A c \in Columns : new[c] = writing[m][c] => ad'[c] = ad[c]
      /\ writing[m] = ad => \A c \in Columns : ad'[c] = new[c]
  BY WrittenColumns DEF Respects
<1>2. /\ "typed" \in Columns /\ "made" \in Columns /\ "page" \in Columns
  BY DEF Columns
<1>3. what \in {"keywords", "groups"} => ad'.typed = ad.typed
  BY <1>1, <1>2 DEF Respects
<1>4. ASSUME writing[m] = ad
      PROVE  ad'.typed = new.typed /\ ad'.made = new.made /\ ad'.page = new.page
  BY <1>1, <1>2, <1>4
<1>5. ASSUME writing[m] = ad, what = "assets" \/ ad.typed # Untyped
      PROVE  \A k \in Kind \ kinds : EffectiveCopy(ad', k) = EffectiveCopy(ad, k)
  <2>1. \A k \in Kind \ kinds : EffectiveCopy(new, k) = EffectiveCopy(ad, k)
    BY <1>5 DEF Respects
  <2>2. \A k : EffectiveCopy(ad', k) = EffectiveCopy(new, k)
    BY <1>4, <1>5 DEF EffectiveCopy
  <2> QED
    BY <2>1, <2>2
<1>6. ASSUME writing[m] = ad, what # "groups", ad.page.byHand
      PROVE  ad'.page.groups = ad.page.groups /\ ad'.page.byHand
  BY <1>4, <1>6 DEF Respects
<1>7. ASSUME writing[m] = ad, ad.page.assets = ad.made
      PROVE  ad'.page.assets = ad'.made
  BY <1>4, <1>7 DEF Respects
<1> QED
  BY <1>1, <1>3, <1>5, <1>6, <1>7

\* What the parts of a request make of a row.
LEMMA RowParts ==
  ASSUME NEW row, IsPlan(row), NEW assets
  PROVE  /\ IsPlan(WithCopy(row, assets)) /\ IsPlan(WithAdGroups(row))
         /\ WithCopy(row, assets).typed = row.typed
         /\ WithCopy(row, assets).page.groups = row.page.groups
         /\ WithCopy(row, assets).page.byHand = row.page.byHand
         /\ WithCopy(row, assets).page.assets = WithCopy(row, assets).made
         /\ WithAdGroups(row).typed = row.typed /\ WithAdGroups(row).made = row.made
         /\ WithAdGroups(row).page.assets = row.page.assets
         /\ row.page.byHand => WithAdGroups(row) = row
BY DEF IsPlan, Columns, WithCopy, WithAdGroups

\* Copy is the same when what was typed and made is.
LEMMA SameCopy ==
  ASSUME NEW old, NEW new, new.typed = old.typed, new.made = old.made
  PROVE  \A k : EffectiveCopy(new, k) = EffectiveCopy(old, k)
BY DEF EffectiveCopy

\* What is typed of some kinds leaves the copy of the others.
LEMMA OthersStand ==
  ASSUME NEW old, IsPlan(old), NEW lists, NEW k \in Kind \ DOMAIN lists
  PROVE  EffectiveCopy(Retyped(old, lists), k) = EffectiveCopy(old, k)
<1> DEFINE before == IF old.typed = Untyped THEN <<>> ELSE old.typed
           g == [x \in DOMAIN lists |-> Distinct(Lines(lists[x]))]
           after == Updated(before, g)
           new == Retyped(old, lists)
<1>1. new = [old EXCEPT !.typed = after]
  BY DEF Retyped
<1>2. DOMAIN g = DOMAIN lists
  OBVIOUS
<1>3. k # "untyped" /\ k \notin DOMAIN lists
  BY DEF Kind
<1> HIDE DEF g
<1>4. /\ k \in DOMAIN after <=> k \in DOMAIN before
      /\ k \in DOMAIN before => after[k] = before[k]
  BY <1>2, <1>3 DEF Updated
<1>5. /\ k \in DOMAIN before <=> k \in DOMAIN old.typed
      /\ k \in DOMAIN before => before[k] = old.typed[k]
  <2>1. CASE old.typed = Untyped
    <3>1. DOMAIN Untyped = {"untyped"} /\ before = <<>> /\ DOMAIN <<>> = {}
      BY <2>1 DEF Untyped
    <3> QED
      BY <1>3, <2>1, <3>1
  <2>2. CASE old.typed # Untyped
    BY <2>2
  <2> QED
    BY <2>1, <2>2
<1> HIDE DEF after, before
<1>6. new.typed = after /\ new.made = old.made
  BY <1>1 DEF IsPlan, Columns
<1> QED
  BY <1>4, <1>5, <1>6 DEF EffectiveCopy

\* An edit of keywords is such a request.
LEMMA KeywordsRespect ==
  ASSUME NEW old, IsPlan(old), NEW keywords, NEW new,
         LET changed == [old EXCEPT !.keywords = keywords]
         IN  \/ new = changed
             \/ ~CopyStands(changed) /\ \E a : new = WithCopy(changed, a)
  PROVE  Respects("keywords", {}, old, WithAdGroups(new))
<1> DEFINE changed == [old EXCEPT !.keywords = keywords]
<1>1. /\ IsPlan(changed) /\ changed.typed = old.typed /\ changed.made = old.made
      /\ changed.page = old.page
  BY DEF IsPlan, Columns
<1>2. \/ new = changed
      \/ ~CopyStands(changed) /\ \E a : new = WithCopy(changed, a)
  OBVIOUS
<1> HIDE DEF changed
<1>3. CASE new = changed
  <2>1. /\ WithAdGroups(new).typed = old.typed /\ WithAdGroups(new).made = old.made
        /\ IsPlan(WithAdGroups(new))
    BY <1>1, <1>3, RowParts
  <2>2. \A k : EffectiveCopy(WithAdGroups(new), k) = EffectiveCopy(old, k)
    BY <2>1, SameCopy
  <2> QED
    BY <1>1, <1>3, <2>1, <2>2, RowParts DEF Respects
<1>4. ASSUME ~CopyStands(changed), NEW a, new = WithCopy(changed, a)
      PROVE  Respects("keywords", {}, old, WithAdGroups(new))
  <2>1. old.typed = Untyped
    BY <1>1, <1>4 DEF CopyStands
  <2>2. /\ IsPlan(new) /\ new.typed = old.typed /\ new.page.groups = old.page.groups
        /\ new.page.byHand = old.page.byHand /\ new.page.assets = new.made
    BY <1>1, <1>4, RowParts
  <2> QED
    BY <2>1, <2>2, RowParts DEF Respects
<1> QED
  BY <1>2, <1>3, <1>4

\* Every request but a refused one writes such a row.
LEMMA RequestRespects ==
  ASSUME CopyInv, NEW m \in Writers,
         SaveKeywords(m) \/ SaveAssets(m) \/ SaveAdGroups(m) \/ Regenerate(m)
  PROVE  /\ writing[m] # NoAd
         /\ \E what, kinds, new : Respects(what, kinds, writing[m], new) /\ Done(m, what, kinds, new)
<1> DEFINE old == writing[m]
<1>1. old # NoAd /\ IsPlan(old)
  BY DEF CopyInv, SaveKeywords, SaveAssets, SaveAdGroups, Regenerate, Mid
<1>2. CASE SaveKeywords(m)
  <2>1. PICK keywords, new :
          /\ LET changed == [old EXCEPT !.keywords = keywords]
             IN  \/ new = changed
                 \/ ~CopyStands(changed) /\ \E a : new = WithCopy(changed, a)
          /\ Done(m, "keywords", {}, WithAdGroups(new))
    BY <1>2 DEF SaveKeywords
  <2> QED
    BY <1>1, <2>1, KeywordsRespect
<1>3. CASE SaveAssets(m)
  <2>1. PICK kinds, lists : DOMAIN lists = kinds /\ Done(m, "assets", kinds, Retyped(old, lists))
    BY <1>3 DEF SaveAssets
  <2> DEFINE new == Retyped(old, lists)
  <2>2. \A k \in Kind \ kinds : EffectiveCopy(new, k) = EffectiveCopy(old, k)
    BY <1>1, <2>1, OthersStand
  <2>3. IsPlan(new) /\ new.made = old.made /\ new.page = old.page
    BY <1>1 DEF Retyped, IsPlan, Columns
  <2> HIDE DEF new
  <2>4. Respects("assets", kinds, old, new)
    BY <2>2, <2>3 DEF Respects
  <2> QED
    BY <1>1, <2>1, <2>4 DEF new
<1>4. CASE SaveAdGroups(m)
  <2>1. PICK n, ads :
          Done(m, "groups", {}, [old EXCEPT !.page.groups[n].ads = ads, !.page.byHand = TRUE])
    BY <1>4 DEF SaveAdGroups
  <2> DEFINE new == [old EXCEPT !.page.groups[n].ads = ads, !.page.byHand = TRUE]
  <2>2. /\ IsPlan(new) /\ new.typed = old.typed /\ new.made = old.made
        /\ new.page.assets = old.page.assets
    BY <1>1 DEF IsPlan, Columns
  <2> HIDE DEF new
  <2>3. \A k : EffectiveCopy(new, k) = EffectiveCopy(old, k)
    BY <2>2, SameCopy
  <2>4. Respects("groups", {}, old, new)
    BY <2>2, <2>3 DEF Respects
  <2> QED
    BY <1>1, <2>1, <2>4 DEF new
<1>5. CASE Regenerate(m)
  <2>1. PICK assets : Done(m, "regenerate", Kind, WithCopy([old EXCEPT !.typed = Untyped], assets))
    BY <1>5 DEF Regenerate
  <2> DEFINE bare == [old EXCEPT !.typed = Untyped]
  <2>2. IsPlan(bare) /\ bare.page = old.page
    BY <1>1 DEF IsPlan, Columns
  <2> HIDE DEF bare
  <2>3. Respects("regenerate", Kind, old, WithCopy(bare, assets))
    BY <2>2, RowParts DEF Respects
  <2> QED
    BY <1>1, <2>1, <2>3 DEF bare
<1> QED
  BY <1>1, <1>2, <1>3, <1>4, <1>5

\* The steps that are no such request.
LEMMA OtherSteps ==
  ASSUME CopyInv,
         \/ MakeCopy \/ UNCHANGED copyVars
         \/ \E m \in Writers : ReadPlan(m) \/ Refuse(m)
  PROVE  CopyInv' /\ requests' = requests
<1>1. CASE MakeCopy
  <2>1. PICK keywords \in KeywordLists : \E assets \in GeneratedAssets(keywords) :
          LET made == [assets EXCEPT !.callouts = IF @ # <<>> THEN @ ELSE StandardCallouts]
          IN  ad' = [keywords |-> keywords, made |-> made, typed |-> Untyped,
                     page |-> [assets |-> made, groups |-> AdGroups(keywords, made),
                               byHand |-> FALSE]]
    BY <1>1 DEF MakeCopy
  <2>2. IsPlan(ad')
    BY <2>1 DEF IsPlan, Columns
  <2>3. UNCHANGED <<writing, requests>>
    BY <1>1 DEF MakeCopy
  <2> QED
    BY <2>2, <2>3, PlanIsRow DEF CopyInv, IsPlan
<1>2. ASSUME NEW m \in Writers, ReadPlan(m) PROVE CopyInv' /\ requests' = requests
  BY <1>2 DEF ReadPlan, CopyInv, IsPlan
<1>3. ASSUME NEW m \in Writers, Refuse(m) PROVE CopyInv' /\ requests' = requests
  BY <1>3 DEF Refuse, CopyInv, IsPlan
<1>4. CASE UNCHANGED copyVars
  BY <1>4 DEF copyVars, CopyInv, IsPlan
<1> QED
  BY <1>1, <1>2, <1>3, <1>4

\* Every step is one or the other.
LEMMA CopyCases ==
  ASSUME [CopyNext]_copyVars
  PROVE  \/ MakeCopy \/ UNCHANGED copyVars
         \/ \E m \in Writers : ReadPlan(m) \/ Refuse(m)
         \/ \E m \in Writers :
              SaveKeywords(m) \/ SaveAssets(m) \/ SaveAdGroups(m) \/ Regenerate(m)
BY DEF CopyNext

\* The invariant is kept.
LEMMA CopyKept == CopyInv /\ [CopyNext]_copyVars => CopyInv'
<1> SUFFICES ASSUME CopyInv, [CopyNext]_copyVars PROVE CopyInv'
  OBVIOUS
<1>1. ASSUME NEW m \in Writers,
             SaveKeywords(m) \/ SaveAssets(m) \/ SaveAdGroups(m) \/ Regenerate(m)
      PROVE  CopyInv'
  <2>1. /\ writing[m] # NoAd
        /\ \E what, kinds, new : Respects(what, kinds, writing[m], new) /\ Done(m, what, kinds, new)
    BY <1>1, RequestRespects
  <2> QED
    BY <2>1, DoneStands
<1> QED
  BY <1>1, CopyCases, OtherSteps

\* What is written by hand stands, for any number of writers, whatever models answer and
\* whatever is typed: every request but one for ads leaves ads edited by hand (WithAdGroups,
\* _refresh_ad_groups), keywords and ads leave typed copy, what is typed of some kinds
\* leaves the copy of the others (save_asset_edits), and of a stale request only the
\* columns it changes are written.
THEOREM HandStands == CopySpec => HandWorkStands
<1>1. CopyInit => CopyInv
  BY DEF CopyInit, CopyInv
<1>2. ASSUME CopyInv, [CopyNext]_copyVars, requests' > requests
      PROVE  LET what == did'.what
             IN  /\ what \in {"keywords", "groups"} => ad'.typed = ad.typed
                 /\ did'.current /\ (what = "assets" \/ ad.typed # Untyped)
                      => \A k \in Kind \ did'.kinds : EffectiveCopy(ad', k) = EffectiveCopy(ad, k)
                 /\ did'.current /\ what # "groups" /\ ad.page.byHand
                      => ad'.page.groups = ad.page.groups /\ ad'.page.byHand
                 /\ did'.current /\ ad.page.assets = ad.made
                      => ad'.page.assets = ad'.made
  <2>1. PICK m \in Writers :
          SaveKeywords(m) \/ SaveAssets(m) \/ SaveAdGroups(m) \/ Regenerate(m)
    <3>1. ~(requests' = requests)
      BY <1>2 DEF CopyInv
    <3> QED
      BY <1>2, <3>1, CopyCases, OtherSteps
  <2>2. /\ writing[m] # NoAd
        /\ \E what, kinds, new : Respects(what, kinds, writing[m], new) /\ Done(m, what, kinds, new)
    BY <1>2, <2>1, RequestRespects
  <2> QED
    BY <1>2, <2>2, DoneStands
<1> QED
  BY <1>1, <1>2, CopyKept, PTL DEF CopySpec, HandWorkStands

-----------------------------------------------------------------------------
(* Lines.                                                                  *)

\* All lines of a list fit.
AllFit(list, kind) == IsList(list) /\ \A n \in DOMAIN list : Fit(list[n], kind)

\* No line is there twice.
NoneTwice(list) == \A m, n \in DOMAIN list : list[m] = list[n] => m = n

\* So many in a row are all different.
Rich(list, m) ==
  \E p \in Nat : p + m <= Len(list) /\ \A i, j \in 1..m : list[p + i] = list[p + j] => i = j

\* What is left of a list without its repetitions.
LEMMA DistinctIs ==
  ASSUME NEW list, IsList(list)
  PROVE  /\ IsList(Distinct(list)) /\ NoneTwice(Distinct(list))
         /\ \A n \in DOMAIN list : \E k \in DOMAIN Distinct(list) : Distinct(list)[k] = list[n]
         /\ \A k \in DOMAIN Distinct(list) : \E n \in DOMAIN list : Distinct(list)[k] = list[n]
<1> DEFINE D == DOMAIN list
           S == {n \in D : \A m \in D : list[m] = list[n] => n <= m}
           new == Distinct(list)
<1>1. new = ElementsAt(list, S)
  BY DEF Distinct
<1>2. S \in SUBSET D
  OBVIOUS
<1>3. \A n \in D : n \in S <=> \A m \in D : list[m] = list[n] => n <= m
  OBVIOUS
<1>4. Len(list) \in Nat /\ D = 1..Len(list)
  BY ListIs
<1> HIDE DEF S, new
<1>5. /\ IsList(new)
      /\ \A k \in DOMAIN new : PlaceIn(S, k) \in S /\ new[k] = list[PlaceIn(S, k)]
      /\ \A n \in S : \E k \in DOMAIN new : PlaceIn(S, k) = n
      /\ \A k1, k2 \in DOMAIN new : PlaceIn(S, k1) = PlaceIn(S, k2) => k1 = k2
  BY <1>1, <1>2, Selected
<1>6. ASSUME NEW n \in D PROVE \E m \in S : list[m] = list[n]
  <2> DEFINE T == {m \in D : list[m] = list[n]}
  <2>1. T \in SUBSET Nat /\ T # {}
    BY <1>4
  <2>2. PICK m \in T : \A l \in T : m <= l
    <3> HIDE DEF T
    <3> QED
      BY <2>1, Least
  <2>3. m \in D /\ list[m] = list[n] /\ \A l \in D : list[l] = list[m] => m <= l
    BY <2>2
  <2> QED
    BY <1>3, <2>3
<1>7. NoneTwice(new)
  <2> SUFFICES ASSUME NEW k1 \in DOMAIN new, NEW k2 \in DOMAIN new, new[k1] = new[k2]
               PROVE  k1 = k2
    BY DEF NoneTwice
  <2> DEFINE n1 == PlaceIn(S, k1)
             n2 == PlaceIn(S, k2)
  <2>1. n1 \in S /\ n2 \in S /\ list[n1] = list[n2]
    BY <1>5
  <2>2. n1 \in D /\ n2 \in D
    BY <1>2, <2>1
  <2> HIDE DEF n1, n2
  <2>3. n1 <= n2 /\ n2 <= n1
    BY <1>3, <2>1, <2>2
  <2>4. n1 = n2
    BY <1>4, <2>2, <2>3
  <2> QED
    BY <1>5, <2>4 DEF n1, n2
<1>8. \A n \in D : \E k \in DOMAIN new : new[k] = list[n]
  BY <1>5, <1>6
<1>9. \A k \in DOMAIN new : \E n \in D : new[k] = list[n]
  BY <1>2, <1>5
<1> QED
  BY <1>5, <1>7, <1>8, <1>9 DEF new

\* What is left of a list without the lines that do not fit.
LEMMA FittingIs ==
  ASSUME NEW list, IsList(list), NEW kind, NEW own, own = Fitting(list, kind)
  PROVE  /\ AllFit(own, kind)
         /\ \A n \in DOMAIN list : Fit(list[n], kind) => \E k \in DOMAIN own : own[k] = list[n]
<1> DEFINE S == {n \in DOMAIN list : Fit(list[n], kind)}
<1>1. own = ElementsAt(list, S) /\ S \in SUBSET DOMAIN list
  BY DEF Fitting
<1>2. \A n \in DOMAIN list : n \in S <=> Fit(list[n], kind)
  OBVIOUS
<1> HIDE DEF S
<1>3. /\ IsList(own)
      /\ \A k \in DOMAIN own : PlaceIn(S, k) \in S /\ own[k] = list[PlaceIn(S, k)]
      /\ \A n \in S : \E k \in DOMAIN own : PlaceIn(S, k) = n
  BY <1>1, Selected
<1> QED
  BY <1>1, <1>2, <1>3 DEF AllFit

\* The head of a list.
LEMMA HeadIs ==
  ASSUME NEW list, IsList(list), NEW n \in Nat, NEW head, head = First(list, n)
  PROVE  /\ IsList(head) /\ Len(head) \in Nat
         /\ Len(head) = IF n <= Len(list) THEN n ELSE Len(list)
         /\ DOMAIN head = 1..Len(head)
         /\ \A k \in DOMAIN head : k \in DOMAIN list /\ head[k] = list[k]
<1> DEFINE l == Min({n, Len(list)})
<1>1. Len(list) \in Nat /\ DOMAIN list = 1..Len(list)
  BY ListIs
<1>2. head = SubSeq(list, 1, l)
  BY DEF First
<1>7. l = IF n <= Len(list) THEN n ELSE Len(list)
  BY <1>1, LessOf
<1>3. l \in Nat /\ l <= Len(list)
  BY <1>1, MinOf
<1> HIDE DEF l
<1>4. IsList(head) /\ DOMAIN head = 1..l /\ \A k \in 1..l : head[k] = list[k]
  BY <1>2, <1>3, FirstPart
<1>5. Len(head) \in Nat /\ DOMAIN head = 1..Len(head)
  BY <1>4, ListIs
<1>6. Len(head) = l
  BY <1>3, <1>4, <1>5
<1>8. \A k \in DOMAIN head : k \in DOMAIN list /\ head[k] = list[k]
  BY <1>1, <1>3, <1>4
<1> QED
  BY <1>4, <1>5, <1>6, <1>7, <1>8

\* The head of a list whose lines all fit.
LEMMA HeadFits ==
  ASSUME NEW list, NEW kind, AllFit(list, kind), NEW n \in Nat
  PROVE  AllFit(First(list, n), kind)
BY HeadIs DEF AllFit

\* A list whose lines all fit, without repetitions.
LEMMA DistinctFits ==
  ASSUME NEW list, NEW kind, AllFit(list, kind)
  PROVE  AllFit(Distinct(list), kind)
<1>1. IsList(list) /\ \A n \in DOMAIN list : Fit(list[n], kind)
  BY DEF AllFit
<1>2. /\ IsList(Distinct(list))
      /\ \A k \in DOMAIN Distinct(list) : \E n \in DOMAIN list : Distinct(list)[k] = list[n]
  BY <1>1, DistinctIs
<1> QED
  BY <1>1, <1>2 DEF AllFit

\* Two such lists in a row.
LEMMA JoinFits ==
  ASSUME NEW s, NEW t, NEW kind, AllFit(s, kind), AllFit(t, kind)
  PROVE  AllFit(s \o t, kind)
<1>1. IsJoin(s, t, s \o t)
  BY Joined DEF AllFit
<1> DEFINE r == s \o t
<1> HIDE DEF r
<1>2. /\ IsList(r)
      /\ \A n \in DOMAIN s : r[n] = s[n]
      /\ \A n \in DOMAIN t : r[Len(s) + n] = t[n]
      /\ \A n \in DOMAIN r : n \in DOMAIN s \/ \E k \in DOMAIN t : n = Len(s) + k
  BY <1>1 DEF IsJoin, r
<1>3. AllFit(r, kind)
  BY <1>2 DEF AllFit
<1> QED
  BY <1>3 DEF r

\* No line at all.
LEMMA NothingFits == ASSUME NEW kind PROVE AllFit(<<>>, kind)
BY EmptyList DEF AllFit

\* A list without repetitions is as long as what it has.
LEMMA LongEnough ==
  ASSUME NEW list, IsList(list), NoneTwice(list), NEW m \in Nat,
         NEW S, \A x \in S : \E k \in DOMAIN list : list[k] = x, Cardinality(S) >= m
  PROVE  Len(list) >= m
<1>0. \A n \in Nat : IsFiniteSet(1..n) /\ Cardinality(1..n) = n
  BY FS_Interval
<1>1. Len(list) \in Nat /\ DOMAIN list = 1..Len(list)
  BY ListIs
<1> DEFINE D == DOMAIN list
           R == {list[n] : n \in D}
<1>2. IsFiniteSet(D) /\ Cardinality(D) = Len(list)
  BY <1>0, <1>1
<1>3. IsFiniteSet(R) /\ Cardinality(R) = Cardinality(D)
  <2> HIDE DEF D
  <2> QED
    BY <1>2, ImageFinite DEF NoneTwice, D
<1>4. S \subseteq R
  OBVIOUS
<1> HIDE DEF R
<1>5. IsFiniteSet(S) /\ Cardinality(S) <= Cardinality(R)
  BY <1>3, <1>4, FS_Subset
<1>6. Cardinality(S) \in Nat /\ Cardinality(R) \in Nat
  BY <1>3, <1>5, FS_CardinalityType
<1> QED
  BY <1>1, <1>2, <1>3, <1>5, <1>6

\* A long list without repetitions is rich, and so is its head.
LEMMA HeadRich ==
  ASSUME NEW list, IsList(list), NoneTwice(list), NEW m \in Nat, NEW n \in Nat,
         m <= n, m <= Len(list)
  PROVE  Rich(First(list, n), m)
<1> DEFINE head == First(list, n)
<1>1. Len(list) \in Nat /\ DOMAIN list = 1..Len(list)
  BY ListIs
<1>2. /\ Len(head) \in Nat /\ Len(head) = (IF n <= Len(list) THEN n ELSE Len(list))
      /\ DOMAIN head = 1..Len(head)
      /\ \A k \in DOMAIN head : k \in DOMAIN list /\ head[k] = list[k]
  BY HeadIs
<1> HIDE DEF head
<1>3. 0 \in Nat /\ 0 + m <= Len(head)
  BY <1>1, <1>2
<1>4. \A i, j \in 1..m : head[0 + i] = head[0 + j] => i = j
  <2>1. ASSUME NEW i \in 1..m PROVE 0 + i = i /\ i \in DOMAIN head
    BY <1>2, <1>3
  <2> QED
    BY <1>2, <2>1 DEF NoneTwice
<1>5. Rich(head, m)
  BY <1>3, <1>4 DEF Rich
<1> QED
  BY <1>5 DEF head

\* The head of two such lists in a row, one of which is long enough.
LEMMA JoinRich ==
  ASSUME NEW s, NEW t, IsList(s), IsList(t), NoneTwice(s), NoneTwice(t),
         NEW m \in Nat, NEW n \in Nat, m + m <= n, m <= Len(s) \/ m <= Len(t)
  PROVE  Rich(First(s \o t, n), m)
<1> DEFINE r == s \o t
           head == First(r, n)
<1>1. Len(s) \in Nat /\ DOMAIN s = 1..Len(s) /\ Len(t) \in Nat /\ DOMAIN t = 1..Len(t)
  BY ListIs
<1>2. /\ IsList(r) /\ Len(r) = Len(s) + Len(t)
      /\ \A k \in DOMAIN s : r[k] = s[k]
      /\ \A k \in DOMAIN t : r[Len(s) + k] = t[k]
  BY Joined DEF IsJoin
<1>3. /\ Len(head) \in Nat /\ Len(head) = (IF n <= Len(r) THEN n ELSE Len(r))
      /\ DOMAIN head = 1..Len(head)
      /\ \A k \in DOMAIN head : head[k] = r[k]
  <2> HIDE DEF r
  <2> QED
    BY <1>2, HeadIs
<1> HIDE DEF head, r
<1>4. CASE m <= Len(s)
  <2>1. 0 \in Nat /\ 0 + m <= Len(head)
    BY <1>1, <1>2, <1>3, <1>4
  <2>2. ASSUME NEW i \in 1..m PROVE head[0 + i] = s[i] /\ i \in DOMAIN s
    <3>1. i \in DOMAIN head /\ i \in DOMAIN s /\ 0 + i = i
      BY <1>1, <1>3, <1>4, <2>1
    <3> QED
      BY <1>2, <1>3, <3>1
  <2>3. \A i, j \in 1..m : head[0 + i] = head[0 + j] => i = j
    BY <2>2 DEF NoneTwice
  <2> QED
    BY <2>1, <2>3 DEF Rich, head, r
<1>5. CASE ~(m <= Len(s))
  <2>1. Len(s) \in Nat /\ Len(s) + m <= Len(head)
    BY <1>1, <1>2, <1>3, <1>5
  <2>2. ASSUME NEW i \in 1..m PROVE head[Len(s) + i] = t[i] /\ i \in DOMAIN t
    <3>1. Len(s) + i \in DOMAIN head /\ i \in DOMAIN t
      BY <1>1, <1>3, <1>5, <2>1
    <3> QED
      BY <1>2, <1>3, <3>1
  <2>3. \A i, j \in 1..m : head[Len(s) + i] = head[Len(s) + j] => i = j
    BY <2>2 DEF NoneTwice
  <2> QED
    BY <2>1, <2>3 DEF Rich, head, r
<1> QED
  BY <1>4, <1>5

\* A rich list has so many different lines.
LEMMA RichCounts ==
  ASSUME NEW list, IsList(list), NEW m \in Nat, Rich(list, m)
  PROVE  /\ Len(list) \in Nat /\ Len(list) >= m
         /\ Cardinality(Range(list)) \in Nat /\ Cardinality(Range(list)) >= m
<1>0. \A n \in Nat : IsFiniteSet(1..n) /\ Cardinality(1..n) = n
  BY FS_Interval
<1>1. Len(list) \in Nat /\ DOMAIN list = 1..Len(list)
  BY ListIs
<1>2. PICK p \in Nat : p + m <= Len(list) /\ \A i, j \in 1..m : list[p + i] = list[p + j] => i = j
  BY DEF Rich
<1> DEFINE f == [i \in 1..m |-> list[p + i]]
           D == DOMAIN list
           M == 1..m
<1>3. \A i \in M : f[i] = list[p + i] /\ p + i \in D
  BY <1>1, <1>2
<1>4. \A i, j \in M : f[i] = f[j] => i = j
  BY <1>2, <1>3
<1>5. IsFiniteSet(M) /\ Cardinality(M) = m /\ IsFiniteSet(D)
  BY <1>0, <1>1
<1> HIDE DEF f, D, M
<1>6. Cardinality({f[i] : i \in M}) = m
  BY <1>4, <1>5, ImageFinite
<1>7. Range(list) = {list[n] : n \in D}
  BY DEF Range, D
<1>8. IsFiniteSet({list[n] : n \in D})
  BY <1>5, ImageFinite
<1>9. {f[i] : i \in M} \subseteq {list[n] : n \in D}
  BY <1>3
<1>10. Cardinality({f[i] : i \in M}) <= Cardinality(Range(list)) /\ Cardinality(Range(list)) \in Nat
  BY <1>7, <1>8, <1>9, FS_Subset, FS_CardinalityType
<1> QED
  BY <1>1, <1>2, <1>6, <1>10


-----------------------------------------------------------------------------
(* What is made from keywords.                                             *)

\* The keywords are terms of a plan.
FromPlan(keywords) == IsList(keywords) /\ \A n \in DOMAIN keywords : keywords[n] \in Terms

\* Some of a list, and its head.
LEMMA SomeFromPlan ==
  ASSUME NEW keywords, FromPlan(keywords)
  PROVE  /\ \A n \in Nat : FromPlan(First(keywords, n))
         /\ \A S \in SUBSET DOMAIN keywords : FromPlan(ElementsAt(keywords, S))
<1>1. ASSUME NEW n \in Nat PROVE FromPlan(First(keywords, n))
  BY HeadIs DEF FromPlan
<1>2. ASSUME NEW S \in SUBSET DOMAIN keywords PROVE FromPlan(ElementsAt(keywords, S))
  <2>1. /\ IsList(ElementsAt(keywords, S))
        /\ \A k \in DOMAIN ElementsAt(keywords, S) :
             PlaceIn(S, k) \in S /\ ElementsAt(keywords, S)[k] = keywords[PlaceIn(S, k)]
    BY Selected DEF FromPlan
  <2> QED
    BY <2>1 DEF FromPlan
<1> QED
  BY <1>1, <1>2

\* The keywords by score.
LEMMA BestFromPlan ==
  ASSUME NEW keywords, FromPlan(keywords)
  PROVE  FromPlan(ByScore(keywords))
<1> DEFINE key == [n \in DOMAIN keywords |-> -keywords[n].score]
<1>1. DOMAIN key = DOMAIN keywords /\ \A n \in DOMAIN keywords : key[n] \in Int
  BY CopyAssumption DEF FromPlan
<1>2. ByScore(keywords) = SortedBy(keywords, key)
  BY DEF ByScore
<1> HIDE DEF key
<1>3. /\ IsList(SortedBy(keywords, key)) /\ DOMAIN SortedBy(keywords, key) = DOMAIN keywords
      /\ \A k \in DOMAIN keywords : /\ SortedFrom(key, k) \in DOMAIN keywords
                                    /\ SortedBy(keywords, key)[k] = keywords[SortedFrom(key, k)]
  BY <1>1, SortedIs DEF FromPlan
<1> QED
  BY <1>2, <1>3 DEF FromPlan

\* The keywords of the campus.
LEMMA OwnFromPlan ==
  ASSUME NEW keywords, FromPlan(keywords)
  PROVE  FromPlan(Own(keywords))
<1> DEFINE best == First(keywords, 15)
           S == {n \in DOMAIN best : best[n].word \in OwnWords}
<1>1. FromPlan(best)
  BY SomeFromPlan
<1>2. Own(keywords) = ElementsAt(best, S) /\ S \in SUBSET DOMAIN best
  BY DEF Own
<1> HIDE DEF best, S
<1> QED
  BY <1>1, <1>2, SomeFromPlan

\* What the copy speaks of is among what copy may speak of.
LEMMA SubjectsKnown ==
  ASSUME NEW keywords, FromPlan(keywords)
  PROVE  Subjects(keywords) \in SUBSET AllSubjects
<1> DEFINE named(list) == UNION {NamedIn[list[n].word] : n \in DOMAIN list}
<1>1. FromPlan(Own(keywords)) /\ FromPlan(First(keywords, 12))
  BY OwnFromPlan, SomeFromPlan
<1>2. ASSUME NEW list, FromPlan(list) PROVE named(list) \subseteq AllSubjects
  BY <1>2 DEF FromPlan, AllSubjects
<1>3. IntentsOf(Own(keywords)) \subseteq AllSubjects
  BY <1>1 DEF FromPlan, AllSubjects, IntentsOf
<1>4. Subjects(keywords) = IntentsOf(Own(keywords)) \cup
        IF Own(keywords) # <<>> THEN named(Own(keywords)) ELSE named(First(keywords, 12))
  BY DEF Subjects
<1> HIDE DEF named
<1>5. named(Own(keywords)) \subseteq AllSubjects /\ named(First(keywords, 12)) \subseteq AllSubjects
  BY <1>1, <1>2
<1> QED
  BY <1>3, <1>4, <1>5

\* The limits are those of three kinds of lines.
LEMMA KindsAre ==
  /\ Kind = {"headlines", "descriptions", "callouts"}
  /\ \A k \in Kind : LimitOf[k] \in Nat
BY DEF Kind, LimitOf

\* The heads of what fits and is said once.
LEMMA ChosenLines ==
  ASSUME NEW list, IsList(list), NEW kind, NEW n \in Nat, NEW m \in Nat, m <= n,
         NEW S, \A x \in S : Fit(x, kind) /\ \E k \in DOMAIN list : list[k] = x,
         Cardinality(S) >= m,
         NEW head, head = First(Distinct(Fitting(list, kind)), n)
  PROVE  AllFit(head, kind) /\ NoneTwice(head) /\ Len(head) \in Nat /\ Len(head) >= m
<1> DEFINE fit == Fitting(list, kind)
           own == Distinct(fit)
<1>1. /\ AllFit(fit, kind)
      /\ \A k \in DOMAIN list : Fit(list[k], kind) => \E l \in DOMAIN fit : fit[l] = list[k]
  BY FittingIs
<1> HIDE DEF fit
<1>2. IsList(fit)
  BY <1>1 DEF AllFit
<1>3. /\ IsList(own) /\ NoneTwice(own)
      /\ \A k \in DOMAIN fit : \E l \in DOMAIN own : own[l] = fit[k]
  BY <1>2, DistinctIs
<1>4. AllFit(own, kind)
  BY <1>1, DistinctFits
<1>5. \A x \in S : \E l \in DOMAIN own : own[l] = x
  BY <1>1, <1>3
<1>6. head = First(own, n)
  BY DEF fit
<1> HIDE DEF own
<1>7. Len(own) >= m
  BY <1>3, <1>5, LongEnough
<1>8. /\ Len(head) \in Nat /\ Len(head) = (IF n <= Len(own) THEN n ELSE Len(own))
      /\ \A k \in DOMAIN head : k \in DOMAIN own /\ head[k] = own[k]
  BY <1>3, <1>6, HeadIs
<1>9. NoneTwice(head)
  BY <1>3, <1>8 DEF NoneTwice
<1>10. AllFit(head, kind)
  BY <1>4, <1>6, HeadFits
<1> QED
  BY <1>7, <1>8, <1>9, <1>10

\* What templates make.
IsTemplate(t) ==
  /\ DOMAIN t = Kind /\ t.callouts = <<>>
  /\ AllFit(t.headlines, "headlines") /\ AllFit(t.descriptions, "descriptions")
  /\ NoneTwice(t.headlines) /\ NoneTwice(t.descriptions)
  /\ Len(t.headlines) \in Nat /\ Len(t.headlines) >= 5
  /\ Len(t.descriptions) \in Nat /\ Len(t.descriptions) >= 2

\* A list has what two others have.
HasBoth(s, w, r) == \A x \in ToSet(s) \cup ToSet(w) : \E k \in DOMAIN r : r[k] = x

\* Five lists in a row have what the first and the last have.
LEMMA TemplateLines ==
  ASSUME NEW s, IsList(s), NEW t, IsList(t), NEW u, IsList(u), NEW v, IsList(v), NEW w, IsList(w),
         NEW r, r = s \o t \o u \o v \o w
  PROVE  IsList(r) /\ HasBoth(s, w, r)
<1>1. IsList(s \o t) /\ \A k \in DOMAIN s : \E l \in DOMAIN (s \o t) : (s \o t)[l] = s[k]
  BY Joined DEF IsJoin
<1> DEFINE p == s \o t
<1> HIDE DEF p
<1>2. IsList(p \o u) /\ \A k \in DOMAIN p : \E l \in DOMAIN (p \o u) : (p \o u)[l] = p[k]
  BY <1>1, Joined DEF IsJoin, p
<1> DEFINE q == p \o u
<1> HIDE DEF q
<1>3. IsList(q \o v) /\ \A k \in DOMAIN q : \E l \in DOMAIN (q \o v) : (q \o v)[l] = q[k]
  BY <1>2, Joined DEF IsJoin, q
<1> DEFINE o == q \o v
<1> HIDE DEF o
<1>4. /\ IsList(r)
      /\ \A k \in DOMAIN o : \E l \in DOMAIN r : r[l] = o[k]
      /\ \A k \in DOMAIN w : \E l \in DOMAIN r : r[l] = w[k]
  <2>1. IsJoin(o, w, o \o w)
    BY <1>3, Joined DEF o
  <2>2. r = o \o w
    BY DEF o, q, p
  <2> QED
    BY <2>1, <2>2 DEF IsJoin
<1>5. \A x \in ToSet(s) : \E k \in DOMAIN s : s[k] = x
  BY DEF ToSet
<1>6. \A x \in ToSet(w) : \E k \in DOMAIN w : w[k] = x
  BY DEF ToSet
<1>7. \A k \in DOMAIN s : \E l \in DOMAIN r : r[l] = s[k]
  <2> SUFFICES ASSUME NEW k \in DOMAIN s PROVE \E l \in DOMAIN r : r[l] = s[k]
    OBVIOUS
  <2>1. PICK k1 \in DOMAIN p : p[k1] = s[k]
    BY <1>1 DEF p
  <2>2. PICK k2 \in DOMAIN q : q[k2] = p[k1]
    BY <1>2 DEF q
  <2>3. PICK k3 \in DOMAIN o : o[k3] = q[k2]
    BY <1>3 DEF o
  <2> QED
    BY <1>4, <2>1, <2>2, <2>3
<1>8. ASSUME NEW x \in ToSet(s) PROVE \E k \in DOMAIN r : r[k] = x
  BY <1>5, <1>7
<1>9. ASSUME NEW x \in ToSet(w) PROVE \E k \in DOMAIN r : r[k] = x
  BY <1>4, <1>6
<1> QED
  BY <1>4, <1>8, <1>9 DEF HasBoth

\* What the templates make (_template_assets): of the fixed headlines and the descriptions
\* that fit, five and two are left when repetitions are dropped and the rest is cut.
LEMMA TemplateIs ==
  ASSUME NEW keywords, FromPlan(keywords)
  PROVE  IsTemplate(TemplateAssets(keywords))
<1> DEFINE own      == Own(keywords)
           ranked   == Ranked(own)
           subjects == Subjects(keywords)
           leading  == First(ProgrammesOf(keywords), 2)
           led      == [n \in DOMAIN leading |-> ProgrammeLine[leading[n]]]
           spoken   == [n \in DOMAIN ranked |-> HeadlineOf[ranked[n].word]]
           topical  == Topical(subjects)
           lines    == Opening \o led \o spoken \o topical \o Closing
           texts    == DescriptionsOf(subjects)
           t        == TemplateAssets(keywords)
<1>1. /\ t = [headlines    |-> First(Distinct(Fitting(lines, "headlines")), MaxHeadlines),
              descriptions |-> First(Distinct(Fitting(texts, "descriptions")), MaxDescriptions),
              callouts     |-> <<>>]
  BY DEF TemplateAssets
<1>2. IsList(ranked)
  <2>1. IsList(own)
    BY OwnFromPlan DEF FromPlan
  <2> HIDE DEF own
  <2> QED
    BY <2>1, SortedList DEF Ranked
<1>3. IsList(spoken)
  <2> HIDE DEF ranked
  <2>1. Len(ranked) \in Nat /\ DOMAIN ranked = 1..Len(ranked)
    BY <1>2, ListIs
  <2> QED
    BY <2>1 DEF IsList
<1>4. IsList(leading)
  <2> DEFINE S == {n \in DOMAIN Programmes : Programmes[n] \in Subjects(keywords)}
             named == ElementsAt(Programmes, S)
             all == ProgrammesOf(keywords)
  <2>1. IsList(Programmes) /\ S \in SUBSET DOMAIN Programmes
    BY CopyAssumption, SeqIsList
  <2>2. all = <<Last(Programmes)>> \/ all = named
    BY DEF ProgrammesOf
  <2> HIDE DEF S, all
  <2>3. IsList(named)
    BY <2>1, Selected
  <2>4. IsList(<<Last(Programmes)>>)
    BY DEF IsList
  <2>5. IsList(all)
    BY <2>2, <2>3, <2>4
  <2> QED
    BY <2>5, HeadIs DEF all
<1>5. IsList(led)
  <2> HIDE DEF leading
  <2>1. Len(leading) \in Nat /\ DOMAIN leading = 1..Len(leading)
    BY <1>4, ListIs
  <2> QED
    BY <2>1 DEF IsList
<1>6. IsList(topical)
  <2> DEFINE S == {n \in DOMAIN TopicLines : TopicLines[n].topic \in subjects}
             some == ElementsAt(TopicLines, S)
  <2>1. IsList(TopicLines) /\ S \in SUBSET DOMAIN TopicLines
    BY CopyAssumption, SeqIsList
  <2>2. topical = [n \in DOMAIN some |-> some[n].line]
    BY DEF Topical
  <2> HIDE DEF S, topical
  <2>3. IsList(some)
    BY <2>1, Selected
  <2> HIDE DEF some
  <2>4. Len(some) \in Nat /\ DOMAIN some = 1..Len(some)
    BY <2>3, ListIs
  <2> QED
    BY <2>2, <2>4 DEF IsList
<1>7. IsList(Opening) /\ IsList(Closing)
  BY CopyAssumption, SeqIsList
<1>8. subjects \in SUBSET AllSubjects
  BY SubjectsKnown
<1>9. IsList(texts) /\ Cardinality({l \in ToSet(texts) : Fit(l, "descriptions")}) >= 2
  <2> HIDE DEF subjects
  <2>1. /\ texts \in Seq(DOMAIN SizeOf)
        /\ Cardinality({l \in ToSet(texts) : Fit(l, "descriptions")}) >= 2
    BY <1>8, CopyAssumption
  <2> QED
    BY <2>1, SeqIsList
<1> HIDE DEF own, ranked, subjects, leading, led, spoken, topical, lines, texts, t
<1>10. /\ IsList(lines)
       /\ \A x \in ToSet(Opening) \cup ToSet(Closing) : \E k \in DOMAIN lines : lines[k] = x
  <2>1. lines = Opening \o led \o spoken \o topical \o Closing
    BY DEF lines
  <2>2. IsList(lines) /\ HasBoth(Opening, Closing, lines)
    BY <1>3, <1>5, <1>6, <1>7, <2>1, TemplateLines
  <2> QED
    BY <2>2 DEF HasBoth
<1>11. Cardinality({l \in ToSet(Opening) \cup ToSet(Closing) : Fit(l, "headlines")}) >= 5
  BY CopyAssumption
<1>12. /\ AllFit(t.headlines, "headlines") /\ NoneTwice(t.headlines)
       /\ Len(t.headlines) \in Nat /\ Len(t.headlines) >= 5
  <2> DEFINE S == {l \in ToSet(Opening) \cup ToSet(Closing) : Fit(l, "headlines")}
             head == t.headlines
  <2>1. \A x \in S : Fit(x, "headlines") /\ \E k \in DOMAIN lines : lines[k] = x
    BY <1>10
  <2>2. Cardinality(S) >= 5
    BY <1>11
  <2>3. head = First(Distinct(Fitting(lines, "headlines")), 15)
    BY <1>1 DEF MaxHeadlines
  <2> HIDE DEF S, head
  <2>4. AllFit(head, "headlines") /\ NoneTwice(head) /\ Len(head) \in Nat /\ Len(head) >= 5
    BY <1>10, <2>1, <2>2, <2>3, ChosenLines
  <2> QED
    BY <2>4 DEF head
<1>13. /\ AllFit(t.descriptions, "descriptions") /\ NoneTwice(t.descriptions)
       /\ Len(t.descriptions) \in Nat /\ Len(t.descriptions) >= 2
  <2> DEFINE S == {l \in ToSet(texts) : Fit(l, "descriptions")}
             head == t.descriptions
  <2>1. \A x \in S : Fit(x, "descriptions") /\ \E k \in DOMAIN texts : texts[k] = x
    BY DEF ToSet
  <2>2. Cardinality(S) >= 2
    BY <1>9
  <2>3. head = First(Distinct(Fitting(texts, "descriptions")), 4)
    BY <1>1 DEF MaxDescriptions
  <2> HIDE DEF S, head
  <2>4. AllFit(head, "descriptions") /\ NoneTwice(head) /\ Len(head) \in Nat /\ Len(head) >= 2
    BY <1>9, <2>1, <2>2, <2>3, ChosenLines
  <2> QED
    BY <2>4 DEF head
<1>14. DOMAIN t = Kind /\ t.callouts = <<>>
  BY <1>1 DEF Kind
<1> QED
  BY <1>12, <1>13, <1>14 DEF IsTemplate, t


\* What copy of a campaign the code makes.
IsMade(a) ==
  /\ DOMAIN a = Kind
  /\ AllFit(a.headlines, "headlines") /\ AllFit(a.descriptions, "descriptions")
  /\ AllFit(a.callouts, "callouts")
  /\ Rich(a.headlines, 5) /\ Rich(a.descriptions, 2)

\* A list whose lines all fit is not long.
LEMMA FitsLimit ==
  ASSUME NEW kind \in Kind, NEW list, AllFit(list, kind)
  PROVE  ~Long(list, kind)
<1>1. LimitOf[kind] \in Nat
  BY KindsAre
<1>2. \A n \in DOMAIN list : SizeOf[list[n]] \in 1..LimitOf[kind]
  BY DEF AllFit, Fit
<1> QED
  BY <1>1, <1>2 DEF Long

\* The points of the strength: for the headlines, the descriptions, the repetitions and
\* the themes.
PointsOf(h, d, q, z) ==
  Min({4, h \div 4}) + Min({2, d}) + (IF q >= 90 THEN 2 ELSE IF q >= 70 THEN 1 ELSE 0) + z

\* Five different headlines and two descriptions have four points: with less than eight
\* headlines, few of them can be repetitions.
LEMMA StrongEnough ==
  ASSUME NEW h \in Nat, h >= 5, NEW d \in Nat, d >= 2, NEW u \in Nat, u >= 5,
         NEW q, q = (100 * u) \div h, NEW z \in 0..2
  PROVE  PointsOf(h, d, q, z) \in Nat /\ PointsOf(h, d, q, z) >= 4
<1> DEFINE x == Min({4, h \div 4})
           y == Min({2, d})
           w == IF q >= 90 THEN 2 ELSE IF q >= 70 THEN 1 ELSE 0
<1>1. h \div 4 \in Nat /\ h \div 4 >= 1 /\ (h >= 8 => h \div 4 >= 2)
  OBVIOUS
<1>2. x = IF 4 <= h \div 4 THEN 4 ELSE h \div 4
  <2> DEFINE k == h \div 4
  <2>1. k \in Int
    OBVIOUS
  <2> HIDE DEF k
  <2>2. Min({4, k}) = IF 4 <= k THEN 4 ELSE k
    BY <2>1, LessOf
  <2> QED
    BY <2>2 DEF k
<1>3. y = 2
  BY LessOf
<1>4. w \in {0, 1, 2}
  OBVIOUS
<1>5. h < 8 => w >= 1
  <2>1. ASSUME h < 8 PROVE q >= 70
    <3>1. h \in {5, 6, 7}
      BY <2>1
    <3>2. 100 * u >= 500 /\ 100 * u \in Nat
      OBVIOUS
    <3> QED
      BY <3>1, <3>2
  <2>2. ASSUME h < 8 PROVE q \in Int
    OBVIOUS
  <2> QED
    BY <2>1, <2>2
<1> HIDE DEF x, y, w
<1>6. x \in Nat /\ x >= 1 /\ (h >= 8 => x >= 2)
  <2> DEFINE k == h \div 4
  <2>1. k \in Nat /\ k >= 1 /\ (h >= 8 => k >= 2) /\ x = IF 4 <= k THEN 4 ELSE k
    BY <1>1, <1>2
  <2> HIDE DEF k
  <2> QED
    BY <2>1
<1>7. x + y + w + z >= 4 /\ x + y + w + z \in Nat
  BY <1>3, <1>4, <1>5, <1>6
<1> QED
  BY <1>7 DEF x, y, w, PointsOf

\* Five headlines and two descriptions are rated better than poor.
LEMMA MadeRuns ==
  ASSUME NEW a, IsMade(a)
  PROVE  Fits(a) /\ Enough(a) /\ Strength(a) # "POOR"
<1> DEFINE heads == a.headlines
           descs == a.descriptions
           percent(part, whole) == IF whole = 0 THEN 0 ELSE (100 * part) \div whole
           unique  == percent(Cardinality(Range(heads)), Len(heads))
           covered == percent(Cardinality({t \in DOMAIN Themes : Themes[t] \cap Range(heads) # {}}),
                              Cardinality(DOMAIN Themes))
           wrong   == \/ Long(heads, "headlines") \/ Len(heads) < 3
                      \/ Long(descs, "descriptions") \/ Len(descs) < 2
           z == IF covered >= 50 THEN 2 ELSE IF covered >= 25 THEN 1 ELSE 0
           points  == Min({4, Len(heads) \div 4}) + Min({2, Len(descs)})
                        + (IF unique >= 90 THEN 2 ELSE IF unique >= 70 THEN 1 ELSE 0) + z
<1>1. /\ AllFit(heads, "headlines") /\ AllFit(descs, "descriptions") /\ AllFit(a.callouts, "callouts")
      /\ IsList(heads) /\ IsList(descs) /\ Rich(heads, 5) /\ Rich(descs, 2) /\ DOMAIN a = Kind
  BY DEF IsMade, AllFit
<1>2. /\ Len(heads) \in Nat /\ Len(heads) >= 5
      /\ Cardinality(Range(heads)) \in Nat /\ Cardinality(Range(heads)) >= 5
      /\ Len(descs) \in Nat /\ Len(descs) >= 2
      /\ Cardinality(Range(descs)) \in Nat /\ Cardinality(Range(descs)) >= 2
  BY <1>1, RichCounts
<1>3. ~Long(heads, "headlines") /\ ~Long(descs, "descriptions") /\ ~Long(a.callouts, "callouts")
  BY <1>1, FitsLimit, KindsAre
<1>4. Fits(a)
  BY <1>1, <1>3, KindsAre DEF Fits
<1>5. Enough(a)
  BY <1>2 DEF Enough
<1>6. unique = (100 * Cardinality(Range(heads))) \div Len(heads)
  BY <1>2
<1>7. ~wrong
  BY <1>2, <1>3
<1>8. z \in 0..2
  OBVIOUS
<1>9. Strength(a) = CASE wrong \/ points < 4 -> "POOR"
                      [] points \in 4..5     -> "AVERAGE"
                      [] points \in 6..7     -> "GOOD"
                      [] OTHER               -> "EXCELLENT"
  BY DEF Strength
<1> HIDE DEF unique, covered, wrong, z
<1>10. points >= 4 /\ points \in Nat
  <2> DEFINE h == Len(heads)
             d == Len(descs)
             u == Cardinality(Range(heads))
  <2>1. h \in Nat /\ h >= 5 /\ d \in Nat /\ d >= 2 /\ u \in Nat /\ u >= 5 /\ unique = (100 * u) \div h
    BY <1>2, <1>6
  <2> HIDE DEF h, d, u
  <2>2. PointsOf(h, d, unique, z) \in Nat /\ PointsOf(h, d, unique, z) >= 4
    BY ONLY <1>8, <2>1, StrongEnough
  <2> QED
    BY <2>2 DEF h, d, PointsOf
<1> HIDE DEF points
<1>11. ~(wrong \/ points < 4)
  BY <1>7, <1>10
<1>12. Strength(a) \in {"AVERAGE", "GOOD", "EXCELLENT"}
  BY <1>9, <1>11
<1> QED
  BY <1>4, <1>5, <1>12


\* So many of a list are all different, if none is there twice.
LEMMA NoneTwiceCounts ==
  ASSUME NEW list, IsList(list), NoneTwice(list), NEW m \in Nat, Len(list) >= m
  PROVE  Cardinality(ToSet(list)) >= m
<1>0. \A n \in Nat : IsFiniteSet(1..n) /\ Cardinality(1..n) = n
  BY FS_Interval
<1>1. Len(list) \in Nat /\ DOMAIN list = 1..Len(list)
  BY ListIs
<1> DEFINE D == DOMAIN list
<1>2. IsFiniteSet(D) /\ Cardinality(D) = Len(list) /\ \A i, j \in D : list[i] = list[j] => i = j
  BY <1>0, <1>1 DEF NoneTwice
<1>3. ToSet(list) = {list[n] : n \in D}
  BY DEF ToSet
<1> HIDE DEF D
<1>4. Cardinality({list[n] : n \in D}) = Cardinality(D)
  BY <1>2, ImageFinite
<1> QED
  BY <1>2, <1>3, <1>4

\* The model's lines and the templates behind them.
LEMMA ModelLines ==
  ASSUME NEW kind, NEW answer, IsList(answer), NEW template, AllFit(template, kind),
         NoneTwice(template), Len(template) \in Nat,
         NEW m \in Nat, NEW n \in Nat, m + m <= n, Len(template) >= m,
         NEW short \in BOOLEAN, ~short => Len(Distinct(Fitting(answer, kind))) >= n,
         NEW filled,
         filled = Distinct(Fitting(answer, kind)) \o IF short THEN template ELSE <<>>
  PROVE  AllFit(First(filled, n), kind) /\ Rich(First(filled, n), m)
<1> DEFINE lines == Distinct(Fitting(answer, kind))
           rest == IF short THEN template ELSE <<>>
<1>1. AllFit(Fitting(answer, kind), kind)
  BY FittingIs
<1>2. AllFit(lines, kind) /\ NoneTwice(lines)
  <2>1. IsList(Fitting(answer, kind))
    BY <1>1 DEF AllFit
  <2> QED
    BY <1>1, <2>1, DistinctFits, DistinctIs
<1>3. AllFit(rest, kind) /\ NoneTwice(rest)
  <2>1. AllFit(<<>>, kind)
    BY NothingFits
  <2>2. NoneTwice(<<>>)
    BY DEF NoneTwice
  <2> QED
    BY <2>1, <2>2
<1>4. m <= Len(lines) \/ m <= Len(rest)
  <2>1. CASE short
    <3>1. rest = template
      BY <2>1
    <3> QED
      BY <3>1
  <2>2. CASE ~short
    <3>1. Len(lines) >= n
      BY <2>2
    <3>2. Len(lines) \in Nat
      BY <1>2, ListIs DEF AllFit
    <3> HIDE DEF lines
    <3> QED
      BY <3>1, <3>2
  <2> QED
    BY <2>1, <2>2
<1>5. filled = lines \o rest
  OBVIOUS
<1> HIDE DEF lines, rest
<1>6. AllFit(filled, kind)
  BY <1>2, <1>3, <1>5, JoinFits
<1>7. IsList(lines) /\ IsList(rest)
  BY <1>2, <1>3 DEF AllFit
<1>8. Rich(First(lines \o rest, n), m)
  BY <1>2, <1>3, <1>4, <1>7, JoinRich
<1> QED
  BY <1>5, <1>6, <1>8, HeadFits

\* What the model's answer and the templates make together runs.
LEMMA ModelIs ==
  ASSUME NEW keywords, FromPlan(keywords), NEW answer \in ModelAnswers
  PROVE  IsMade(ModelAssets(keywords, answer))
<1> DEFINE t == TemplateAssets(keywords)
           lines(kind) == Distinct(Fitting(answer[kind], kind))
           short  == \/ Len(lines("headlines")) < MaxHeadlines
                     \/ Len(lines("descriptions")) < MaxDescriptions
           filled(kind) == lines(kind) \o IF short THEN t[kind] ELSE <<>>
           heads == First(filled("headlines"), MaxHeadlines)
           descs == First(filled("descriptions"), MaxDescriptions)
           calls == First(Fitting(answer.callouts, "callouts"), 4)
<1>1. ModelAssets(keywords, answer)
        = [headlines |-> heads, descriptions |-> descs, callouts |-> calls]
  BY DEF ModelAssets
<1>2. IsTemplate(t)
  BY TemplateIs
<1>3. \A k \in Kind : IsList(answer[k])
  <2>1. \A k \in Kind : answer[k] \in Seq(DOMAIN SizeOf)
    BY CopyAssumption
  <2> QED
    BY <2>1, SeqIsList
<1>4. AllFit(heads, "headlines") /\ Rich(heads, 5)
  <2>1. IsList(answer["headlines"])
    BY <1>3, KindsAre
  <2>2. /\ AllFit(t["headlines"], "headlines") /\ NoneTwice(t["headlines"])
        /\ Len(t["headlines"]) \in Nat /\ Len(t["headlines"]) >= 5
    BY <1>2 DEF IsTemplate
  <2>3. short \in BOOLEAN
    OBVIOUS
  <2>4. ~short => Len(lines("headlines")) >= 15
    <3>1. IsList(lines("headlines"))
      BY <2>1, FittingIs, DistinctIs DEF AllFit
    <3>2. Len(lines("headlines")) \in Nat
      BY <3>1, ListIs
    <3> QED
      BY <3>2 DEF MaxHeadlines
  <2> DEFINE u == t["headlines"]
             a == answer["headlines"]
             f == filled("headlines")
  <2>5. f = Distinct(Fitting(a, "headlines")) \o IF short THEN u ELSE <<>>
    OBVIOUS
  <2>6. ~short => Len(Distinct(Fitting(a, "headlines"))) >= 15
    BY <2>4
  <2> HIDE DEF t, short, u, a, f
  <2>7. IsList(a) /\ AllFit(u, "headlines") /\ NoneTwice(u) /\ Len(u) \in Nat /\ Len(u) >= 5
    BY <2>1, <2>2 DEF u, a
  <2>8. 5 \in Nat /\ 15 \in Nat /\ 5 + 5 <= 15
    OBVIOUS
  <2>9. AllFit(First(f, 15), "headlines") /\ Rich(First(f, 15), 5)
    BY ONLY <2>3, <2>5, <2>6, <2>7, <2>8, ModelLines
  <2> QED
    BY <2>9 DEF f, MaxHeadlines
<1>5. AllFit(descs, "descriptions") /\ Rich(descs, 2)
  <2>1. IsList(answer["descriptions"])
    BY <1>3, KindsAre
  <2>2. /\ AllFit(t["descriptions"], "descriptions") /\ NoneTwice(t["descriptions"])
        /\ Len(t["descriptions"]) \in Nat /\ Len(t["descriptions"]) >= 2
    BY <1>2 DEF IsTemplate
  <2>3. short \in BOOLEAN
    OBVIOUS
  <2>4. ~short => Len(lines("descriptions")) >= 4
    <3>1. IsList(lines("descriptions"))
      BY <2>1, FittingIs, DistinctIs DEF AllFit
    <3>2. Len(lines("descriptions")) \in Nat
      BY <3>1, ListIs
    <3> QED
      BY <3>2 DEF MaxDescriptions
  <2> DEFINE u == t["descriptions"]
             a == answer["descriptions"]
             f == filled("descriptions")
  <2>5. f = Distinct(Fitting(a, "descriptions")) \o IF short THEN u ELSE <<>>
    OBVIOUS
  <2>6. ~short => Len(Distinct(Fitting(a, "descriptions"))) >= 4
    BY <2>4
  <2> HIDE DEF t, short, u, a, f
  <2>7. IsList(a) /\ AllFit(u, "descriptions") /\ NoneTwice(u) /\ Len(u) \in Nat /\ Len(u) >= 2
    BY <2>1, <2>2 DEF u, a
  <2>8. 2 \in Nat /\ 4 \in Nat /\ 2 + 2 <= 4
    OBVIOUS
  <2>9. AllFit(First(f, 4), "descriptions") /\ Rich(First(f, 4), 2)
    BY ONLY <2>3, <2>5, <2>6, <2>7, <2>8, ModelLines
  <2> QED
    BY <2>9 DEF f, MaxDescriptions
<1>6. AllFit(calls, "callouts")
  <2>1. IsList(answer.callouts)
    BY <1>3, KindsAre
  <2>2. AllFit(Fitting(answer.callouts, "callouts"), "callouts")
    BY <2>1, FittingIs
  <2> QED
    BY <2>2, HeadFits
<1> HIDE DEF heads, descs, calls
<1> QED
  BY <1>1, <1>4, <1>5, <1>6 DEF IsMade, Kind

\* So does what the templates make alone.
LEMMA TemplateMade ==
  ASSUME NEW t, IsTemplate(t)
  PROVE  IsMade(t)
<1>1. /\ DOMAIN t = Kind /\ t.callouts = <<>>
      /\ AllFit(t.headlines, "headlines") /\ AllFit(t.descriptions, "descriptions")
      /\ NoneTwice(t.headlines) /\ NoneTwice(t.descriptions)
      /\ Len(t.headlines) \in Nat /\ Len(t.headlines) >= 5
      /\ Len(t.descriptions) \in Nat /\ Len(t.descriptions) >= 2
  BY DEF IsTemplate
<1>2. ASSUME NEW list, NoneTwice(list), IsList(list), NEW m \in Nat, m <= Len(list)
      PROVE  Rich(list, m)
  <2>1. Len(list) \in Nat /\ DOMAIN list = 1..Len(list)
    BY <1>2, ListIs
  <2>2. 0 \in Nat /\ 0 + m <= Len(list)
    BY <1>2, <2>1
  <2>3. \A i \in 1..m : i \in DOMAIN list /\ 0 + i = i
    BY <1>2, <2>1
  <2>4. \A i, j \in 1..m : list[0 + i] = list[0 + j] => i = j
    BY <1>2, <2>3 DEF NoneTwice
  <2> QED
    BY <2>2, <2>4 DEF Rich
<1>3. IsList(t.headlines) /\ IsList(t.descriptions)
  BY <1>1 DEF AllFit
<1>4. Rich(t.headlines, 5) /\ Rich(t.descriptions, 2)
  BY <1>1, <1>2, <1>3
<1>5. AllFit(t.callouts, "callouts")
  BY <1>1, NothingFits
<1> QED
  BY <1>1, <1>4, <1>5 DEF IsMade

\* Whatever is generated, and callouts of before if there are none.
LEMMA GeneratedIs ==
  ASSUME NEW keywords, FromPlan(keywords), NEW assets \in GeneratedAssets(keywords),
         NEW callouts, AllFit(callouts, "callouts"),
         NEW made, made = [assets EXCEPT !.callouts = IF @ # <<>> THEN @ ELSE callouts]
  PROVE  IsMade(made)
<1> DEFINE best == ByScore(keywords)
<1>1. FromPlan(best)
  BY BestFromPlan
<1>2. IsMade(TemplateAssets(best)) /\ \A a \in ModelAnswers : IsMade(ModelAssets(best, a))
  BY <1>1, TemplateIs, TemplateMade, ModelIs
<1>3. IsMade(assets)
  BY <1>2 DEF GeneratedAssets
<1> QED
  BY <1>3, KindsAre DEF IsMade


\* No line of a list is over its limit.
Within(list, kind) == IsList(list) /\ ~Long(list, kind)

\* An ad that Google accepts, and one that runs.
FitAd(a) ==
  /\ DOMAIN a = {"headlines", "descriptions"}
  /\ Within(a.headlines, "headlines") /\ Within(a.descriptions, "descriptions")
  /\ Len(a.headlines) <= MaxHeadlines /\ Len(a.descriptions) <= MaxDescriptions

\* One to three such ads.
GoodAds(ads) ==
  IsList(ads) /\ Len(ads) \in 1..3 /\ \A n \in DOMAIN ads : FitAd(ads[n])

\* The ads of all groups, of which the first of each runs unless somebody wrote them.
GoodGroups(groups, byHand) ==
  \A n \in DOMAIN groups :
    /\ DOMAIN groups[n] = {"intent", "words", "ads"} /\ GoodAds(groups[n].ads)
    /\ ~byHand => Rich(groups[n].ads[1].headlines, 3) /\ Rich(groups[n].ads[1].descriptions, 2)

\* Where more are different, so are less.
LEMMA LessRich ==
  ASSUME NEW list, NEW m \in Nat, NEW n \in Nat, m <= n, Rich(list, n), Len(list) \in Nat
  PROVE  Rich(list, m)
<1>1. PICK p \in Nat : p + n <= Len(list) /\ \A i, j \in 1..n : list[p + i] = list[p + j] => i = j
  BY DEF Rich
<1>2. p + m <= Len(list) /\ \A i \in 1..m : i \in 1..n
  BY <1>1
<1> QED
  BY <1>1, <1>2 DEF Rich

\* The head of the lines of two, without repetitions, one of which has enough.
LEMMA BothLines ==
  ASSUME NEW s, NEW t, NEW kind, AllFit(s, kind), AllFit(t, kind), NEW m \in Nat, NEW n \in Nat,
         m <= n, Cardinality(ToSet(s)) >= m \/ Cardinality(ToSet(t)) >= m,
         NEW head, head = First(Distinct(s \o t), n)
  PROVE  AllFit(head, kind) /\ Len(head) <= n /\ Rich(head, m)
<1> DEFINE r == s \o t
           own == Distinct(r)
<1>1. /\ IsList(r)
      /\ \A k \in DOMAIN s : \E l \in DOMAIN r : r[l] = s[k]
      /\ \A k \in DOMAIN t : \E l \in DOMAIN r : r[l] = t[k]
  BY Joined DEF AllFit, IsJoin
<1>2. AllFit(r, kind)
  BY JoinFits
<1> HIDE DEF r
<1>3. /\ IsList(own) /\ NoneTwice(own) /\ AllFit(own, kind)
      /\ \A k \in DOMAIN r : \E l \in DOMAIN own : own[l] = r[k]
  BY <1>1, <1>2, DistinctIs, DistinctFits
<1> HIDE DEF own
<1>4. ASSUME NEW x \in ToSet(s) PROVE \E l \in DOMAIN own : own[l] = x
  <2>1. PICK k \in DOMAIN s : s[k] = x
    BY DEF ToSet
  <2>2. PICK l \in DOMAIN r : r[l] = s[k]
    BY <1>1
  <2> QED
    BY <1>3, <2>1, <2>2
<1>5. ASSUME NEW x \in ToSet(t) PROVE \E l \in DOMAIN own : own[l] = x
  <2>1. PICK k \in DOMAIN t : t[k] = x
    BY DEF ToSet
  <2>2. PICK l \in DOMAIN r : r[l] = t[k]
    BY <1>1
  <2> QED
    BY <1>3, <2>1, <2>2
<1>6. Len(own) >= m
  <2> DEFINE S == ToSet(s)
             T == ToSet(t)
  <2>1. /\ \A x \in S : \E l \in DOMAIN own : own[l] = x
        /\ \A x \in T : \E l \in DOMAIN own : own[l] = x
        /\ Cardinality(S) >= m \/ Cardinality(T) >= m
    BY <1>4, <1>5
  <2> HIDE DEF S, T
  <2> QED
    BY <1>3, <2>1, LongEnough
<1>7. head = First(own, n)
  BY DEF own, r
<1>8. Len(own) \in Nat
  BY <1>3, ListIs
<1>9. Len(head) <= n /\ AllFit(head, kind)
  BY <1>3, <1>7, <1>8, HeadIs, HeadFits
<1>10. Rich(head, m)
  BY <1>3, <1>6, <1>7, HeadRich
<1> QED
  BY <1>9, <1>10

\* The ad of a group whose own lines the templates make, over the copy of the campaign.
LEMMA AdIs ==
  ASSUME NEW group, FromPlan(group.words), NEW base, IsMade(base)
  PROVE  /\ FitAd(AdFor(group, base))
         /\ Rich(AdFor(group, base).headlines, 5) /\ Rich(AdFor(group, base).descriptions, 2)
<1> DEFINE own == TemplateAssets(group.words)
           both(kind) == Distinct(IF group.intent = "brand" THEN base[kind] \o own[kind]
                                  ELSE own[kind] \o base[kind])
           heads == First(both("headlines"), MaxHeadlines)
           descs == First(both("descriptions"), MaxDescriptions)
<1>1. AdFor(group, base) = [headlines |-> heads, descriptions |-> descs]
  BY DEF AdFor
<1>2. /\ AllFit(own.headlines, "headlines") /\ AllFit(own.descriptions, "descriptions")
      /\ IsList(own.headlines) /\ IsList(own.descriptions)
      /\ NoneTwice(own.headlines) /\ NoneTwice(own.descriptions)
      /\ Len(own.headlines) >= 5 /\ Len(own.descriptions) >= 2
  BY TemplateIs DEF IsTemplate, AllFit
<1>3. AllFit(base.headlines, "headlines") /\ AllFit(base.descriptions, "descriptions")
  BY DEF IsMade
<1> HIDE DEF own
<1>4. Cardinality(ToSet(own.headlines)) >= 5 /\ Cardinality(ToSet(own.descriptions)) >= 2
  BY <1>2, NoneTwiceCounts
<1>5. AllFit(heads, "headlines") /\ Len(heads) <= 15 /\ Rich(heads, 5)
  <2> DEFINE o == own.headlines
             b == base.headlines
  <2>1. AllFit(o, "headlines") /\ AllFit(b, "headlines") /\ Cardinality(ToSet(o)) >= 5
    BY <1>2, <1>3, <1>4
  <2>2. heads = First(Distinct(IF group.intent = "brand" THEN b \o o ELSE o \o b), 15)
    BY DEF MaxHeadlines
  <2>3. 5 \in Nat /\ 15 \in Nat /\ 5 <= 15
    OBVIOUS
  <2> HIDE DEF o, b, heads
  <2>4. CASE group.intent = "brand"
    <3>1. heads = First(Distinct(b \o o), 15)
      BY <2>2, <2>4
    <3> QED
      BY ONLY <2>1, <2>3, <3>1, BothLines
  <2>5. CASE group.intent # "brand"
    <3>1. heads = First(Distinct(o \o b), 15)
      BY <2>2, <2>5
    <3> QED
      BY ONLY <2>1, <2>3, <3>1, BothLines
  <2> QED
    BY <2>4, <2>5
<1>6. AllFit(descs, "descriptions") /\ Len(descs) <= 4 /\ Rich(descs, 2)
  <2> DEFINE o == own.descriptions
             b == base.descriptions
  <2>1. AllFit(o, "descriptions") /\ AllFit(b, "descriptions") /\ Cardinality(ToSet(o)) >= 2
    BY <1>2, <1>3, <1>4
  <2>2. descs = First(Distinct(IF group.intent = "brand" THEN b \o o ELSE o \o b), 4)
    BY DEF MaxDescriptions
  <2>3. 2 \in Nat /\ 4 \in Nat /\ 2 <= 4
    OBVIOUS
  <2> HIDE DEF o, b, descs
  <2>4. CASE group.intent = "brand"
    <3>1. descs = First(Distinct(b \o o), 4)
      BY <2>2, <2>4
    <3> QED
      BY ONLY <2>1, <2>3, <3>1, BothLines
  <2>5. CASE group.intent # "brand"
    <3>1. descs = First(Distinct(o \o b), 4)
      BY <2>2, <2>5
    <3> QED
      BY ONLY <2>1, <2>3, <3>1, BothLines
  <2> QED
    BY <2>4, <2>5
<1> HIDE DEF heads, descs
<1>7. DOMAIN AdFor(group, base) = {"headlines", "descriptions"}
  BY <1>1
<1>8. Within(heads, "headlines") /\ Within(descs, "descriptions")
  <2>1. IsList(heads) /\ IsList(descs)
    BY <1>5, <1>6 DEF AllFit
  <2> QED
    BY <1>5, <1>6, <2>1, FitsLimit, KindsAre DEF Within
<1> QED
  BY <1>1, <1>5, <1>6, <1>7, <1>8 DEF FitAd, MaxHeadlines, MaxDescriptions

\* The groups that are made from the keywords of a plan, whoever is asked.
LEMMA AdGroupsAre ==
  ASSUME NEW keywords, FromPlan(keywords), NEW base, IsMade(base), NEW byHand
  PROVE  GoodGroups(AdGroups(keywords, base), byHand)
<1> DEFINE groups == GroupsOf(keywords)
<1>1. \A n \in DOMAIN groups : FromPlan(groups[n].words)
  <2> DEFINE S == {n \in DOMAIN IntentOrder : IntentOrder[n] \in IntentsOf(keywords)}
             present == ElementsAt(IntentOrder, S)
             In(intent) == {n \in DOMAIN keywords : keywords[n].intent = intent}
             of(intent) == ElementsAt(keywords, In(intent))
  <2>1. groups = [n \in DOMAIN present |->
                    [intent |-> present[n], words |-> First(of(present[n]), 12)]]
    BY DEF GroupsOf
  <2>2. \A intent : In(intent) \in SUBSET DOMAIN keywords
    OBVIOUS
  <2> HIDE DEF In
  <2>3. \A intent : FromPlan(of(intent))
    BY <2>2, SomeFromPlan
  <2> HIDE DEF of
  <2>4. \A intent : FromPlan(First(of(intent), 12))
    BY <2>3, SomeFromPlan
  <2> HIDE DEF present, groups
  <2>5. ASSUME NEW n \in DOMAIN groups PROVE FromPlan(groups[n].words)
    <3>1. groups[n].words = First(of(present[n]), 12)
      BY <2>1
    <3> QED
      BY <2>4, <3>1
  <2> QED
    BY <2>5
<1>2. AdGroups(keywords, base)
        = [n \in DOMAIN groups |->
             [intent |-> groups[n].intent, words |-> groups[n].words,
              ads |-> <<AdFor(groups[n], base)>>]]
  BY DEF AdGroups
<1> HIDE DEF groups
<1> SUFFICES ASSUME NEW n \in DOMAIN groups
             PROVE  LET g == AdGroups(keywords, base)[n]
                    IN  /\ DOMAIN g = {"intent", "words", "ads"} /\ GoodAds(g.ads)
                        /\ Rich(g.ads[1].headlines, 3) /\ Rich(g.ads[1].descriptions, 2)
  BY <1>2 DEF GoodGroups
<1> DEFINE one == AdFor(groups[n], base)
           g == AdGroups(keywords, base)[n]
<1>3. FitAd(one) /\ Rich(one.headlines, 5) /\ Rich(one.descriptions, 2)
  BY <1>1, AdIs
<1>4. g = [intent |-> groups[n].intent, words |-> groups[n].words, ads |-> <<one>>]
  BY <1>2
<1> HIDE DEF one, g
<1>5. DOMAIN g = {"intent", "words", "ads"} /\ g.ads = <<one>>
  BY <1>4
<1>6. IsList(<<one>>) /\ Len(<<one>>) = 1 /\ DOMAIN <<one>> = 1..1 /\ <<one>>[1] = one
  <2> DEFINE s == <<one>>
  <2>1. s \in Seq({one}) /\ Len(s) = 1 /\ s[1] = one
    OBVIOUS
  <2> HIDE DEF s
  <2>2. IsList(s)
    BY <2>1, SeqIsList
  <2>3. DOMAIN s = 1..1
    BY <2>1, <2>2, ListIs
  <2> QED
    BY <2>1, <2>2, <2>3 DEF s
<1>7. GoodAds(g.ads)
  BY <1>3, <1>5, <1>6 DEF GoodAds
<1>8. Rich(one.headlines, 3)
  <2>1. Len(one.headlines) \in Nat
    BY <1>3, ListIs DEF FitAd, Within
  <2> QED
    BY <1>3, <2>1, LessRich
<1> QED
  BY <1>3, <1>5, <1>6, <1>7, <1>8 DEF g


-----------------------------------------------------------------------------
(* What is typed.                                                          *)

\* What comes from a list within its limit is within it.
LEMMA PartWithin ==
  ASSUME NEW list, NEW kind, ~Long(list, kind), NEW new, IsList(new),
         \A k \in DOMAIN new : \E n \in DOMAIN list : new[k] = list[n]
  PROVE  Within(new, kind)
<1>1. \A n \in DOMAIN list : ~(SizeOf[list[n]] > LimitOf[kind])
  BY DEF Long
<1>2. \A k \in DOMAIN new : ~(SizeOf[new[k]] > LimitOf[kind])
  <2> SUFFICES ASSUME NEW k \in DOMAIN new PROVE ~(SizeOf[new[k]] > LimitOf[kind])
    OBVIOUS
  <2>1. PICK n \in DOMAIN list : new[k] = list[n]
    OBVIOUS
  <2> QED
    BY <1>1, <2>1
<1> QED
  BY <1>2 DEF Within, Long

\* What is left of such a list without blank lines.
LEMMA LinesWithin ==
  ASSUME NEW list, NEW kind, Within(list, kind)
  PROVE  Within(Lines(list), kind)
<1> DEFINE S == {n \in DOMAIN list : SizeOf[list[n]] > 0}
<1>1. Lines(list) = ElementsAt(list, S) /\ S \in SUBSET DOMAIN list
  BY DEF Lines
<1> HIDE DEF S
<1>2. /\ IsList(Lines(list))
      /\ \A k \in DOMAIN Lines(list) : PlaceIn(S, k) \in S /\ Lines(list)[k] = list[PlaceIn(S, k)]
  BY <1>1, Selected DEF Within
<1> QED
  BY <1>1, <1>2, PartWithin DEF Within

\* A cleaned ad is one that Google accepts.
LEMMA CleanFits ==
  ASSUME NEW a, Within(a.headlines, "headlines"), Within(a.descriptions, "descriptions")
  PROVE  FitAd(Clean(a))
<1>1. ASSUME NEW list, NEW kind, Within(list, kind), NEW n \in Nat
      PROVE  Within(First(Lines(list), n), kind) /\ Len(First(Lines(list), n)) <= n
  <2> DEFINE lines == Lines(list)
  <2>1. Within(lines, kind)
    BY <1>1, LinesWithin
  <2> HIDE DEF lines
  <2>2. IsList(lines) /\ Len(lines) \in Nat
    BY <2>1, ListIs DEF Within
  <2>3. /\ IsList(First(lines, n)) /\ Len(First(lines, n)) = IF n <= Len(lines) THEN n ELSE Len(lines)
        /\ \A k \in DOMAIN First(lines, n) : k \in DOMAIN lines /\ First(lines, n)[k] = lines[k]
    BY <2>2, HeadIs
  <2>4. Within(First(lines, n), kind)
    BY <2>1, <2>3, PartWithin DEF Within
  <2> QED
    BY <2>2, <2>3, <2>4 DEF lines
<1>2. MaxHeadlines \in Nat /\ MaxDescriptions \in Nat
  BY DEF MaxHeadlines, MaxDescriptions
<1> DEFINE h == First(Lines(a.headlines), MaxHeadlines)
           d == First(Lines(a.descriptions), MaxDescriptions)
<1>3. Clean(a) = [headlines |-> h, descriptions |-> d]
  BY DEF Clean
<1>4. /\ Within(h, "headlines") /\ Within(d, "descriptions")
      /\ Len(h) <= MaxHeadlines /\ Len(d) <= MaxDescriptions
  BY <1>1, <1>2
<1> HIDE DEF h, d
<1> QED
  BY <1>3, <1>4 DEF FitAd

\* A list of three ads at most, each of which is cleaned.
LEMMA CleanAds ==
  ASSUME NEW posted, IsList(posted), posted # <<>>,
         \A n \in DOMAIN posted : /\ Within(posted[n].headlines, "headlines")
                                  /\ Within(posted[n].descriptions, "descriptions"),
         NEW ads, ads = [i \in DOMAIN First(posted, 3) |-> Clean(posted[i])]
  PROVE  GoodAds(ads)
<1> DEFINE l == Len(posted)
           head == First(posted, 3)
<1>1. l \in Nat /\ DOMAIN posted = 1..l
  BY ListIs
<1>2. l >= 1
  <2>1. l = 0 => posted = <<>>
    <3>1. posted \in Seq(Range(posted))
      BY ListIs DEF Range
    <3> QED
      BY <3>1, EmptySeq
  <2> QED
    BY <1>1, <2>1
<1>3. /\ Len(head) \in Nat /\ Len(head) = (IF 3 <= l THEN 3 ELSE l)
      /\ DOMAIN head = 1..Len(head) /\ \A k \in DOMAIN head : k \in DOMAIN posted
  <2> DEFINE n == 3
  <2>1. n \in Nat /\ IsList(posted) /\ head = First(posted, n)
    OBVIOUS
  <2> HIDE DEF head, n, l
  <2>2. /\ Len(head) \in Nat /\ Len(head) = (IF n <= Len(posted) THEN n ELSE Len(posted))
        /\ DOMAIN head = 1..Len(head) /\ \A k \in DOMAIN head : k \in DOMAIN posted
    BY ONLY <2>1, HeadIs
  <2> QED
    BY <2>2 DEF l, n
<1> HIDE DEF head, l
<1>4. Len(head) \in 1..3
  BY <1>1, <1>2, <1>3
<1>5. ads = [i \in 1..Len(head) |-> Clean(posted[i])]
  BY <1>3 DEF head
<1>6. DOMAIN ads = 1..Len(head) /\ \A n \in DOMAIN ads : FitAd(ads[n])
  BY <1>3, <1>5, CleanFits
<1>7. IsList(ads)
  BY <1>3, <1>5, <1>6 DEF IsList
<1>8. Len(ads) = Len(head)
  BY <1>3, <1>6, <1>7, ListIs
<1> QED
  BY <1>4, <1>6, <1>7, <1>8 DEF GoodAds

\* One ad of a group is added, rewritten or taken out.
LEMMA PostedAds ==
  ASSUME NEW ads, GoodAds(ads), 
         NEW one, Within(one.headlines, "headlines"), Within(one.descriptions, "descriptions"),
         NEW posted, posted \in {Append(ads, one), [ads EXCEPT ![1] = one], Tail(ads)}
  PROVE  /\ IsList(posted)
         /\ \A n \in DOMAIN posted : /\ Within(posted[n].headlines, "headlines")
                                     /\ Within(posted[n].descriptions, "descriptions")
<1> DEFINE S == Range(ads) \cup {one}
<1>1. \A x \in S : Within(x.headlines, "headlines") /\ Within(x.descriptions, "descriptions")
  BY DEF GoodAds, FitAd, Range
<1>2. /\ ads \in Seq(S) /\ Len(ads) \in 1..3 /\ DOMAIN ads = 1..Len(ads) /\ one \in S
      /\ IsList(ads)
  <2>1. \A k \in DOMAIN ads : ads[k] \in S
    BY DEF Range
  <2> HIDE DEF S
  <2>2. one \in S
    BY DEF S
  <2> QED
    BY <2>1, <2>2, ListIs DEF GoodAds
<1> HIDE DEF S
<1>3. ads # <<>>
  BY <1>2, EmptySeq
<1>4. Append(ads, one) \in Seq(S)
  BY <1>2, AppendProperties
<1>5. [ads EXCEPT ![1] = one] \in Seq(S)
  BY <1>2, ExceptSeq
<1>6. Tail(ads) \in Seq(S)
  BY <1>2, <1>3, HeadTailProperties
<1>7. posted \in Seq(S)
  BY <1>4, <1>5, <1>6
<1>8. IsList(posted)
  BY <1>7, SeqIsList
<1>9. \A n \in DOMAIN posted : posted[n] \in S
  BY <1>7, ElementOfSeq, LenProperties
<1> QED
  BY <1>1, <1>8, <1>9


-----------------------------------------------------------------------------
(* The row.                                                                *)

\* What is typed is about the three kinds and fits.
GoodTyped(typed) == typed # Untyped => DOMAIN typed \subseteq Kind /\ Fits(typed)

\* A row as every request leaves it.
GoodRow(row) ==
  /\ IsPlan(row) /\ FromPlan(row.keywords) /\ IsMade(row.made) /\ GoodTyped(row.typed)
  /\ GoodGroups(row.page.groups, row.page.byHand)

\* The inductive invariant: the row that is stored and those that were read are such rows.
RunsInv ==
  /\ CopyInv
  /\ ad # NoAd => GoodRow(ad)
  /\ \A m \in Writers : writing[m] # NoAd => GoodRow(writing[m])

\* It says what CopyRuns does.
LEMMA GoodRuns == RunsInv => CopyRuns
<1> SUFFICES ASSUME RunsInv, ad # NoAd
             PROVE  /\ Fits(ad.made) /\ (ad.typed # Untyped => Fits(ad.typed))
                    /\ Enough(ad.made) /\ Strength(ad.made) # "POOR"
                    /\ \A n \in DOMAIN ad.page.groups :
                         LET group == ad.page.groups[n]
                         IN  /\ Len(group.ads) \in 1..3
                             /\ \A i \in DOMAIN group.ads :
                                  /\ Fits(group.ads[i])
                                  /\ Len(group.ads[i].headlines) <= MaxHeadlines
                                  /\ Len(group.ads[i].descriptions) <= MaxDescriptions
                             /\ ~ad.page.byHand => Enough(group.ads[1])
  BY DEF CopyRuns
<1>1. /\ IsMade(ad.made) /\ GoodTyped(ad.typed)
      /\ GoodGroups(ad.page.groups, ad.page.byHand)
  BY DEF RunsInv, GoodRow
<1>2. Fits(ad.made) /\ Enough(ad.made) /\ Strength(ad.made) # "POOR"
  BY <1>1, MadeRuns
<1>3. ad.typed # Untyped => Fits(ad.typed)
  BY <1>1 DEF GoodTyped
<1>4. ASSUME NEW n \in DOMAIN ad.page.groups
      PROVE  /\ Len(ad.page.groups[n].ads) \in 1..3
             /\ \A i \in DOMAIN ad.page.groups[n].ads :
                  /\ Fits(ad.page.groups[n].ads[i])
                  /\ Len(ad.page.groups[n].ads[i].headlines) <= MaxHeadlines
                  /\ Len(ad.page.groups[n].ads[i].descriptions) <= MaxDescriptions
             /\ ~ad.page.byHand => Enough(ad.page.groups[n].ads[1])
  <2> DEFINE ads == ad.page.groups[n].ads
  <2>1. /\ GoodAds(ads)
        /\ ~ad.page.byHand => Rich(ads[1].headlines, 3) /\ Rich(ads[1].descriptions, 2)
    BY <1>1 DEF GoodGroups
  <2> HIDE DEF ads
  <2>2. IsList(ads) /\ Len(ads) \in 1..3 /\ \A i \in DOMAIN ads : FitAd(ads[i])
    BY <2>1 DEF GoodAds
  <2>3. \A a : FitAd(a) => /\ Fits(a) /\ Len(a.headlines) <= MaxHeadlines
                           /\ Len(a.descriptions) <= MaxDescriptions
    BY DEF FitAd, Fits, Within
  <2>4. FitAd(ads[1])
    <3>1. 1 \in DOMAIN ads
      BY <2>2, ListIs
    <3> QED
      BY <2>2, <3>1
  <2>5. IsList(ads[1].headlines) /\ IsList(ads[1].descriptions)
    BY <2>4 DEF FitAd, Within
  <2>6. ASSUME ~ad.page.byHand PROVE Enough(ads[1])
    <3> DEFINE h == ads[1].headlines
               d == ads[1].descriptions
    <3>1. IsList(h) /\ IsList(d) /\ Rich(h, 3) /\ Rich(d, 2)
      BY <2>1, <2>5, <2>6
    <3> HIDE DEF h, d
    <3>2. Cardinality(Range(h)) >= 3 /\ Cardinality(Range(d)) >= 2
      BY <3>1, RichCounts
    <3> QED
      BY <3>2 DEF Enough, h, d
  <2>7. Len(ads) \in 1..3 /\ \A i \in DOMAIN ads : /\ Fits(ads[i])
                           /\ Len(ads[i].headlines) <= MaxHeadlines
                           /\ Len(ads[i].descriptions) <= MaxDescriptions
    BY <2>2, <2>3
  <2> QED
    BY <2>6, <2>7 DEF ads
<1> QED
  BY <1>2, <1>3, <1>4

\* The keywords of a list are those of the plan.
LEMMA ListFromPlan == \A keywords \in KeywordLists : FromPlan(keywords)
<1> SUFFICES ASSUME NEW keywords \in KeywordLists PROVE FromPlan(keywords)
  OBVIOUS
<1>1. keywords \in Seq(Terms)
  BY CopyAssumption
<1>2. IsList(keywords)
  BY <1>1, SeqIsList
<1>3. \A n \in DOMAIN keywords : keywords[n] \in Terms
  BY <1>1
<1> QED
  BY <1>2, <1>3 DEF FromPlan

\* New copy in a good row.
LEMMA CopyGood ==
  ASSUME NEW row, GoodRow(row), NEW assets \in GeneratedAssets(row.keywords)
  PROVE  GoodRow(WithCopy(row, assets))
<1> DEFINE made == [assets EXCEPT !.callouts = IF @ # <<>> THEN @ ELSE row.made.callouts]
           new == WithCopy(row, assets)
<1>1. /\ IsPlan(row) /\ FromPlan(row.keywords) /\ IsMade(row.made) /\ GoodTyped(row.typed)
      /\ GoodGroups(row.page.groups, row.page.byHand)
  BY DEF GoodRow
<1>2. AllFit(row.made.callouts, "callouts")
  BY <1>1 DEF IsMade
<1>3. IsMade(made)
  BY <1>1, <1>2, GeneratedIs
<1>4. new = [row EXCEPT !.made = made, !.page.assets = made]
  BY DEF WithCopy
<1> HIDE DEF made, new
<1>5. /\ IsPlan(new) /\ new.keywords = row.keywords /\ new.made = made /\ new.typed = row.typed
      /\ new.page.groups = row.page.groups /\ new.page.byHand = row.page.byHand
  BY <1>1, <1>4 DEF IsPlan, Columns
<1>6. GoodRow(new)
  BY <1>1, <1>3, <1>5 DEF GoodRow
<1> QED
  BY <1>6 DEF new

\* New ads in a good row.
LEMMA GroupsGood ==
  ASSUME NEW row, GoodRow(row)
  PROVE  GoodRow(WithAdGroups(row))
<1> DEFINE groups == AdGroups(row.keywords, row.made)
           new == WithAdGroups(row)
<1>1. /\ IsPlan(row) /\ FromPlan(row.keywords) /\ IsMade(row.made) /\ GoodTyped(row.typed)
  BY DEF GoodRow
<1>2. \A byHand : GoodGroups(groups, byHand)
  BY <1>1, AdGroupsAre
<1>3. new = row \/ new = [row EXCEPT !.page.groups = groups]
  BY DEF WithAdGroups
<1> HIDE DEF groups, new
<1>4. CASE new = [row EXCEPT !.page.groups = groups]
  <2>1. /\ IsPlan(new) /\ new.keywords = row.keywords /\ new.made = row.made
        /\ new.typed = row.typed /\ new.page.groups = groups
        /\ new.page.byHand = row.page.byHand
    BY <1>1, <1>4 DEF IsPlan, Columns
  <2> QED
    BY <1>1, <1>2, <2>1 DEF GoodRow, new
<1> QED
  BY <1>3, <1>4 DEF new

\* Each column that is stored is one that was or one of the request.
LEMMA WrittenGood ==
  ASSUME RunsInv, NEW m \in Writers, writing[m] # NoAd, NEW what, NEW kinds, NEW new, GoodRow(new),
         Done(m, what, kinds, new)
  PROVE  RunsInv'
<1>1. CopyInv /\ IsPlan(new)
  BY DEF RunsInv, GoodRow
<1>2. IsPlan(ad') /\ CopyInv'
  BY <1>1, WrittenColumns
<1>3. ad # NoAd /\ IsPlan(ad)
  BY <1>1 DEF CopyInv
<1>4. GoodRow(ad)
  BY <1>3 DEF RunsInv
<1>5. \A c \in Columns : ad'[c] = ad[c] \/ ad'[c] = new[c]
  <2>1. ad' = [c \in DOMAIN ad |-> IF new[c] = writing[m][c] THEN ad[c] ELSE new[c]]
    BY DEF Done, Written
  <2>2. DOMAIN ad = Columns
    BY <1>3 DEF IsPlan
  <2> QED
    BY <2>1, <2>2
<1>6. /\ ad'.keywords = ad.keywords \/ ad'.keywords = new.keywords
      /\ ad'.made = ad.made \/ ad'.made = new.made
      /\ ad'.typed = ad.typed \/ ad'.typed = new.typed
      /\ ad'.page = ad.page \/ ad'.page = new.page
  BY <1>5 DEF Columns
<1>7. GoodRow(ad')
  BY <1>2, <1>4, <1>6 DEF GoodRow
<1>8. writing' = [writing EXCEPT ![m] = NoAd]
  BY DEF Done
<1>9. \A w \in Writers : writing'[w] # NoAd => GoodRow(writing'[w])
  BY <1>1, <1>8 DEF RunsInv, CopyInv
<1> QED
  BY <1>2, <1>7, <1>9 DEF RunsInv

\* The first copy of a plan.
LEMMA FirstCopyGood == RunsInv /\ MakeCopy => RunsInv'
<1> SUFFICES ASSUME RunsInv, MakeCopy PROVE RunsInv'
  OBVIOUS
<1>1. PICK keywords \in KeywordLists :
        \E assets \in GeneratedAssets(keywords) :
          LET made == [assets EXCEPT !.callouts = IF @ # <<>> THEN @ ELSE StandardCallouts]
          IN  ad' = [keywords |-> keywords, made |-> made, typed |-> Untyped,
                     page |-> [assets |-> made, groups |-> AdGroups(keywords, made),
                               byHand |-> FALSE]]
  BY DEF MakeCopy
<1>2. PICK assets \in GeneratedAssets(keywords) :
          LET made == [assets EXCEPT !.callouts = IF @ # <<>> THEN @ ELSE StandardCallouts]
          IN  ad' = [keywords |-> keywords, made |-> made, typed |-> Untyped,
                     page |-> [assets |-> made, groups |-> AdGroups(keywords, made),
                               byHand |-> FALSE]]
  BY <1>1
<1> DEFINE made == [assets EXCEPT !.callouts = IF @ # <<>> THEN @ ELSE StandardCallouts]
           groups == AdGroups(keywords, made)
<1>3. FromPlan(keywords)
  BY ListFromPlan
<1>4. AllFit(StandardCallouts, "callouts")
  <2>1. StandardCallouts \in Seq({l \in DOMAIN SizeOf : Fit(l, "callouts")})
    BY CopyAssumption
  <2>2. IsList(StandardCallouts)
    BY <2>1, SeqIsList
  <2>3. \A n \in DOMAIN StandardCallouts :
          StandardCallouts[n] \in {l \in DOMAIN SizeOf : Fit(l, "callouts")}
    BY <2>1
  <2> QED
    BY <2>2, <2>3 DEF AllFit
<1>5. IsMade(made)
  BY <1>3, <1>4, GeneratedIs
<1>6. ad' = [keywords |-> keywords, made |-> made, typed |-> Untyped,
             page |-> [assets |-> made, groups |-> groups, byHand |-> FALSE]]
  BY <1>2
<1> HIDE DEF made
<1>7. GoodGroups(groups, FALSE)
  BY <1>3, <1>5, AdGroupsAre
<1> HIDE DEF groups
<1>8. GoodRow(ad')
  <2>1. IsPlan(ad')
    BY <1>6 DEF IsPlan, Columns
  <2> QED
    BY <1>3, <1>5, <1>6, <1>7, <2>1 DEF GoodRow, GoodTyped
<1>9. CopyInv' /\ writing' = writing
  <2>1. CopyInv
    BY DEF RunsInv
  <2>2. CopyInv'
    BY <2>1, OtherSteps
  <2> QED
    BY <2>2 DEF MakeCopy
<1> QED
  BY <1>8, <1>9 DEF RunsInv


\* The row that a request has read.
LEMMA ReadGood ==
  ASSUME RunsInv, NEW m \in Writers, Mid(m)
  PROVE  writing[m] # NoAd /\ GoodRow(writing[m])
BY DEF RunsInv, Mid

\* An edit of the keywords.
LEMMA KeywordsGood ==
  ASSUME RunsInv, NEW m \in Writers, SaveKeywords(m)
  PROVE  RunsInv'
<1> DEFINE old == writing[m]
<1>1. old # NoAd /\ GoodRow(old)
  BY ReadGood DEF SaveKeywords
<1>2. PICK keywords \in KeywordLists :
        LET changed == [old EXCEPT !.keywords = keywords]
        IN  \E new \in {changed} \cup IF CopyStands(changed) THEN {}
                         ELSE {WithCopy(changed, a) : a \in GeneratedAssets(keywords)} :
              Done(m, "keywords", {}, WithAdGroups(new))
  BY DEF SaveKeywords
<1> DEFINE changed == [old EXCEPT !.keywords = keywords]
<1>3. PICK new \in {changed} \cup IF CopyStands(changed) THEN {}
                      ELSE {WithCopy(changed, a) : a \in GeneratedAssets(keywords)} :
        Done(m, "keywords", {}, WithAdGroups(new))
  BY <1>2
<1> HIDE DEF old
<1>4. GoodRow(changed) /\ changed.keywords = keywords
  <2>1. FromPlan(keywords)
    BY ListFromPlan
  <2>2. /\ IsPlan(changed) /\ changed.keywords = keywords /\ changed.made = old.made
        /\ changed.typed = old.typed /\ changed.page = old.page
    BY <1>1 DEF GoodRow, IsPlan, Columns
  <2> HIDE DEF changed
  <2> QED
    BY <1>1, <2>1, <2>2 DEF GoodRow
<1> HIDE DEF changed
<1>5. new = changed \/ \E a \in GeneratedAssets(keywords) : new = WithCopy(changed, a)
  BY <1>3
<1>6. GoodRow(new)
  BY <1>4, <1>5, CopyGood
<1>7. GoodRow(WithAdGroups(new))
  BY <1>6, GroupsGood
<1> QED
  BY <1>1, <1>3, <1>7, WrittenGood DEF old

\* What is typed over what was typed.
LEMMA TypedGood ==
  ASSUME NEW old, old = <<>> \/ (DOMAIN old \subseteq Kind /\ Fits(old)),
         NEW kinds \in SUBSET Kind, NEW lists,
         \A k \in kinds : lists[k] \in Typed[k] /\ ~Long(lists[k], k),
         NEW typed, typed = Updated(old, [k \in kinds |-> Distinct(Lines(lists[k]))])
  PROVE  GoodTyped(typed)
<1> DEFINE new == [k \in kinds |-> Distinct(Lines(lists[k]))]
<1>1. typed = [x \in DOMAIN new \cup DOMAIN old |-> IF x \in DOMAIN new THEN new[x] ELSE old[x]]
  BY DEF Updated
<1>2. DOMAIN new = kinds
  OBVIOUS
<1>3. ASSUME NEW k \in kinds PROVE ~Long(new[k], k)
  <2> DEFINE list == lists[k]
             lines == Lines(list)
  <2>1. Within(list, k)
    <3>1. list \in Seq(DOMAIN SizeOf)
      BY CopyAssumption
    <3> QED
      BY <3>1, SeqIsList DEF Within
  <2> HIDE DEF list
  <2>2. Within(lines, k)
    BY <2>1, LinesWithin
  <2> HIDE DEF lines
  <2>3. /\ IsList(Distinct(lines))
        /\ \A i \in DOMAIN Distinct(lines) : \E n \in DOMAIN lines : Distinct(lines)[i] = lines[n]
    BY <2>2, DistinctIs DEF Within
  <2>4. ~Long(Distinct(lines), k)
    BY <2>2, <2>3, PartWithin DEF Within
  <2> QED
    BY <2>4 DEF lines, list
<1>4. DOMAIN old \subseteq Kind /\ \A k \in DOMAIN old : ~Long(old[k], k)
  <2>1. CASE old = <<>>
    BY <2>1, EmptyList
  <2>2. CASE DOMAIN old \subseteq Kind /\ Fits(old)
    BY <2>2 DEF Fits
  <2> QED
    BY <2>1, <2>2
<1> HIDE DEF new
<1>5. DOMAIN typed \subseteq Kind /\ \A k \in DOMAIN typed : ~Long(typed[k], k)
  BY <1>1, <1>2, <1>3, <1>4
<1> QED
  BY <1>5 DEF GoodTyped, Fits

\* An edit of the copy.
LEMMA AssetsGood ==
  ASSUME RunsInv, NEW m \in Writers, SaveAssets(m)
  PROVE  RunsInv'
<1> DEFINE row == writing[m]
<1>1. row # NoAd /\ GoodRow(row)
  BY ReadGood DEF SaveAssets
<1>2. PICK kinds \in SUBSET Kind :
        \E lists \in {f \in [kinds -> UNION {Typed[k] : k \in Kind}] :
                        \A k \in kinds : f[k] \in Typed[k] /\ ~Long(f[k], k)} :
          Done(m, "assets", kinds, Retyped(row, lists))
  BY DEF SaveAssets
<1>3. PICK lists \in {f \in [kinds -> UNION {Typed[k] : k \in Kind}] :
                        \A k \in kinds : f[k] \in Typed[k] /\ ~Long(f[k], k)} :
          Done(m, "assets", kinds, Retyped(row, lists))
  BY <1>2
<1> DEFINE old == IF row.typed = Untyped THEN <<>> ELSE row.typed
           typed == Updated(old, [k \in kinds |-> Distinct(Lines(lists[k]))])
           new == [row EXCEPT !.typed = typed]
<1>4. old = <<>> \/ (DOMAIN old \subseteq Kind /\ Fits(old))
  BY <1>1 DEF GoodRow, GoodTyped
<1>5. \A k \in kinds : lists[k] \in Typed[k] /\ ~Long(lists[k], k)
  BY <1>3
<1>9. Retyped(row, lists) = new
  BY <1>3 DEF Retyped
<1> HIDE DEF old
<1>6. GoodTyped(typed)
  BY <1>4, <1>5, TypedGood
<1> HIDE DEF typed, row
<1>7. GoodRow(new)
  <2>1. /\ IsPlan(new) /\ new.keywords = row.keywords /\ new.made = row.made
        /\ new.typed = typed /\ new.page = row.page
    BY <1>1 DEF GoodRow, IsPlan, Columns
  <2> HIDE DEF new
  <2> QED
    BY <1>1, <1>6, <2>1 DEF GoodRow
<1>8. Done(m, "assets", kinds, new)
  BY <1>3, <1>9
<1> HIDE DEF new
<1> QED
  BY <1>1, <1>7, <1>8, WrittenGood DEF row

\* The ads of one group are others.
LEMMA AdsGood ==
  ASSUME NEW row, GoodRow(row), NEW n \in DOMAIN row.page.groups, NEW ads, GoodAds(ads)
  PROVE  GoodRow([row EXCEPT !.page.groups[n].ads = ads, !.page.byHand = TRUE])
<1> DEFINE new == [row EXCEPT !.page.groups[n].ads = ads, !.page.byHand = TRUE]
           old == row.page.groups
           groups == [old EXCEPT ![n].ads = ads]
<1>1. /\ IsPlan(row) /\ FromPlan(row.keywords) /\ IsMade(row.made) /\ GoodTyped(row.typed)
      /\ GoodGroups(old, row.page.byHand)
  BY DEF GoodRow
<1>2. /\ IsPlan(new) /\ new.keywords = row.keywords /\ new.made = row.made
      /\ new.typed = row.typed /\ new.page.groups = groups /\ new.page.byHand = TRUE
  BY <1>1 DEF IsPlan, Columns
<1> HIDE DEF new, old
<1>3. \A k \in DOMAIN old : DOMAIN old[k] = {"intent", "words", "ads"} /\ GoodAds(old[k].ads)
  BY <1>1 DEF GoodGroups
<1>4. /\ DOMAIN groups = DOMAIN old
      /\ \A k \in DOMAIN old : groups[k] = IF k = n THEN [old[k] EXCEPT !.ads = ads] ELSE old[k]
  OBVIOUS
<1> HIDE DEF groups
<1>5. \A k \in DOMAIN groups : DOMAIN groups[k] = {"intent", "words", "ads"} /\ GoodAds(groups[k].ads)
  BY <1>3, <1>4
<1>6. GoodGroups(groups, TRUE)
  BY <1>5 DEF GoodGroups
<1>7. GoodRow(new)
  BY <1>1, <1>2, <1>6 DEF GoodRow
<1> QED
  BY <1>7 DEF new

\* An edit of the ads.
LEMMA PostedGood ==
  ASSUME RunsInv, NEW m \in Writers, SaveAdGroups(m)
  PROVE  RunsInv'
<1> DEFINE row == writing[m]
<1>1. row # NoAd /\ GoodRow(row)
  BY ReadGood DEF SaveAdGroups
<1>2. PICK n \in DOMAIN row.page.groups, heads \in Typed["headlines"],
           descs \in Typed["descriptions"] :
         LET ad1  == [headlines |-> heads, descriptions |-> descs]
             ads  == row.page.groups[n].ads
             kept(posted) == IF posted = <<>>
                             THEN <<Clean([ad1 EXCEPT !.headlines = <<>>, !.descriptions = <<>>])>>
                             ELSE [i \in DOMAIN First(posted, 3) |-> Clean(posted[i])]
         IN  /\ ~Long(heads, "headlines") /\ ~Long(descs, "descriptions")
             /\ \E posted \in {Append(ads, ad1), [ads EXCEPT ![1] = ad1], Tail(ads)} :
                  Done(m, "groups", {}, [row EXCEPT !.page.groups[n].ads = kept(posted),
                                                !.page.byHand = TRUE])
  BY DEF SaveAdGroups
<1> DEFINE ad1  == [headlines |-> heads, descriptions |-> descs]
           ads  == row.page.groups[n].ads
           bare == [ad1 EXCEPT !.headlines = <<>>, !.descriptions = <<>>]
           kept(posted) == IF posted = <<>> THEN <<Clean(bare)>>
                           ELSE [i \in DOMAIN First(posted, 3) |-> Clean(posted[i])]
<1>3. PICK posted \in {Append(ads, ad1), [ads EXCEPT ![1] = ad1], Tail(ads)} :
        Done(m, "groups", {}, [row EXCEPT !.page.groups[n].ads = kept(posted),
                                      !.page.byHand = TRUE])
  BY <1>2
<1>4. Within(ad1.headlines, "headlines") /\ Within(ad1.descriptions, "descriptions")
  <2>1. heads \in Seq(DOMAIN SizeOf) /\ descs \in Seq(DOMAIN SizeOf)
    <3>1. "headlines" \in Kind /\ "descriptions" \in Kind
      BY KindsAre
    <3> QED
      BY <3>1, CopyAssumption
  <2> QED
    BY <1>2, <2>1, SeqIsList DEF Within
<1>5. GoodAds(ads)
  BY <1>1 DEF GoodRow, GoodGroups
<1>6. Within(bare.headlines, "headlines") /\ Within(bare.descriptions, "descriptions")
  <2>1. bare.headlines = <<>> /\ bare.descriptions = <<>>
    OBVIOUS
  <2> QED
    BY <2>1, EmptyList DEF Within, Long
<1> HIDE DEF row, ads, ad1, bare
<1>7. /\ IsList(posted)
      /\ \A k \in DOMAIN posted : /\ Within(posted[k].headlines, "headlines")
                                  /\ Within(posted[k].descriptions, "descriptions")
  <2>1. posted \in {Append(ads, ad1), [ads EXCEPT ![1] = ad1], Tail(ads)}
    OBVIOUS
  <2> QED
    BY ONLY <1>4, <1>5, <2>1, PostedAds
<1>8. GoodAds(kept(posted))
  <2>1. CASE posted = <<>>
    <3> DEFINE one == Clean(bare)
               s == <<one>>
    <3>1. FitAd(one)
      BY <1>6, CleanFits
    <3> HIDE DEF one
    <3>2. s \in Seq({one}) /\ Len(s) = 1 /\ s[1] = one
      OBVIOUS
    <3>3. kept(posted) = s
      BY <2>1 DEF one
    <3> HIDE DEF s
    <3>4. IsList(s)
      BY <3>2, SeqIsList
    <3>5. DOMAIN s = 1..1
      BY <3>2, <3>4, ListIs
    <3>6. GoodAds(s)
      BY <3>1, <3>2, <3>4, <3>5 DEF GoodAds
    <3> QED
      BY <3>3, <3>6
  <2>2. CASE posted # <<>>
    <3>1. kept(posted) = [i \in DOMAIN First(posted, 3) |-> Clean(posted[i])]
      BY <2>2
    <3> HIDE DEF kept
    <3> QED
      BY <1>7, <2>2, <3>1, CleanAds
  <2> QED
    BY <2>1, <2>2
<1> DEFINE new == [row EXCEPT !.page.groups[n].ads = kept(posted), !.page.byHand = TRUE]
<1>9. Done(m, "groups", {}, new)
  BY <1>3
<1>10. n \in DOMAIN row.page.groups
  BY <1>2 DEF row
<1> HIDE DEF kept
<1>11. GoodRow(new)
  BY <1>1, <1>8, <1>10, AdsGood
<1> HIDE DEF new
<1> QED
  BY <1>1, <1>9, <1>11, WrittenGood DEF row

\* New copy on demand.
LEMMA RegenerateGood ==
  ASSUME RunsInv, NEW m \in Writers, Regenerate(m)
  PROVE  RunsInv'
<1> DEFINE row == writing[m]
           bare == [row EXCEPT !.typed = Untyped]
<1>1. row # NoAd /\ GoodRow(row)
  BY ReadGood DEF Regenerate
<1>2. PICK assets \in GeneratedAssets(row.keywords) :
        Done(m, "regenerate", Kind, WithCopy(bare, assets))
  BY DEF Regenerate
<1> HIDE DEF row
<1>3. /\ IsPlan(bare) /\ bare.keywords = row.keywords /\ bare.made = row.made
      /\ bare.typed = Untyped /\ bare.page = row.page
  BY <1>1 DEF GoodRow, IsPlan, Columns
<1> HIDE DEF bare
<1>4. GoodRow(bare)
  BY <1>1, <1>3 DEF GoodRow, GoodTyped
<1>5. GoodRow(WithCopy(bare, assets))
  BY <1>2, <1>3, <1>4, CopyGood
<1> QED
  BY <1>1, <1>2, <1>5, WrittenGood DEF row

\* The invariant holds first and is kept.
LEMMA RunsStart == CopyInit => RunsInv
BY DEF CopyInit, RunsInv, CopyInv

\* Every step keeps the invariant.
LEMMA RunsKept == RunsInv /\ [CopyNext]_copyVars => RunsInv'
<1> SUFFICES ASSUME RunsInv, [CopyNext]_copyVars PROVE RunsInv'
  OBVIOUS
<1>1. ASSUME NEW m \in Writers,
             SaveKeywords(m) \/ SaveAssets(m) \/ SaveAdGroups(m) \/ Regenerate(m)
      PROVE  RunsInv'
  BY <1>1, KeywordsGood, AssetsGood, PostedGood, RegenerateGood
<1>2. CopyInv
  BY DEF RunsInv
<1>3. ASSUME NEW m \in Writers, ReadPlan(m) PROVE RunsInv'
  <2>1. CopyInv'
    BY <1>2, <1>3, OtherSteps
  <2>2. ad # NoAd /\ ad' = ad /\ writing' = [writing EXCEPT ![m] = ad]
    BY <1>3 DEF ReadPlan
  <2> QED
    BY <1>2, <2>1, <2>2 DEF RunsInv, CopyInv
<1>4. ASSUME NEW m \in Writers, Refuse(m) PROVE RunsInv'
  <2>1. CopyInv'
    BY <1>2, <1>4, OtherSteps
  <2>2. ad' = ad /\ writing' = [writing EXCEPT ![m] = NoAd]
    BY <1>4 DEF Refuse
  <2> QED
    BY <1>2, <2>1, <2>2 DEF RunsInv, CopyInv
<1>5. CASE UNCHANGED copyVars
  <2>1. CopyInv'
    BY <1>2, <1>5, OtherSteps
  <2> QED
    BY <1>5, <2>1 DEF RunsInv, copyVars
<1> QED
  BY <1>1, <1>3, <1>4, <1>5, CopyCases, FirstCopyGood

\* The copy runs (CopyRuns), for any writers, keywords, themes and answers of the model, if
\* five of the fixed headlines and two descriptions fit, which they do for names of campuses
\* as short as those of the curated list: the templates fill up what the model leaves, the
\* limits are checked before anything typed is stored, and a stale request writes whole
\* columns that are each sound by themselves.
THEOREM AdsRun == CopySpec => []CopyRuns
BY RunsStart, RunsKept, GoodRuns, PTL DEF CopySpec

-----------------------------------------------------------------------------
(* Rounding and shares.                                                    *)

\* Quotient and remainder.
LEMMA Division ==
  ASSUME NEW n \in Int, NEW d \in Nat \ {0}
  PROVE  /\ n \div d \in Int /\ n % d \in Nat /\ n % d < d
         /\ n = d * (n \div d) + (n % d)
OBVIOUS

\* Rounding is off by a half at most.
LEMMA RoundedClose ==
  ASSUME NEW n \in Int, NEW d \in Nat \ {0}
  PROVE  /\ Rounded(n, d) \in Int
         /\ 2 * (d * Rounded(n, d)) - 2 * n <= d /\ 2 * n - 2 * (d * Rounded(n, d)) <= d
         /\ n >= 0 => Rounded(n, d) >= 0
<1> DEFINE q == n \div d
           m == n % d
           R == Rounded(n, d)
<1>1. q \in Int /\ m \in Nat /\ m < d /\ n = d * q + m
  BY Division
<1>2. R = IF 2 * m > d \/ (2 * m = d /\ q % 2 = 1) THEN q + 1 ELSE q
  BY DEF Rounded
<1>3. n >= 0 => q >= 0
  <2> SUFFICES ASSUME n >= 0, q < 0 PROVE FALSE
    BY <1>1
  <2>1. d * q <= d * (-1)
    BY <1>1
  <2> QED
    BY <1>1, <2>1
<1>4. CASE R = q + 1 /\ 2 * m >= d
  <2>1. d * R = d * q + d
    BY <1>1, <1>4
  <2>2. d * q \in Int
    BY <1>1
  <2> HIDE DEF q, m, R
  <2> QED
    BY <1>1, <1>3, <1>4, <2>1, <2>2 DEF R
<1>5. CASE R = q /\ 2 * m <= d
  <2>1. d * q \in Int
    BY <1>1
  <2> HIDE DEF q, m, R
  <2> QED
    BY <1>1, <1>3, <1>5, <2>1 DEF R
<1> HIDE DEF q, m, R
<1> QED
  BY <1>1, <1>2, <1>4, <1>5

\* b shared in proportion to the weights, each share rounded, what that leaves at the peak.
Shares(D, b, w, q, peak) ==
  LET raw == [x \in D |-> Rounded(b * w[x], SumFunctionOnSet(w, D))]
  IN  \A x \in D : q[x] = IF x = peak THEN raw[x] + b - SumFunctionOnSet(raw, D) ELSE raw[x]

\* Such shares are integers, never negative but for the largest, add up to b, and are
\* within half a unit for each share of their exact values.
Close(D, b, w, q, peak, A, n) ==
  /\ A \in Nat \ {0} /\ n \in Nat /\ n * w[peak] >= A
  /\ \A x \in D : q[x] \in Int
  /\ SumFunctionOnSet(q, D) = b
  /\ \A x \in D : x # peak => q[x] >= 0
  /\ \A x \in D : /\ 2 * (q[x] * A) - 2 * (b * w[x]) <= n * A
                  /\ 2 * (b * w[x]) - 2 * (q[x] * A) <= n * A
  /\ 2 * (b * w[peak]) > A * (n - 3) => q[peak] >= 0

\* Shared so, each part is off by half a unit for each of the n parts at most, and all of
\* them add up to b; only what is left at the peak can be below zero, if b is very small.
LEMMA SharesClose ==
  ASSUME NEW D, IsFiniteSet(D), NEW b \in Nat, NEW w, \A x \in D : w[x] \in Nat,
         NEW peak \in D, w[peak] > 0, \A x \in D : w[x] <= w[peak],
         NEW q, Shares(D, b, w, q, peak),
         NEW A, A = SumFunctionOnSet(w, D), NEW n, n = Cardinality(D)
  PROVE  Close(D, b, w, q, peak, A, n)
<1> DEFINE raw == [x \in D |-> Rounded(b * w[x], A)]
           R == D \ {peak}
           e == [x \in D |-> (2 * A) * raw[x] + (-2 * b) * w[x]]
<1>1. A \in Nat \ {0} /\ Summable(w, D)
  BY SumNat DEF Summable
<1>2. \A x \in D : /\ b * w[x] \in Nat /\ raw[x] \in Int /\ raw[x] >= 0
                   /\ 2 * (A * raw[x]) - 2 * (b * w[x]) <= A
                   /\ 2 * (b * w[x]) - 2 * (A * raw[x]) <= A
  <2> SUFFICES ASSUME NEW x \in D
               PROVE  /\ b * w[x] \in Nat /\ raw[x] \in Int /\ raw[x] >= 0
                      /\ 2 * (A * raw[x]) - 2 * (b * w[x]) <= A
                      /\ 2 * (b * w[x]) - 2 * (A * raw[x]) <= A
    OBVIOUS
  <2>1. b * w[x] \in Nat
    OBVIOUS
  <2>2. raw[x] = Rounded(b * w[x], A)
    OBVIOUS
  <2> DEFINE m == b * w[x]
  <2>3. m \in Int /\ m >= 0
    BY <2>1
  <2> HIDE DEF m
  <2>4. /\ Rounded(m, A) \in Int /\ Rounded(m, A) >= 0
        /\ 2 * (A * Rounded(m, A)) - 2 * m <= A /\ 2 * m - 2 * (A * Rounded(m, A)) <= A
    BY <1>1, <2>3, RoundedClose
  <2> QED
    BY <2>1, <2>2, <2>4 DEF m
<1>3. raw = [x \in D |-> Rounded(b * w[x], SumFunctionOnSet(w, D))]
  OBVIOUS
<1> HIDE DEF raw
<1>4. \A x \in D : q[x] = IF x = peak THEN raw[x] + b - SumFunctionOnSet(raw, D) ELSE raw[x]
  BY <1>3 DEF Shares
<1>5. Summable(raw, D) /\ SumFunctionOnSet(raw, D) \in Int
  BY <1>2, SumInt DEF Summable
<1>6. \A x \in D : q[x] \in Int
  BY <1>2, <1>4, <1>5
<1>7. n \in Nat /\ IsFiniteSet(R) /\ Cardinality(R) = n - 1 /\ n >= 1
  <2>1. n \in Nat /\ IsFiniteSet(R) /\ Cardinality(R) = n - 1 /\ Cardinality(R) \in Nat
    BY FS_RemoveElement, FS_CardinalityType
  <2> QED
    BY <2>1
<1>8. Summable(raw, R) /\ Summable(w, R) /\ Summable(q, D) /\ Summable(q, R)
  BY <1>1, <1>2, <1>6, <1>7 DEF Summable
<1>9. SumFunctionOnSet(raw, R) \in Int /\ SumFunctionOnSet(w, R) \in Int
  BY <1>8, SumInt
<1>10. SumFunctionOnSet(q, R) = SumFunctionOnSet(raw, R)
  <2>1. \A x \in R : q[x] = raw[x]
    BY <1>4
  <2> QED
    BY <1>8, <2>1, SumEqual
<1>11. /\ SumFunctionOnSet(q, D) = q[peak] + SumFunctionOnSet(q, R)
       /\ SumFunctionOnSet(raw, D) = raw[peak] + SumFunctionOnSet(raw, R)
       /\ A = w[peak] + SumFunctionOnSet(w, R)
  BY <1>1, <1>5, <1>8, SumRemove
<1>12. q[peak] = raw[peak] + b - SumFunctionOnSet(raw, D)
  BY <1>4
<1>13. SumFunctionOnSet(q, D) = b /\ SumFunctionOnSet(raw, R) = b - q[peak]
  BY <1>2, <1>5, <1>9, <1>10, <1>11, <1>12
<1>14. SumFunctionOnSet(w, R) = A - w[peak]
  BY <1>1, <1>9, <1>11
<1>15. 2 * A \in Int /\ -2 * b \in Int
  BY <1>1
<1>16. SumFunctionOnSet(e, R) = (2 * A) * (b - q[peak]) + (-2 * b) * (A - w[peak])
  <2>1. \A x \in R : e[x] = (2 * A) * raw[x] + (-2 * b) * w[x]
    OBVIOUS
  <2> HIDE DEF e
  <2> DEFINE c == 2 * A
             d == -2 * b
  <2> HIDE DEF c, d, R
  <2>2. SumFunctionOnSet(e, R) = c * SumFunctionOnSet(raw, R) + d * SumFunctionOnSet(w, R)
    <3>1. c \in Int /\ d \in Int /\ \A x \in R : e[x] = c * raw[x] + d * w[x]
      BY <1>15, <2>1 DEF c, d
    <3>2. Summable(raw, R) /\ Summable(w, R)
      BY <1>8
    <3> HIDE DEF e
    <3>3. \A x \in R : e[x] = c * raw[x] + d * w[x]
      BY <3>1
    <3>4. c \in Int /\ d \in Int
      BY <3>1
    <3> QED
      BY <3>2, <3>3, <3>4, SumCombined
  <2> QED
    BY <1>13, <1>14, <2>2 DEF c, d
<1>17. \A x \in R : e[x] \in Int /\ -A <= e[x] /\ e[x] <= A
  <2> SUFFICES ASSUME NEW x \in R PROVE e[x] \in Int /\ -A <= e[x] /\ e[x] <= A
    OBVIOUS
  <2>1. e[x] = 2 * (A * raw[x]) - 2 * (b * w[x])
    <3>1. e[x] = (2 * A) * raw[x] + (-2 * b) * w[x]
      OBVIOUS
    <3>2. raw[x] \in Int /\ w[x] \in Int
      BY <1>2
    <3>3. (2 * A) * raw[x] = 2 * (A * raw[x]) /\ (-2 * b) * w[x] = -(2 * (b * w[x]))
      BY <1>1, <3>2
    <3>4. A * raw[x] \in Int /\ b * w[x] \in Int
      BY <1>1, <3>2
    <3> QED
      BY <3>1, <3>3, <3>4
  <2>2. A * raw[x] \in Int /\ b * w[x] \in Int
    BY <1>1, <1>2
  <2> QED
    BY <1>1, <1>2, <2>1, <2>2
<1>18. /\ -(A * (n - 1)) <= SumFunctionOnSet(e, R)
       /\ SumFunctionOnSet(e, R) <= A * (n - 1)
  <2>1. Summable(e, R)
    BY <1>7, <1>17 DEF Summable
  <2> HIDE DEF e
  <2> QED
    BY <1>1, <1>7, <1>17, <2>1, SumWithin
<1> DEFINE P == q[peak] * A
           W == b * w[peak]
           N == n * A
<1>19. P \in Int /\ W \in Nat /\ N \in Nat
  BY <1>1, <1>2, <1>6, <1>7
<1>20. (2 * A) * (b - q[peak]) + (-2 * b) * (A - w[peak]) = 2 * W - 2 * P
  BY <1>1, <1>6
<1>21. A * (n - 1) = N - A /\ A * (n - 3) = N - 3 * A
  BY <1>1, <1>7
<1>22. 2 * W - 2 * P <= N - A /\ 2 * P - 2 * W <= N - A
  <2>1. -(N - A) <= 2 * W - 2 * P /\ 2 * W - 2 * P <= N - A
    BY <1>16, <1>18, <1>20, <1>21
  <2> HIDE DEF N, W, P
  <2> QED
    BY <1>1, <1>19, <2>1
<1>23. \A x \in D : x # peak => q[x] >= 0
  BY <1>2, <1>4
<1>24. \A x \in D : /\ 2 * (q[x] * A) - 2 * (b * w[x]) <= N
                    /\ 2 * (b * w[x]) - 2 * (q[x] * A) <= N
  <2> TAKE x \in D
  <2>1. A <= N
    BY <1>1, <1>7
  <2>2. CASE x = peak
    <3> HIDE DEF N
    <3>1. 2 * W - 2 * P <= N /\ 2 * P - 2 * W <= N
      <4> HIDE DEF P, W
      <4> QED
        BY <1>1, <1>19, <1>22
    <3> QED
      BY <2>2, <3>1
  <2>3. CASE x # peak
    <3>1. q[x] = raw[x] /\ q[x] * A = A * raw[x]
      BY <1>1, <1>2, <1>4, <2>3
    <3>2. q[x] * A \in Int /\ b * w[x] \in Int
      BY <1>1, <1>6
    <3>3. 2 * (q[x] * A) - 2 * (b * w[x]) <= A /\ 2 * (b * w[x]) - 2 * (q[x] * A) <= A
      BY <1>2, <3>1
    <3> HIDE DEF N
    <3> QED
      BY <1>1, <1>19, <2>1, <3>2, <3>3
  <2> QED
    BY <2>2, <2>3
<1>25. 2 * W > A * (n - 3) => q[peak] >= 0
  <2> SUFFICES ASSUME 2 * W > A * (n - 3), ~(q[peak] >= 0) PROVE FALSE
    OBVIOUS
  <2>1. P <= -A
    BY <1>1, <1>6
  <2>2. 2 * W > N - 3 * A
    BY <1>21
  <2> HIDE DEF P, W, N
  <2> QED
    BY <1>1, <1>19, <1>22, <2>1, <2>2
<1>26. n * w[peak] >= A
  <2>1. \A x \in R : -w[peak] <= w[x] /\ w[x] <= w[peak]
    OBVIOUS
  <2>2. SumFunctionOnSet(w, R) <= w[peak] * Cardinality(R)
    BY <1>8, <2>1, SumWithin
  <2>3. w[peak] * (n - 1) = n * w[peak] - w[peak] /\ n * w[peak] \in Nat
    BY <1>7
  <2> QED
    BY <1>1, <1>7, <1>14, <2>2, <2>3
<1> QED
  BY <1>1, <1>6, <1>7, <1>13, <1>23, <1>24, <1>25, <1>26 DEF Close

\* A total is a sum.
LEMMA TotalIs == ASSUME NEW S, NEW f, DOMAIN f = S PROVE Total(f) = SumFunctionOnSet(f, S)
BY DEF Total

\* The months of a plan are such shares.
LEMMA PacingParts ==
  ASSUME NEW b \in Nat \ {0}, NEW s \in [1..Months -> Nat], NEW p, p = Pacing(b, s)
  PROVE  /\ p \in [1..Months -> Int] /\ Total(p) = b
         /\ EveryMonthCovered(b) => \A m \in 1..Months : p[m] >= 0
         /\ Total(s) \in Nat
         /\ Total(s) > 0 => \A m \in 1..Months :
              /\ 2 * (p[m] * Total(s)) - 2 * (b * s[m]) <= Months * Total(s)
              /\ 2 * (b * s[m]) - 2 * (p[m] * Total(s)) <= Months * Total(s)
<1> DEFINE D == 1..Months
           S == Total(s)
           raw == [m \in D |-> IF S = 0 THEN Rounded(b, Months) ELSE Rounded(b * s[m], S)]
           Top == {m \in D : \A n \in D : s[n] <= s[m]}
           peak == Min(Top)
           w == IF S = 0 THEN [m \in D |-> 1] ELSE s
           A == SumFunctionOnSet(w, D)
<1>1. Months \in Nat \ {0} /\ IsFiniteSet(D) /\ Cardinality(D) = Months
  BY MediaPlanAssumption, FS_Interval
<1>2. p = [raw EXCEPT ![peak] = @ + b - Total(raw)]
  BY DEF Pacing
<1>3. S = SumFunctionOnSet(s, D) /\ S \in Nat /\ (S = 0 <=> \A x \in D : s[x] = 0)
  <2>1. S = SumFunctionOnSet(s, D)
    BY TotalIs
  <2> QED
    BY <1>1, <2>1, SumNat
<1>4. Total(raw) = SumFunctionOnSet(raw, D)
  BY TotalIs
<1>5. peak \in D /\ \A n \in D : s[n] <= s[peak]
  <2>1. 1 \in D /\ \A m \in D : s[m] \in Int
    BY <1>1
  <2>2. PICK m \in D : \A n \in D : s[n] <= s[m]
    <3> HIDE DEF D
    <3> QED
      BY <1>1, <2>1, GreatestAt
  <2>4. m \in Top
    BY <2>2
  <2>5. Top # {} /\ \A x \in Top : x \in Nat
    BY <2>4
  <2>6. peak \in Top
    <3> HIDE DEF Top
    <3> QED
      BY <2>5, MinIs
  <2> QED
    BY <2>6
<1> HIDE DEF peak
<1>6. \A x \in D : w[x] \in Nat /\ w[x] <= w[peak]
  BY <1>5
<1>7. w[peak] > 0
  BY <1>3, <1>5
<1>8. A = IF S = 0 THEN Months ELSE S
  <2>1. CASE S = 0
    <3>1. \A x \in D : w[x] = 1
      BY <2>1
    <3> HIDE DEF w
    <3> QED
      BY <1>1, <2>1, <3>1, SumOnes
  <2>2. CASE S # 0
    BY <1>3, <2>2
  <2> QED
    BY <2>1, <2>2
<1>9. \A x \in D : raw[x] = Rounded(b * w[x], A)
  <2>1. CASE S = 0
    <3>1. A = Months /\ b * 1 = b
      BY <1>8, <2>1
    <3>2. \A x \in D : raw[x] = Rounded(b, Months) /\ w[x] = 1
      BY <2>1
    <3> HIDE DEF A, raw, w
    <3> QED
      BY <3>1, <3>2
  <2>2. CASE S # 0
    <3>1. A = S /\ w = s
      BY <1>8, <2>2
    <3> HIDE DEF A, w
    <3> QED
      BY <2>2, <3>1
  <2> QED
    BY <2>1, <2>2
<1> HIDE DEF w, S
<1>10. raw = [x \in D |-> Rounded(b * w[x], A)]
  BY <1>9
<1>11. \A x \in D : p[x] = IF x = peak THEN raw[x] + b - SumFunctionOnSet(raw, D) ELSE raw[x]
  <2>1. DOMAIN raw = D
    OBVIOUS
  <2> HIDE DEF raw
  <2> QED
    BY <1>2, <1>4, <1>5, <2>1
<1>12. DOMAIN p = D
  <2>1. DOMAIN raw = D
    OBVIOUS
  <2> HIDE DEF raw
  <2> QED
    BY <1>2, <2>1
<1>13. p = [x \in D |-> p[x]]
  <2>1. DOMAIN raw = D
    OBVIOUS
  <2> HIDE DEF raw
  <2> QED
    BY <1>2, <1>12, <2>1
<1> HIDE DEF raw
<1>14. Shares(D, b, w, p, peak)
  BY <1>10, <1>11 DEF Shares
<1> DEFINE n == Cardinality(D)
<1> HIDE DEF D, A, n
<1>15. /\ A \in Nat \ {0} /\ n \in Nat /\ n * w[peak] >= A
       /\ \A x \in D : p[x] \in Int
       /\ SumFunctionOnSet(p, D) = b
       /\ \A x \in D : x # peak => p[x] >= 0
       /\ \A x \in D : /\ 2 * (p[x] * A) - 2 * (b * w[x]) <= n * A
                       /\ 2 * (b * w[x]) - 2 * (p[x] * A) <= n * A
       /\ 2 * (b * w[peak]) > A * (n - 3) => p[peak] >= 0
  <2>1. IsFiniteSet(D) /\ A = SumFunctionOnSet(w, D) /\ n = Cardinality(D) /\ b \in Nat
    BY <1>1 DEF D, A, n
  <2>2. /\ \A x \in D : w[x] \in Nat
        /\ \A x \in D : w[x] <= w[peak]
        /\ peak \in D
    BY <1>5, <1>6
  <2>3. Close(D, b, w, p, peak, A, n)
    BY <1>7, <1>14, <2>1, <2>2, SharesClose
  <2> QED
    BY <2>3 DEF Close
<1>16. n = Months
  BY <1>1 DEF n
<1>17. p \in [D -> Int] /\ Total(p) = b
  BY <1>12, <1>13, <1>15, TotalIs
<1>18. ASSUME EveryMonthCovered(b) PROVE p[peak] >= 0
  <2> SUFFICES ASSUME 2 * (b * w[peak]) <= A * (n - 3) PROVE FALSE
    <3>1. A * (n - 3) \in Int /\ 2 * (b * w[peak]) \in Int
      BY <1>5, <1>6, <1>15
    <3> QED
      BY <1>15, <3>1
  <2> DEFINE v == w[peak]
  <2>1. v \in Nat /\ n * v >= A /\ 2 * b > n * (n - 3)
    BY <1>5, <1>6, <1>15, <1>16, <1>18 DEF EveryMonthCovered
  <2> HIDE DEF v
  <2>2. n * (2 * (b * v)) <= n * (A * (n - 3))
    <3>1. 2 * (b * v) <= A * (n - 3) /\ n \in Nat /\ 2 * (b * v) \in Int /\ A * (n - 3) \in Int
      BY <1>15, <2>1 DEF v
    <3> QED
      BY <3>1
  <2>3. n * (A * (n - 3)) < A * (2 * b)
    <3>1. A * (n * (n - 3)) < A * (2 * b)
      <4>1. n * (n - 3) \in Int /\ 2 * b \in Int
        BY <1>15
      <4> QED
        BY <1>15, <2>1, <4>1
    <3> QED
      BY <1>15, <3>1
  <2>4. (2 * b) * (n * v) >= (2 * b) * A
    <3>1. n * v \in Int
      BY <1>15, <2>1
    <3> QED
      BY <1>15, <2>1, <3>1
  <2>5. n * (2 * (b * v)) = (2 * b) * (n * v) /\ (2 * b) * A = A * (2 * b)
    BY <1>15, <2>1
  <2>6. n * (2 * (b * v)) \in Int /\ n * (A * (n - 3)) \in Int /\ A * (2 * b) \in Int
    BY <1>15, <2>1
  <2> QED
    BY <2>2, <2>3, <2>4, <2>5, <2>6
<1>19. ASSUME S > 0, NEW m \in D
       PROVE  /\ 2 * (p[m] * S) - 2 * (b * s[m]) <= Months * S
              /\ 2 * (b * s[m]) - 2 * (p[m] * S) <= Months * S
  <2>1. A = S /\ w = s
    BY <1>3, <1>8, <1>19 DEF w
  <2> QED
    BY <1>15, <1>16, <2>1
<1> QED
  BY <1>3, <1>15, <1>17, <1>18, <1>19 DEF D, S

-----------------------------------------------------------------------------
(* Prices.                                                                 *)

\* The lesser and the greater of two.
LEMMA LesserIs ==
  ASSUME NEW a \in Int, NEW b \in Int
  PROVE  Min({a, b}) \in {a, b} /\ Min({a, b}) <= a /\ Min({a, b}) <= b
<1>1. \E x \in {a, b} : \A y \in {a, b} : x <= y
  BY a <= b \/ b <= a
<1> QED
  BY <1>1 DEF Min

LEMMA GreaterIs ==
  ASSUME NEW a \in Int, NEW b \in Int
  PROVE  Max({a, b}) \in {a, b} /\ Max({a, b}) >= a /\ Max({a, b}) >= b
<1>1. \E x \in {a, b} : \A y \in {a, b} : x >= y
  BY a <= b \/ b <= a
<1> QED
  BY <1>1 DEF Max

\* The numbers in the middle are among the numbers.
LEMMA Middles ==
  ASSUME NEW f, IsFiniteSet(DOMAIN f), DOMAIN f # {}, \A x \in DOMAIN f : f[x] \in Nat
  PROVE  /\ LowerMiddle(f) \in {f[x] : x \in DOMAIN f}
         /\ UpperMiddle(f) \in {f[x] : x \in DOMAIN f}
<1> DEFINE D == DOMAIN f
           L == {x \in D : 2 * AtMost(f, x) >= Cardinality(D)}
           U == {x \in D : 2 * AtMost(f, x) > Cardinality(D)}
<1>1. PICK m \in D : \A n \in D : f[n] <= f[m]
  BY GreatestAt
<1>2. {y \in D : f[y] <= f[m]} = D
  BY <1>1
<1>3. AtMost(f, m) = Cardinality(D)
  BY <1>2 DEF AtMost
<1>4. Cardinality(D) \in Nat /\ Cardinality(D) > 0
  BY FS_CardinalityType, FS_EmptySet
<1>5. m \in L /\ m \in U
  BY <1>3, <1>4
<1> DEFINE P == {f[x] : x \in L}
           Q == {f[x] : x \in U}
<1>6. P # {} /\ Q # {} /\ (\A x \in P : x \in Nat) /\ (\A x \in Q : x \in Nat)
  BY <1>5
<1>7. Min(P) \in P /\ Min(Q) \in Q
  <2> HIDE DEF P, Q
  <2> QED
    BY <1>6, MinIs
<1>8. LowerMiddle(f) = Min(P) /\ UpperMiddle(f) = Min(Q)
  BY DEF LowerMiddle, UpperMiddle
<1> QED
  BY <1>7, <1>8

\* A quotient of natural numbers is rounded to one, of one or more to one or more, and of
\* less than a half to none.
LEMMA RoundedNat ==
  ASSUME NEW n \in Nat, NEW d \in Nat \ {0}
  PROVE  Rounded(n, d) \in Nat
BY RoundedClose

LEMMA RoundedPositive ==
  ASSUME NEW n \in Int, NEW d \in Nat \ {0}, n >= d
  PROVE  Rounded(n, d) \in Nat \ {0}
<1> DEFINE R == Rounded(n, d)
<1>1. R \in Int /\ 2 * n - 2 * (d * R) <= d
  BY RoundedClose
<1> HIDE DEF R
<1>2. d * R \in Int
  BY <1>1
<1>3. d * R > 0
  BY <1>1, <1>2
<1>4. R > 0
  BY <1>1, <1>3
<1> QED
  BY <1>1, <1>4 DEF R

\* Plans are anchored to a price above zero.
LEMMA AnchorPositive == ASSUME NEW r \in Requests PROVE Anchor(r) \in Nat \ {0}
<1> DEFINE E == {a \in DOMAIN r.accounts : r.accounts[a].clicks >= 50}
           prices == [a \in E |-> Rounded(100 * r.accounts[a].cost, r.accounts[a].clicks)]
<1>1. /\ r.manual \in Nat /\ r.history \in Nat /\ IsFiniteSet(DOMAIN r.accounts)
      /\ \A a \in DOMAIN r.accounts : r.accounts[a].clicks \in Nat /\ r.accounts[a].cost \in Nat
  BY MediaPlanAssumption
<1>2. IsFiniteSet(E)
  BY <1>1, FS_Subset
<1>3. \A a \in E : prices[a] \in Nat
  <2> TAKE a \in E
  <2>1. 100 * r.accounts[a].cost \in Nat /\ r.accounts[a].clicks \in Nat \ {0}
    BY <1>1
  <2>2. \A n \in Nat, d \in Nat \ {0} : Rounded(n, d) \in Nat
    BY RoundedNat
  <2> QED
    BY <2>1, <2>2
<1>4. PeerPrice(r.accounts) = IF E = {} THEN 0 ELSE (LowerMiddle(prices) + UpperMiddle(prices)) \div 2
  BY DEF PeerPrice
<1>5. DOMAIN prices = E
  OBVIOUS
<1> HIDE DEF prices, E
<1>6. PeerPrice(r.accounts) \in Nat
  <2>1. CASE E = {}
    BY <1>4, <2>1
  <2>2. CASE E # {}
    <3>1. LowerMiddle(prices) \in Nat /\ UpperMiddle(prices) \in Nat
      BY <1>2, <1>3, <1>5, <2>2, Middles
    <3>2. \A n \in Nat : n \div 2 \in Nat
      OBVIOUS
    <3> QED
      BY <1>4, <2>2, <3>1, <3>2
  <2> QED
    BY <2>1, <2>2
<1> QED
  BY <1>1, <1>6 DEF Anchor

\* So are the prices of the groups.
LEMMA GroupPricePositive ==
  ASSUME NEW r \in Requests, NEW intent, NEW anchor \in Nat \ {0}
  PROVE  GroupPrice(r.words, intent, anchor) \in Nat \ {0}
<1> DEFINE priced == {w \in r.words : w.intent = intent /\ w.price > 0}
           paid   == {w \in priced : w.clicks > 0}
           cost   == [w \in paid |-> w.price * w.clicks]
           clicks == [w \in paid |-> w.clicks]
           prices == [w \in priced |-> w.price]
           price  == IF paid # {} THEN Rounded(Total(cost), Total(clicks))
                     ELSE IF priced # {} THEN UpperMiddle(prices) ELSE anchor
<1>1. GroupPrice(r.words, intent, anchor)
        = Min({Max({price, Rounded(35 * anchor, 100)}), 3 * anchor})
  BY DEF GroupPrice
<1>2. /\ IsFiniteSet(r.words)
      /\ \A w \in r.words : w.price \in Nat /\ w.clicks \in Nat
  BY MediaPlanAssumption
<1>3. IsFiniteSet(priced) /\ IsFiniteSet(paid)
  BY <1>2, FS_Subset
<1>4. price \in Nat \ {0}
  <2>1. CASE paid # {}
    <3>1. \A w \in paid : cost[w] \in Nat /\ clicks[w] \in Nat /\ clicks[w] <= cost[w] /\ clicks[w] > 0
      <4> TAKE w \in paid
      <4>1. cost[w] = w.price * w.clicks /\ clicks[w] = w.clicks
        OBVIOUS
      <4>2. w.price \in Nat /\ w.price > 0 /\ w.clicks \in Nat /\ w.clicks > 0
        BY <1>2
      <4> HIDE DEF cost, clicks
      <4>3. \A a, b \in Nat : a > 0 => b <= a * b /\ a * b \in Nat
        OBVIOUS
      <4> QED
        BY <4>1, <4>2, <4>3
    <3>2. Total(cost) = SumFunctionOnSet(cost, paid) /\ Total(clicks) = SumFunctionOnSet(clicks, paid)
      BY TotalIs
    <3>3. PICK w \in paid : TRUE
      BY <2>1
    <3> HIDE DEF cost, clicks, paid, priced
    <3>4. Total(clicks) <= Total(cost) /\ Total(clicks) \in Nat /\ Total(cost) \in Nat
      BY <1>3, <3>1, <3>2, SumMore, SumNat
    <3>5. Total(clicks) # 0
      BY <1>3, <3>1, <3>2, <3>3, SumNat
    <3>6. Rounded(Total(cost), Total(clicks)) \in Nat \ {0}
      BY <3>4, <3>5, RoundedPositive
    <3> QED
      BY <2>1, <3>6
  <2>2. CASE paid = {} /\ priced # {}
    <3>1. \A w \in priced : prices[w] \in Nat /\ prices[w] > 0
      BY <1>2
    <3>2. DOMAIN prices = priced
      OBVIOUS
    <3> HIDE DEF prices, priced, paid
    <3>3. UpperMiddle(prices) \in {prices[w] : w \in priced}
      BY <1>3, <2>2, <3>1, <3>2, Middles
    <3> QED
      BY <2>2, <3>1, <3>3
  <2>3. CASE paid = {} /\ priced = {}
    BY <2>3
  <2> QED
    BY <2>1, <2>2, <2>3
<1> HIDE DEF price
<1> DEFINE floor == Rounded(35 * anchor, 100)
<1>5. floor \in Int
  BY RoundedClose
<1> HIDE DEF floor
<1>6. Max({price, floor}) \in Nat \ {0}
  BY <1>4, <1>5, GreaterIs
<1>7. Min({Max({price, floor}), 3 * anchor}) \in Nat \ {0}
  <2> DEFINE x == Max({price, floor})
             y == 3 * anchor
  <2>1. x \in Nat \ {0} /\ y \in Nat \ {0}
    BY <1>6
  <2> HIDE DEF x, y
  <2>2. Min({x, y}) \in {x, y}
    BY <2>1, LesserIs
  <2> QED
    BY <2>1, <2>2 DEF x, y
<1> QED
  BY <1>1, <1>7 DEF floor

-----------------------------------------------------------------------------
(* The ad groups.                                                          *)

\* The first group of a plan has the greatest weight.
LEMMA FirstIs ==
  ASSUME NEW groups, groups # {}, \A i \in groups : i \in DOMAIN Weight
  PROVE  /\ FirstGroup(groups) \in groups
         /\ \A i \in groups : Weight[i] <= Weight[FirstGroup(groups)]
         /\ \A i \in groups : Weight[i] \in Nat \ {0}
<1> DEFINE N == {n \in 1..4 : GroupOrder[n] \in groups}
           m == Min(N)
<1>1. /\ DOMAIN GroupOrder = 1..4 /\ GroupOrder[1] = "brand" /\ GroupOrder[2] = "application"
      /\ GroupOrder[3] = "fees" /\ GroupOrder[4] = "informational"
  BY DEF GroupOrder
<1>2. /\ DOMAIN Weight = {"brand", "application", "fees", "informational"}
      /\ Weight["brand"] = 22 /\ Weight["application"] = 16
      /\ Weight["fees"] = 10 /\ Weight["informational"] = 2
  BY DEF Weight
<1>3. \A i \in DOMAIN Weight : \E n \in 1..4 : i = GroupOrder[n]
  BY <1>1, <1>2
<1>4. N # {} /\ \A n \in N : n \in Nat
  BY <1>3
<1>5. m \in N /\ \A n \in N : m <= n
  <2> HIDE DEF N
  <2> QED
    BY <1>4, MinIs
<1>6. FirstGroup(groups) = GroupOrder[m]
  BY <1>1 DEF FirstGroup
<1> HIDE DEF m
<1>7. \A k, n \in 1..4 : k <= n => Weight[GroupOrder[n]] <= Weight[GroupOrder[k]]
  BY <1>1, <1>2
<1>8. \A i \in groups : Weight[i] <= Weight[GroupOrder[m]]
  <2> TAKE i \in groups
  <2>1. PICK n \in 1..4 : i = GroupOrder[n]
    BY <1>3
  <2>2. n \in N
    BY <2>1
  <2> QED
    BY <1>5, <1>7, <2>1, <2>2
<1>9. \A i \in groups : Weight[i] \in Nat \ {0}
  BY <1>2
<1> QED
  BY <1>5, <1>6, <1>8, <1>9

\* All groups together.
LEMMA FourGroups ==
  ASSUME NEW w, \A i \in DOMAIN Weight : w[i] = Weight[i]
  PROVE  /\ Cardinality(DOMAIN Weight) = 4 /\ IsFiniteSet(DOMAIN Weight)
         /\ SumFunctionOnSet(w, DOMAIN Weight) = 50
<1> DEFINE S == DOMAIN Weight
           A == {"application", "fees", "informational"}
           B == {"fees", "informational"}
           C == {"informational"}
<1>1. /\ S = {"brand", "application", "fees", "informational"}
      /\ Weight["brand"] = 22 /\ Weight["application"] = 16
      /\ Weight["fees"] = 10 /\ Weight["informational"] = 2
  BY DEF Weight
<1>2. /\ w["brand"] = 22 /\ w["application"] = 16 /\ w["fees"] = 10 /\ w["informational"] = 2
  BY <1>1
<1>3. IsFiniteSet(C) /\ Cardinality(C) = 1
  BY FS_Singleton
<1>4. IsFiniteSet(B) /\ Cardinality(B) = 2
  <2>1. B = C \cup {"fees"} /\ "fees" \notin C
    OBVIOUS
  <2> QED
    BY <1>3, <2>1, FS_AddElement
<1>5. IsFiniteSet(A) /\ Cardinality(A) = 3
  <2>1. A = B \cup {"application"} /\ "application" \notin B
    OBVIOUS
  <2> QED
    BY <1>4, <2>1, FS_AddElement
<1>6. IsFiniteSet(S) /\ Cardinality(S) = 4
  <2>1. S = A \cup {"brand"} /\ "brand" \notin A
    BY <1>1
  <2> QED
    BY <1>5, <2>1, FS_AddElement
<1>7. Summable(w, S) /\ Summable(w, A) /\ Summable(w, B) /\ Summable(w, C)
  BY <1>1, <1>2, <1>3, <1>4, <1>5, <1>6 DEF Summable
<1>8. /\ S \ {"brand"} = A /\ A \ {"application"} = B /\ B \ {"fees"} = C
      /\ C \ {"informational"} = {}
  BY <1>1
<1>9. /\ SumFunctionOnSet(w, S) = 22 + SumFunctionOnSet(w, A)
      /\ SumFunctionOnSet(w, A) = 16 + SumFunctionOnSet(w, B)
      /\ SumFunctionOnSet(w, B) = 10 + SumFunctionOnSet(w, C)
      /\ SumFunctionOnSet(w, C) = 2 + SumFunctionOnSet(w, {})
  <2>1. "brand" \in S
    BY <1>1
  <2> HIDE DEF S
  <2>2. SumFunctionOnSet(w, S) = w["brand"] + SumFunctionOnSet(w, S \ {"brand"})
    BY <1>7, <2>1, SumRemove
  <2>3. "application" \in A /\ "fees" \in B /\ "informational" \in C
    OBVIOUS
  <2> HIDE DEF A, B, C
  <2>4. /\ SumFunctionOnSet(w, A) = w["application"] + SumFunctionOnSet(w, A \ {"application"})
        /\ SumFunctionOnSet(w, B) = w["fees"] + SumFunctionOnSet(w, B \ {"fees"})
        /\ SumFunctionOnSet(w, C) = w["informational"] + SumFunctionOnSet(w, C \ {"informational"})
    BY <1>7, <2>3, SumRemove
  <2> QED
    BY <1>2, <1>8, <2>2, <2>4
<1>10. SumFunctionOnSet(w, {}) = 0
  BY SumEmpty
<1> QED
  BY <1>6, <1>9, <1>10

LEMMA RoundedSmall ==
  ASSUME NEW n \in Nat, NEW d \in Nat \ {0}, 2 * n < d
  PROVE  Rounded(n, d) = 0
<1> DEFINE R == Rounded(n, d)
<1>1. R \in Nat /\ 2 * (d * R) - 2 * n <= d
  BY RoundedClose, RoundedNat
<1> HIDE DEF R
<1>2. R >= 1 => d * R >= d
  BY <1>1
<1>3. d * R \in Int
  BY <1>1
<1>4. ~(R >= 1)
  BY <1>1, <1>2, <1>3
<1> QED
  BY <1>1, <1>4 DEF R

\* No group gets less than nothing, and the groups get the whole budget.
LEMMA BudgetShares ==
  ASSUME NEW groups, groups # {}, \A i \in groups : i \in DOMAIN Weight, NEW b \in Nat \ {0},
         NEW w, w = [i \in groups |-> Weight[i]],
         NEW q, Shares(groups, b, w, q, FirstGroup(groups))
  PROVE  /\ IsFiniteSet(groups) /\ SumFunctionOnSet(w, groups) \in Nat \ {0}
         /\ SumFunctionOnSet(q, groups) = b
         /\ \A i \in groups : q[i] \in Nat
<1> DEFINE first == FirstGroup(groups)
           A == SumFunctionOnSet(w, groups)
           n == Cardinality(groups)
<1>1. first \in groups /\ \A i \in groups : w[i] \in Nat \ {0} /\ w[i] <= w[first]
  BY FirstIs
<1>2. Cardinality(DOMAIN Weight) = 4 /\ IsFiniteSet(DOMAIN Weight)
  BY FourGroups
<1>3. IsFiniteSet(groups) /\ n <= 4 /\ (n = 4 => groups = DOMAIN Weight) /\ n \in Nat
  <2>1. groups \subseteq DOMAIN Weight
    OBVIOUS
  <2> HIDE DEF n
  <2>2. IsFiniteSet(groups) /\ n <= 4 /\ (n = 4 => groups = DOMAIN Weight)
    BY <1>2, <2>1, FS_Subset DEF n
  <2> QED
    BY <2>2, FS_CardinalityType DEF n
<1> HIDE DEF first, A, n
<1>4. /\ A \in Nat \ {0}
      /\ \A x \in groups : q[x] \in Int
      /\ SumFunctionOnSet(q, groups) = b
      /\ \A x \in groups : x # first => q[x] >= 0
      /\ 2 * (b * w[first]) > A * (n - 3) => q[first] >= 0
  <2>1. /\ b \in Nat /\ w[first] > 0 /\ A = SumFunctionOnSet(w, groups)
        /\ n = Cardinality(groups) /\ Shares(groups, b, w, q, first)
    BY <1>1 DEF A, n, first
  <2>2. (\A x \in groups : w[x] \in Nat) /\ \A x \in groups : w[x] <= w[first]
    BY <1>1
  <2>3. Close(groups, b, w, q, first, A, n)
    BY <1>1, <1>3, <2>1, <2>2, SharesClose
  <2> QED
    BY <2>3 DEF Close
<1>5. q[first] >= 0
  <2>1. CASE n <= 3
    <3>1. b * w[first] > 0 /\ b * w[first] \in Nat
      BY <1>1
    <3>2. A * (n - 3) <= 0 /\ A * (n - 3) \in Int
      BY <1>3, <1>4, <2>1
    <3> QED
      BY <1>4, <3>1, <3>2
  <2>2. CASE n = 4
    <3>1. groups = {"brand", "application", "fees", "informational"}
      BY <1>3, <2>2 DEF Weight
    <3>2. /\ w["brand"] = 22 /\ w["application"] = 16 /\ w["fees"] = 10 /\ w["informational"] = 2
      BY <3>1 DEF Weight
    <3>3. first = "brand"
      <4>1. w[first] >= 22
        BY <1>1, <3>1, <3>2
      <4> QED
        BY <1>1, <3>1, <3>2, <4>1
    <3>4. A = 50
      <4>1. groups = DOMAIN Weight
        BY <1>3, <2>2
      <4>2. \A i \in DOMAIN Weight : w[i] = Weight[i]
        BY <4>1
      <4>3. SumFunctionOnSet(w, DOMAIN Weight) = 50
        BY <4>2, FourGroups
      <4> QED
        BY <4>1, <4>3 DEF A
    <3>5. CASE b >= 2
      <4>1. A * (n - 3) = 50
        BY <2>2, <3>4
      <4>2. 2 * (b * w[first]) > 50
        BY <3>2, <3>3, <3>5
      <4> QED
        BY <1>4, <4>1, <4>2
    <3>6. CASE b = 1
      <4> DEFINE raw == [x \in groups |-> Rounded(b * w[x], SumFunctionOnSet(w, groups))]
      <4>1. \A x \in groups : raw[x] = 0
        <5> SUFFICES ASSUME NEW x \in groups PROVE raw[x] = 0
          OBVIOUS
        <5>1. w[x] \in Nat /\ w[x] <= 22 /\ b * w[x] = w[x]
          BY <1>1, <3>2, <3>3, <3>6
        <5>2. raw[x] = Rounded(w[x], 50)
          BY <3>4, <5>1 DEF A
        <5>3. 2 * w[x] < 50
          BY <5>1
        <5> QED
          BY <5>1, <5>2, <5>3, RoundedSmall
      <4>2. q[first] = raw[first] + b - SumFunctionOnSet(raw, groups)
        BY <1>1 DEF Shares, first
      <4> HIDE DEF raw
      <4>3. SumFunctionOnSet(raw, groups) = 0
        BY <1>3, <4>1, SumNat
      <4> QED
        BY <1>1, <3>6, <4>1, <4>2, <4>3
    <3> QED
      BY <3>5, <3>6
  <2> QED
    BY <1>3, <2>1, <2>2
<1>6. \A i \in groups : q[i] \in Nat
  BY <1>4, <1>5
<1> QED
  BY <1>3, <1>4, <1>6 DEF A

\* What every row of an allocation is.
IsRow(x) ==
  /\ x.budget \in Nat /\ x.price \in Nat \ {0} /\ x.clicks \in Nat /\ x.phase \in {1, 2}

\* What a row is before rounding is made up for.
LEMMA RowIs ==
  ASSUME NEW r \in Requests, NEW intent, NEW budget \in Nat,
         NEW x, x = GroupRow(r, intent, budget)
  PROVE  /\ x.budget = budget /\ x.price \in Nat \ {0} /\ x.clicks \in Nat /\ x.phase \in {1, 2}
         /\ DOMAIN x = {"intent", "budget", "price", "clicks", "phase"}
<1> DEFINE price == GroupPrice(r.words, intent, Anchor(r))
<1>1. x = [intent |-> intent, budget |-> budget, price |-> price,
           clicks |-> (100 * budget) \div price,
           phase |-> IF intent \in FirstPhase THEN 1 ELSE 2]
  BY DEF GroupRow
<1>2. price \in Nat \ {0}
  BY AnchorPositive, GroupPricePositive
<1> HIDE DEF price
<1>3. (100 * budget) \div price \in Nat
  <2>1. \A n \in Nat, d \in Nat \ {0} : n \div d \in Nat
    OBVIOUS
  <2> QED
    BY <1>2, <2>1
<1> QED
  BY <1>1, <1>2, <1>3

\* The rows of an allocation, and what they add up to.
LEMMA AllocationParts ==
  ASSUME NEW r \in Requests, NEW rows, rows = Allocation(r)
  PROVE  /\ IsFiniteSet(DOMAIN rows)
         /\ \A i \in DOMAIN rows : IsRow(rows[i])
         /\ SumOf(rows, LAMBDA x : x.budget) = r.budget
<1> DEFINE D == GroupsPresent(r.words)
           w == [i \in D |-> Weight[i]]
           A == SumFunctionOnSet(w, D)
           raw == [i \in D |-> Rounded(r.budget * Weight[i], A)]
           fresh == [i \in D |-> GroupRow(r, i, Rounded(r.budget * Weight[i], A))]
           first == FirstGroup(D)
           drift == r.budget - SumOf(fresh, LAMBDA x : x.budget)
           q == [i \in D |-> rows[i].budget]
<1>1. r.budget \in Nat \ {0} /\ r.words # {} /\ \A v \in r.words : v.intent \in DOMAIN Weight
  BY MediaPlanAssumption
<1>2. D # {} /\ \A i \in D : i \in DOMAIN Weight
  BY <1>1 DEF GroupsPresent
<1>3. first \in D /\ \A i \in D : Weight[i] \in Nat \ {0}
  BY <1>2, FirstIs
<1>4. rows = [fresh EXCEPT ![first].budget = @ + drift]
  <2>1. Total(w) = A
    BY TotalIs
  <2> QED
    BY <2>1 DEF Allocation
<1>5. IsFiniteSet(D)
  <2>1. \A i \in D : i \in DOMAIN Weight
    BY <1>2
  <2>2. D \subseteq DOMAIN Weight
    BY <2>1
  <2> QED
    BY <2>2, FourGroups, FS_Subset
<1>6. A \in Nat \ {0}
  <2>1. \A i \in D : w[i] \in Nat \ {0}
    BY <1>3
  <2> HIDE DEF w
  <2> QED
    BY <1>3, <1>5, <2>1, SumNat
<1>7. \A i \in D : raw[i] \in Nat
  <2> SUFFICES ASSUME NEW i \in D PROVE raw[i] \in Nat
    OBVIOUS
  <2>1. r.budget * Weight[i] \in Nat
    BY <1>1, <1>3
  <2> HIDE DEF A
  <2>2. Rounded(r.budget * Weight[i], A) \in Nat
    BY <1>6, <2>1, RoundedNat
  <2> QED
    BY <2>2
<1>8. \A i \in D : /\ fresh[i].budget = raw[i] /\ fresh[i].price \in Nat \ {0}
                   /\ fresh[i].clicks \in Nat /\ fresh[i].phase \in {1, 2}
                   /\ DOMAIN fresh[i] = {"intent", "budget", "price", "clicks", "phase"}
  <2> SUFFICES ASSUME NEW i \in D
               PROVE  /\ fresh[i].budget = raw[i] /\ fresh[i].price \in Nat \ {0}
                      /\ fresh[i].clicks \in Nat /\ fresh[i].phase \in {1, 2}
                      /\ DOMAIN fresh[i] = {"intent", "budget", "price", "clicks", "phase"}
    OBVIOUS
  <2>1. fresh[i] = GroupRow(r, i, raw[i]) /\ raw[i] \in Nat
    BY <1>7
  <2> HIDE DEF fresh, raw
  <2> QED
    BY <2>1, RowIs
<1>9. SumOf(fresh, LAMBDA x : x.budget) = SumFunctionOnSet(raw, D)
  <2>1. DOMAIN fresh = D
    OBVIOUS
  <2> HIDE DEF fresh
  <2>2. SumOf(fresh, LAMBDA x : x.budget) = Total([i \in D |-> fresh[i].budget])
    BY <2>1 DEF SumOf
  <2>3. [i \in D |-> fresh[i].budget] = raw
    BY <1>8
  <2> HIDE DEF raw
  <2>4. DOMAIN raw = D
    BY DEF raw
  <2> QED
    BY <2>2, <2>3, <2>4, TotalIs
<1>10. DOMAIN fresh = D
  OBVIOUS
<1>11. raw = [i \in D |-> Rounded(r.budget * w[i], SumFunctionOnSet(w, D))]
  OBVIOUS
<1> HIDE DEF fresh, raw
<1>12. /\ DOMAIN rows = D
       /\ \A i \in D : i # first => rows[i] = fresh[i]
       /\ rows[first] = [fresh[first] EXCEPT !.budget = @ + drift]
  BY <1>3, <1>4, <1>10
<1>13. /\ rows[first].budget = raw[first] + r.budget - SumFunctionOnSet(raw, D)
       /\ rows[first].price = fresh[first].price /\ rows[first].clicks = fresh[first].clicks
       /\ rows[first].phase = fresh[first].phase
  <2>1. rows[first].budget = raw[first] + drift
    BY <1>3, <1>8, <1>12
  <2>2. SumFunctionOnSet(raw, D) \in Int /\ raw[first] \in Int
    <3>1. Summable(raw, D)
      BY <1>5, <1>7 DEF Summable
    <3> QED
      BY <1>3, <1>7, <3>1, SumInt
  <2>3. rows[first].budget = raw[first] + r.budget - SumFunctionOnSet(raw, D)
    BY <1>1, <1>9, <2>1, <2>2
  <2> HIDE DEF drift
  <2> QED
    BY <1>3, <1>8, <1>12, <2>3
<1>14. Shares(D, r.budget, w, q, first)
  <2>1. \A i \in D : q[i] = IF i = first THEN raw[i] + r.budget - SumFunctionOnSet(raw, D) ELSE raw[i]
    BY <1>8, <1>12, <1>13
  <2> HIDE DEF q
  <2> QED
    BY <1>11, <2>1 DEF Shares
<1>15. SumFunctionOnSet(q, D) = r.budget /\ \A i \in D : q[i] \in Nat
  <2>1. w = [i \in D |-> Weight[i]]
    OBVIOUS
  <2> HIDE DEF w, q, D
  <2> QED
    BY <1>1, <1>2, <1>14, <2>1, BudgetShares DEF first
<1>16. \A i \in D : IsRow(rows[i])
  <2> TAKE i \in D
  <2>1. rows[i].budget \in Nat
    BY <1>15
  <2> QED
    BY <1>8, <1>12, <1>13, <2>1 DEF IsRow
<1>17. SumOf(rows, LAMBDA x : x.budget) = r.budget
  <2>1. SumOf(rows, LAMBDA x : x.budget) = Total(q)
    BY <1>12 DEF SumOf
  <2>2. DOMAIN q = D
    OBVIOUS
  <2> HIDE DEF q
  <2> QED
    BY <1>15, <2>1, <2>2, TotalIs
<1> QED
  BY <1>5, <1>12, <1>16, <1>17

-----------------------------------------------------------------------------
(* The figures of a plan.                                                  *)

\* A sum of natural numbers over rows is one.
LEMMA FieldSum ==
  ASSUME NEW rows, IsFiniteSet(DOMAIN rows), NEW f, f = [i \in DOMAIN rows |-> f[i]],
         \A i \in DOMAIN rows : f[i] \in Nat
  PROVE  Total(f) \in Nat
<1>1. Total(f) = SumFunctionOnSet(f, DOMAIN rows)
  BY TotalIs
<1> QED
  BY <1>1, SumNat

\* The figures that are computed from an allocation.
LEMMA Figures ==
  ASSUME NEW r \in Requests, NEW rows, rows = Allocation(r)
  PROVE  /\ SumOf(rows, LAMBDA x : x.clicks) \in Nat
         /\ SumOf(Only(rows, 1), LAMBDA x : x.budget) \in Nat
         /\ Optimized(rows) \in Nat
         /\ Blended(r, rows) \in Nat
         /\ Blended(r, rows) > 0 =>
              /\ SumOf(rows, LAMBDA x : x.clicks) > 0
              /\ Blended(r, rows) = Rounded(100 * r.budget, SumOf(rows, LAMBDA x : x.clicks))
<1>1. /\ r.budget \in Nat \ {0} /\ IsFiniteSet(DOMAIN rows)
      /\ \A i \in DOMAIN rows : IsRow(rows[i])
  BY MediaPlanAssumption, AllocationParts
<1> DEFINE clicks == [i \in DOMAIN rows |-> rows[i].clicks]
           first == Only(rows, 1)
           budgets == [i \in DOMAIN first |-> first[i].budget]
           costs == [i \in DOMAIN first |-> first[i].price * first[i].budget]
<1>2. /\ SumOf(rows, LAMBDA x : x.clicks) = Total(clicks)
      /\ SumOf(first, LAMBDA x : x.budget) = Total(budgets)
      /\ SumOf(first, LAMBDA x : x.price * x.budget) = Total(costs)
  BY DEF SumOf
<1>3. IsFiniteSet(DOMAIN first) /\ \A i \in DOMAIN first : IsRow(first[i])
  <2>1. /\ DOMAIN first = {i \in DOMAIN rows : rows[i].phase = 1}
        /\ \A i \in DOMAIN first : first[i] = rows[i] /\ i \in DOMAIN rows
    BY DEF Only
  <2>2. DOMAIN first \subseteq DOMAIN rows
    BY <2>1
  <2> HIDE DEF first
  <2> QED
    BY <1>1, <2>1, <2>2, FS_Subset
<1> HIDE DEF first
<1>4. Total(clicks) \in Nat
  <2>1. \A i \in DOMAIN rows : clicks[i] \in Nat
    BY <1>1 DEF IsRow
  <2>2. clicks = [i \in DOMAIN rows |-> clicks[i]]
    OBVIOUS
  <2> HIDE DEF clicks
  <2> QED
    BY <1>1, <2>1, <2>2, FieldSum
<1>5. Total(budgets) \in Nat
  <2>1. \A i \in DOMAIN first : budgets[i] \in Nat
    BY <1>3 DEF IsRow
  <2>2. budgets = [i \in DOMAIN first |-> budgets[i]]
    OBVIOUS
  <2> HIDE DEF budgets
  <2> QED
    BY <1>3, <2>1, <2>2, FieldSum
<1>6. Total(costs) \in Nat
  <2>1. \A i \in DOMAIN first : costs[i] \in Nat
    BY <1>3 DEF IsRow
  <2>2. costs = [i \in DOMAIN first |-> costs[i]]
    OBVIOUS
  <2> HIDE DEF costs
  <2> QED
    BY <1>3, <2>1, <2>2, FieldSum
<1> HIDE DEF clicks, budgets, costs
<1>7. Optimized(rows) = IF Total(budgets) = 0 THEN 0 ELSE Rounded(Total(costs), Total(budgets))
  BY <1>2 DEF Optimized, first
<1>8. Blended(r, rows) = IF Total(clicks) = 0 THEN 0 ELSE Rounded(100 * r.budget, Total(clicks))
  BY <1>2 DEF Blended
<1>9. Optimized(rows) \in Nat
  BY <1>5, <1>6, <1>7, RoundedNat
<1>10. Total(clicks) # 0 => Rounded(100 * r.budget, Total(clicks)) \in Nat
  <2>1. 100 * r.budget \in Nat
    BY <1>1
  <2> QED
    BY <1>4, <2>1, RoundedNat
<1>11. /\ Blended(r, rows) \in Nat
       /\ Blended(r, rows) > 0 =>
            Total(clicks) > 0 /\ Blended(r, rows) = Rounded(100 * r.budget, Total(clicks))
  <2>1. CASE Total(clicks) = 0
    BY <1>8, <2>1
  <2>2. CASE Total(clicks) # 0
    BY <1>4, <1>8, <1>10, <2>2
  <2> QED
    BY <2>1, <2>2
<1>12. SumOf(Only(rows, 1), LAMBDA x : x.budget) \in Nat
  BY <1>2, <1>5 DEF first
<1> QED
  BY <1>2, <1>4, <1>9, <1>11, <1>12

\* The price of the reality check is one of a click, if there is any history.
LEMMA RealismPrice ==
  ASSUME NEW r \in Requests, NEW flat
  PROVE  /\ Realism(r, flat).price \in Nat
         /\ r.history > 0 =>
              /\ Realism(r, flat).price = Rounded(r.history * Premium(r), 100000)
              /\ Realism(r, flat).price > 0
         /\ r.history = 0 => Realism(r, flat) = NoRange
<1>1. r.history \in Nat
  BY MediaPlanAssumption
<1>2. Premium(r) \in Nat /\ Premium(r) >= 100000
  BY MediaPlanAssumption DEF Premium
<1>3. CASE r.history = 0
  BY <1>3 DEF Realism, NoRange
<1>4. CASE r.history > 0
  <2> DEFINE price == Rounded(r.history * Premium(r), 100000)
  <2>1. Realism(r, flat).price = price
    BY <1>4 DEF Realism
  <2>2. r.history * Premium(r) \in Int /\ r.history * Premium(r) >= 100000
    BY <1>1, <1>2, <1>4
  <2>3. price \in Nat \ {0}
    BY <2>2, RoundedPositive
  <2> HIDE DEF price
  <2> QED
    BY <1>4, <2>1, <2>3 DEF price
<1> QED
  BY <1>1, <1>3, <1>4

\* Hundredths of more are more.
LEMMA Hundredths ==
  ASSUME NEW a \in Nat, NEW b \in Nat
  PROVE  /\ a \div 100 \in Nat
         /\ a <= b => a \div 100 <= b \div 100
         /\ a <= 100 * b => a \div 100 <= b
OBVIOUS

\* How often a price fits.
LEMMA QuotientIs ==
  ASSUME NEW n \in Nat, NEW price \in Nat \ {0}
  PROVE  n \div price \in Nat /\ price * (n \div price) <= n /\ n < price * (n \div price) + price
<1>1. n \div price \in Nat
  OBVIOUS
<1>2. n % price \in Nat /\ n % price < price /\ n = price * (n \div price) + (n % price)
  BY Division
<1> DEFINE t == n \div price
           m == n % price
           x == price * t
<1>3. x \in Int
  BY <1>1
<1> HIDE DEF t, m, x
<1>4. m \in Nat /\ m < price /\ n = x + m
  BY <1>2 DEF t, m, x
<1>5. x <= n /\ n < x + price
  BY <1>3, <1>4
<1> QED
  BY <1>1, <1>5 DEF x, t

\* The clicks at the price expected, less 15%, are no more than those at the price of the
\* plan, if that is lower.
LEMMA FewerClicks ==
  ASSUME NEW n \in Nat, NEW flat \in Nat \ {0}, NEW bl, bl = Rounded(n, flat), bl >= 3,
         NEW price \in Nat, bl <= price
  PROVE  85 * (n \div price) <= 100 * flat
<1> DEFINE t == n \div price
<1>1. bl \in Nat /\ 2 * n - 2 * (flat * bl) <= flat
  BY RoundedClose
<1>2. t \in Nat /\ price * t <= n
  BY <1>1, QuotientIs
<1> HIDE DEF t
<1>3. bl * t <= price * t
  BY <1>1, <1>2
<1>4. flat * bl \in Nat /\ bl * t \in Nat /\ price * t \in Nat
  BY <1>1, <1>2
<1>5. 3 * flat <= flat * bl
  BY <1>1
<1>6. 6 * (bl * t) <= 7 * (flat * bl)
  BY <1>1, <1>2, <1>3, <1>4, <1>5
<1>7. bl * (6 * t) <= bl * (7 * flat)
  <2>1. bl * (6 * t) = 6 * (bl * t) /\ bl * (7 * flat) = 7 * (flat * bl)
    BY <1>1, <1>2
  <2> QED
    BY <1>6, <2>1
<1>8. 6 * t <= 7 * flat
  <2> SUFFICES ASSUME 6 * t > 7 * flat PROVE FALSE
    BY <1>2
  <2>1. bl * (6 * t) > bl * (7 * flat)
    <3> DEFINE x == 6 * t
               y == 7 * flat
    <3>1. x \in Nat /\ y \in Nat /\ x > y
      BY <1>2
    <3> HIDE DEF x, y
    <3>2. \A a, c, d \in Nat : a > 0 /\ c > d => a * c > a * d
      OBVIOUS
    <3>3. bl * x > bl * y
      BY <1>1, <3>1, <3>2
    <3> QED
      BY <3>3 DEF x, y
  <2>2. bl * (6 * t) \in Int /\ bl * (7 * flat) \in Int
    BY <1>1, <1>2
  <2> QED
    BY <1>7, <2>1, <2>2
<1>9. 85 * t <= 100 * flat
  BY <1>2, <1>8
<1> QED
  BY <1>9 DEF t

\* The reality check leaves a range.
LEMMA RealismOrdered ==
  ASSUME NEW r \in Requests, NEW flat \in Nat \ {0},
         NEW bl, bl = Rounded(100 * r.budget, flat), 3 <= bl,
         NEW range, range = Realism(r, flat), bl <= range.price
  PROVE  range.low <= range.high
<1> DEFINE n == 100 * r.budget
           price == Rounded(r.history * Premium(r), 100000)
           ceiling == (r.demand * 75 * r.ctr) \div 10000
           bound(m) == IF ceiling > 0 THEN Min({m, ceiling}) ELSE m
           t == n \div price
           middle == bound(t)
<1>1. /\ r.history \in Nat /\ r.demand \in Nat /\ r.ctr \in Nat /\ n \in Nat
  BY MediaPlanAssumption
<1>2. bl \in Nat
  BY <1>1, RoundedNat
<1>3. r.history # 0 /\ range.price = price /\ price \in Nat
  <2>1. range.price \in Nat /\ (r.history > 0 => range.price = price) /\ (r.history = 0 => range = NoRange)
    BY RealismPrice
  <2>2. NoRange.price = 0
    BY DEF NoRange
  <2>3. range.price # 0
    BY <1>2, <2>1
  <2> HIDE DEF price
  <2> QED
    BY <1>1, <2>1, <2>2, <2>3
<1>4. /\ range.low = (85 * middle) \div 100
      /\ range.high = IF ceiling > 0 THEN Min({bound(flat), (115 * middle) \div 100}) ELSE flat
  BY <1>3 DEF Realism
<1>5. ceiling \in Nat
  <2>1. r.demand * 75 * r.ctr \in Nat
    BY <1>1
  <2>2. \A x \in Nat : x \div 10000 \in Nat
    OBVIOUS
  <2> QED
    BY <2>1, <2>2
<1>6. t \in Nat /\ 85 * t <= 100 * flat
  <2>1. price > 0 /\ bl <= price /\ n \in Nat /\ bl = Rounded(n, flat)
    BY <1>1, <1>2, <1>3
  <2> HIDE DEF price, n
  <2> QED
    BY <1>2, <1>3, <2>1, QuotientIs, FewerClicks
<1> HIDE DEF t, ceiling
<1>7. CASE ceiling = 0
  <2>1. range.low = (85 * t) \div 100 /\ range.high = flat
    BY <1>4, <1>7
  <2>2. (85 * t) \div 100 <= flat
    BY <1>6, Hundredths
  <2> QED
    BY <2>1, <2>2
<1>8. CASE ceiling > 0
  <2>1. middle \in Nat /\ middle <= t /\ middle <= ceiling
    BY <1>5, <1>6, <1>8, LesserIs
  <2>2. bound(flat) \in Nat /\ bound(flat) \in {flat, ceiling}
    BY <1>5, <1>8, LesserIs
  <2> DEFINE low == (85 * middle) \div 100
             high == (115 * middle) \div 100
             top == bound(flat)
  <2>3. range.low = low /\ range.high = Min({top, high})
    BY <1>4, <1>8
  <2> HIDE DEF middle, bound
  <2>4. low \in Nat /\ high \in Nat /\ low <= high
    BY <2>1, Hundredths
  <2>5. low <= flat /\ low <= ceiling
    <3>1. 85 * middle <= 100 * flat /\ 85 * middle <= 100 * ceiling
      BY <1>5, <1>6, <2>1
    <3> QED
      BY <1>5, <2>1, <3>1, Hundredths
  <2> HIDE DEF low, high
  <2>6. top \in Nat /\ low <= top
    BY <2>2, <2>5
  <2> HIDE DEF top
  <2>7. Min({top, high}) \in {top, high}
    <3>1. top \in Int /\ high \in Int
      BY <2>4, <2>6
    <3> QED
      BY <3>1, LesserIs, Zenon
  <2> QED
    BY <2>3, <2>4, <2>6, <2>7
<1> QED
  BY <1>5, <1>7, <1>8

\* What a feasible goal says.
LEMMA GoalHolds ==
  ASSUME NEW r \in Requests, NEW price \in Nat, NEW optimized \in Nat,
         NEW goal, goal = GoalPlan(r, price), goal.feasible,
         NEW cpl, cpl = CplStatus(r, price, optimized)
  PROVE  /\ price >= 50 /\ r.rate <= 100 =>
              100 * r.leads <= (((100 * goal.budget) \div price) + 1) * r.rate + 50
         /\ r.rate <= 4 => cpl = "beating"
         /\ r.rate <= 27 /\ optimized <= price => cpl # "gap"
<1> DEFINE clicks == Rounded(100 * r.leads, r.rate)
           budget == Rounded(clicks * price, 100)
           per == Rounded(price, r.rate)
           four == Rounded(price, 4)
           paid == IF optimized > 0 THEN optimized ELSE price
           rate == r.rate
           target == r.target
           leads == r.leads
<1>1. rate \in Nat \ {0} /\ leads \in Nat /\ target \in Nat
  BY MediaPlanAssumption
<1>2. price > 0 /\ goal.budget = budget /\ per <= target
  <2>1. NoGoal.feasible = FALSE
    BY DEF NoGoal
  <2>2. ~(0 \in {price, r.rate, r.leads, r.target})
    BY <2>1 DEF GoalPlan
  <2> QED
    BY <2>2 DEF GoalPlan
<1>3. cpl = IF four <= target + 50 THEN "beating"
            ELSE IF 27 * (target + 50) >= paid THEN "reachable" ELSE "gap"
  BY <1>2 DEF CplStatus
<1>4. per \in Nat /\ 2 * price - 2 * (rate * per) <= rate
  <2> HIDE DEF rate, per
  <2>1. Rounded(price, rate) \in Nat /\ 2 * price - 2 * (rate * Rounded(price, rate)) <= rate
    BY <1>1, RoundedClose, RoundedNat
  <2> QED
    BY <2>1 DEF per, rate
<1>5. four \in Nat /\ 2 * (4 * four) - 2 * price <= 4
  BY RoundedClose, RoundedNat
<1>6. clicks \in Nat /\ 200 * leads - 2 * (rate * clicks) <= rate
  <2> DEFINE n == 100 * leads
  <2>1. n \in Nat
    BY <1>1
  <2> HIDE DEF n, rate, leads
  <2>2. Rounded(n, rate) \in Nat /\ 2 * n - 2 * (rate * Rounded(n, rate)) <= rate
    BY <1>1, <2>1, RoundedClose, RoundedNat
  <2>3. 2 * n = 200 * leads
    BY <1>1 DEF n
  <2> QED
    BY <2>2, <2>3 DEF n, rate, leads
<1> HIDE DEF clicks
<1>7. budget \in Nat /\ 2 * (clicks * price) - 2 * (100 * budget) <= 100
  <2> DEFINE n == clicks * price
  <2>1. n \in Nat
    BY <1>6
  <2> HIDE DEF n
  <2>2. Rounded(n, 100) \in Nat /\ 2 * n - 2 * (100 * Rounded(n, 100)) <= 100
    BY <2>1, RoundedClose, RoundedNat
  <2> QED
    BY <2>2 DEF n
<1> HIDE DEF budget, per, four, rate, target, leads
<1>8. ASSUME price >= 50, rate <= 100
      PROVE  100 * leads <= (((100 * budget) \div price) + 1) * rate + 50
  <2> DEFINE n == 100 * budget
             c == n \div price
  <2>1. n \in Nat /\ 2 * (clicks * price) - 2 * n <= 100
    BY <1>7
  <2> HIDE DEF n
  <2>2. c \in Nat /\ n < price * c + price
    BY <1>2, <2>1, QuotientIs
  <2> HIDE DEF c
  <2>3. clicks * price = price * clicks /\ price * clicks \in Nat /\ price * c \in Nat
    BY <1>6, <2>2
  <2>4. price * clicks < price * c + 2 * price
    BY <1>8, <2>1, <2>2, <2>3
  <2>5. clicks < c + 2
    <3> SUFFICES ASSUME clicks >= c + 2 PROVE FALSE
      BY <1>6, <2>2
    <3>1. price * clicks >= price * (c + 2)
      BY <1>6, <2>2
    <3>2. price * (c + 2) = price * c + 2 * price
      BY <2>2
    <3> QED
      BY <2>3, <2>4, <3>1, <3>2
  <2>6. rate * clicks <= rate * (c + 1)
    BY <1>1, <1>6, <2>2, <2>5
  <2>7. rate * (c + 1) = (c + 1) * rate /\ rate * clicks \in Nat /\ (c + 1) * rate \in Nat
    BY <1>1, <1>6, <2>2
  <2>8. 100 * leads <= (c + 1) * rate + 50
    BY <1>1, <1>6, <1>8, <2>6, <2>7
  <2> QED
    BY <2>8 DEF c, n
<1>9. rate * per \in Nat
  BY <1>1, <1>4
<1>10. ASSUME rate <= 4 PROVE cpl = "beating"
  <2>1. rate * per <= 4 * per
    BY <1>1, <1>4, <1>10
  <2>2. four <= target + 50
    BY <1>1, <1>2, <1>4, <1>5, <1>9, <1>10, <2>1
  <2> QED
    BY <1>3, <2>2
<1>11. ASSUME rate <= 27, optimized <= price PROVE cpl # "gap"
  <2>1. rate * per <= 27 * per
    BY <1>1, <1>4, <1>11
  <2>2. price <= 27 * (target + 50)
    BY <1>1, <1>2, <1>4, <1>9, <1>11, <2>1
  <2>3. paid <= price
    BY <1>11
  <2>4. paid \in Nat
    OBVIOUS
  <2> HIDE DEF paid
  <2>5. 27 * (target + 50) >= paid
    BY <1>1, <2>2, <2>3, <2>4
  <2> QED
    BY <1>3, <2>5
<1> QED
  BY <1>2, <1>8, <1>10, <1>11 DEF rate, leads

-----------------------------------------------------------------------------
(* The plan and its edits.                                                 *)

PlanSpec == PlanInit /\ [][PlanNext]_planVars

\* A plan is what build_plan makes of its request, but for the months.
Built(p) ==
  /\ p.asked \in Requests
  /\ p = [BuildPlan(p.asked) EXCEPT !.pacing = p.pacing]

\* What the edits of a manager are: known fields and known months, none below zero.
EditsSound ==
  /\ \A f \in DOMAIN corrections : corrections[f] \in Nat
  /\ DOMAIN paced \subseteq 1..Months
  /\ \A m \in DOMAIN paced : paced[m] \in Nat

PlanInv ==
  /\ EditsSound
  /\ plan.available =>
       /\ Built(plan) /\ picked \subseteq plan.asked.words
       /\ plan.pacing \in [1..Months -> Int] /\ MonthsAddUp(plan, picked)

\* The fields of a plan, as it is made and as it is kept.
LEMMA BuiltFields ==
  ASSUME NEW r \in Requests, NEW p, p = BuildPlan(r)
  PROVE  /\ p.available /\ p.asked = r /\ p.allocation = Allocation(r)
         /\ p.clicks = SumOf(Allocation(r), LAMBDA x : x.clicks)
         /\ p.pacing = Pacing(r.budget, Searches(r.words))
         /\ p.phases = <<SumOf(Only(Allocation(r), 1), LAMBDA x : x.budget),
                         r.budget - SumOf(Only(Allocation(r), 1), LAMBDA x : x.budget)>>
         /\ p.anchor = Anchor(r) /\ p.blended = Blended(r, Allocation(r))
         /\ p.optimized = Optimized(Allocation(r))
         /\ p.price = IF p.blended > 0 THEN p.blended ELSE p.optimized
         /\ p.realism = Realism(r, p.clicks)
         /\ p.cpl = CplStatus(r, p.price, p.optimized) /\ p.reverse = GoalPlan(r, p.price)
         /\ p = [p EXCEPT !.pacing = p.pacing]
         /\ DOMAIN p = {"available", "asked", "allocation", "clicks", "pacing", "phases", "anchor",
                        "blended", "optimized", "price", "realism", "cpl", "reverse"}
BY DEF BuildPlan

LEMMA BuiltIs ==
  ASSUME NEW p, Built(p), NEW r, r = p.asked
  PROVE  /\ r \in Requests /\ p.available /\ p.allocation = Allocation(r)
         /\ p.clicks = SumOf(Allocation(r), LAMBDA x : x.clicks)
         /\ p.phases = <<SumOf(Only(Allocation(r), 1), LAMBDA x : x.budget),
                         r.budget - SumOf(Only(Allocation(r), 1), LAMBDA x : x.budget)>>
         /\ p.anchor = Anchor(r) /\ p.blended = Blended(r, Allocation(r))
         /\ p.optimized = Optimized(Allocation(r))
         /\ p.price = IF p.blended > 0 THEN p.blended ELSE p.optimized
         /\ p.realism = Realism(r, p.clicks)
         /\ p.cpl = CplStatus(r, p.price, p.optimized) /\ p.reverse = GoalPlan(r, p.price)
<1> DEFINE q == BuildPlan(r)
<1>1. r \in Requests /\ p = [q EXCEPT !.pacing = p.pacing]
  BY DEF Built
<1> HIDE DEF q
<1>2. /\ p.available = q.available /\ p.asked = q.asked /\ p.allocation = q.allocation
      /\ p.clicks = q.clicks /\ p.phases = q.phases /\ p.anchor = q.anchor
      /\ p.blended = q.blended /\ p.optimized = q.optimized /\ p.price = q.price
      /\ p.realism = q.realism /\ p.cpl = q.cpl /\ p.reverse = q.reverse
  <2>1. DOMAIN q = {"available", "asked", "allocation", "clicks", "pacing", "phases", "anchor",
                    "blended", "optimized", "price", "realism", "cpl", "reverse"}
    BY <1>1, BuiltFields DEF q
  <2> QED
    BY <1>1, <2>1
<1>3. /\ q.available /\ q.allocation = Allocation(r)
      /\ q.clicks = SumOf(Allocation(r), LAMBDA x : x.clicks)
      /\ q.phases = <<SumOf(Only(Allocation(r), 1), LAMBDA x : x.budget),
                         r.budget - SumOf(Only(Allocation(r), 1), LAMBDA x : x.budget)>>
      /\ q.anchor = Anchor(r) /\ q.blended = Blended(r, Allocation(r))
      /\ q.optimized = Optimized(Allocation(r))
      /\ q.price = IF q.blended > 0 THEN q.blended ELSE q.optimized
      /\ q.realism = Realism(r, q.clicks)
      /\ q.cpl = CplStatus(r, q.price, q.optimized) /\ q.reverse = GoalPlan(r, q.price)
  BY <1>1, BuiltFields DEF q
<1> QED
  BY <1>1, <1>2, <1>3

\* Searches are natural numbers.
LEMMA SearchesIs ==
  ASSUME NEW r \in Requests, NEW words \in SUBSET r.words
  PROVE  Searches(words) \in [1..Months -> Nat]
<1> DEFINE known == {w \in words : w.volumes # <<>>}
<1>1. /\ IsFiniteSet(r.words)
      /\ \A w \in known : w.volumes \in [1..Months -> Nat]
  BY MediaPlanAssumption
<1>2. IsFiniteSet(known)
  BY <1>1, FS_Subset
<1>3. ASSUME NEW m \in 1..Months PROVE Total([w \in known |-> w.volumes[m]]) \in Nat
  <2> DEFINE f == [w \in known |-> w.volumes[m]]
  <2>1. \A w \in known : f[w] \in Nat
    BY <1>1
  <2>2. DOMAIN f = known
    OBVIOUS
  <2> HIDE DEF f, known
  <2>3. Total(f) \in Nat
    BY <1>2, <2>1, <2>2, TotalIs, SumNat
  <2> QED
    BY <2>3 DEF f
<1> QED
  BY <1>3 DEF Searches

\* Months paced by keywords follow them.
LEMMA MonthsFollow ==
  ASSUME NEW r \in Requests, NEW words \in SUBSET r.words, NEW p, p.asked = r,
         p.pacing = Pacing(r.budget, Searches(words))
  PROVE  p.pacing \in [1..Months -> Int] /\ MonthsAddUp(p, words)
<1> DEFINE s == Searches(words)
           b == r.budget
           q == p.pacing
           A == Total(s)
<1>1. s \in [1..Months -> Nat] /\ b \in Nat \ {0} /\ Months \in Nat
  BY SearchesIs, MediaPlanAssumption
<1>2. /\ q \in [1..Months -> Int] /\ Total(q) = b
      /\ EveryMonthCovered(b) => \A m \in 1..Months : q[m] >= 0
      /\ A \in Nat
      /\ A > 0 => \A m \in 1..Months :
              /\ 2 * (q[m] * A) - 2 * (b * s[m]) <= Months * A
              /\ 2 * (b * s[m]) - 2 * (q[m] * A) <= Months * A
  <2> HIDE DEF s, b
  <2>1. q = Pacing(b, s)
    BY DEF s, b
  <2> QED
    BY <1>1, <2>1, PacingParts
<1> HIDE DEF s, b, q, A
<1>3. ASSUME A > 0, NEW m \in 1..Months
      PROVE  2 * (q[m] * A - b * s[m]) <= Months * A /\ -2 * (q[m] * A - b * s[m]) <= Months * A
  <2> DEFINE x == q[m] * A
             y == b * s[m]
  <2>1. x \in Int /\ y \in Int /\ 2 * x - 2 * y <= Months * A /\ 2 * y - 2 * x <= Months * A
    BY <1>1, <1>2, <1>3
  <2>2. Months * A \in Int
    BY <1>1, <1>2
  <2> HIDE DEF x, y
  <2>3. 2 * (x - y) <= Months * A /\ -2 * (x - y) <= Months * A
    BY <2>1, <2>2
  <2> QED
    BY <2>3 DEF x, y
<1>4. MonthsAddUp(p, words)
  BY <1>2, <1>3 DEF MonthsAddUp, s, b, q, A
<1> QED
  BY <1>2, <1>4 DEF q

\* Keywords without figures say nothing about the months.
LEMMA MonthsStay ==
  ASSUME NEW r \in Requests, NEW words \in SUBSET r.words, \A w \in words : w.volumes = <<>>,
         NEW p, NEW old, MonthsAddUp(p, old)
  PROVE  MonthsAddUp(p, words)
<1> DEFINE s == Searches(words)
<1>1. \A m \in 1..Months : s[m] = 0
  <2> TAKE m \in 1..Months
  <2> DEFINE known == {w \in words : w.volumes # <<>>}
  <2>1. known = {}
    OBVIOUS
  <2>2. s[m] = Total([w \in known |-> w.volumes[m]])
    BY DEF Searches
  <2>3. Total([w \in known |-> w.volumes[m]]) = 0
    <3> DEFINE f == [w \in known |-> w.volumes[m]]
    <3>1. DOMAIN f = {}
      BY <2>1
    <3> HIDE DEF f
    <3> QED
      BY <3>1, TotalIs, SumEmpty DEF f
  <2> QED
    BY <2>2, <2>3
<1>2. Total(s) = 0
  <2>1. DOMAIN s = 1..Months /\ Months \in Nat
    BY MediaPlanAssumption DEF Searches
  <2> HIDE DEF s
  <2>2. IsFiniteSet(1..Months)
    BY <2>1, FS_Interval
  <2>3. Total(s) = SumFunctionOnSet(s, 1..Months)
    BY <2>1, TotalIs
  <2> QED
    <3>1. (\A m \in 1..Months : s[m] = 0) /\ \A m \in 1..Months : s[m] \in Nat
      BY <1>1 DEF s
    <3> QED
      BY <2>2, <2>3, <3>1, SumNat
<1> QED
  BY <1>2 DEF MonthsAddUp

\* The invariant holds at first, is kept by every action, and says that a plan is
\* consistent.
LEMMA PlanStarts == PlanInit => PlanInv
BY DEF PlanInit, PlanInv, EditsSound, NoPlan

LEMMA PlanKept == PlanInv /\ [PlanNext]_planVars => PlanInv'
<1> SUFFICES ASSUME PlanInv, [PlanNext]_planVars PROVE PlanInv'
  OBVIOUS
<1> USE DEF PlanInv
<1>1. CASE Generate
  <2>1. PICK r \in Requests : plan' = BuildPlan(r) /\ picked' = r.words /\ corrections' = <<>> /\ paced' = <<>>
    BY <1>1 DEF Generate
  <2>2. EditsSound'
    BY <2>1 DEF EditsSound
  <2>3. /\ plan'.asked = r /\ plan'.pacing = Pacing(r.budget, Searches(r.words))
        /\ plan' = [plan' EXCEPT !.pacing = plan'.pacing]
    BY <2>1, BuiltFields
  <2>4. Built(plan')
    BY <2>1, <2>3 DEF Built
  <2>5. plan'.pacing \in [1..Months -> Int] /\ MonthsAddUp(plan', r.words)
    BY <2>3, MonthsFollow
  <2> QED
    BY <2>1, <2>2, <2>3, <2>4, <2>5
<1>2. CASE EditKeywords
  <2>1. PICK words \in SUBSET plan.asked.words :
          picked' = words /\ plan' = Recomputed(plan, words)
    BY <1>2 DEF EditKeywords
  <2>2. plan.available /\ corrections' = corrections /\ paced' = paced
    BY <1>2 DEF EditKeywords
  <2>3. EditsSound'
    BY <2>2 DEF EditsSound
  <2>4. Built(plan) /\ plan.asked \in Requests
    BY <2>2 DEF Built
  <2>5. CASE \A w \in words : w.volumes = <<>>
    <3>1. plan' = plan
      BY <2>1, <2>5 DEF Recomputed
    <3>2. MonthsAddUp(plan, words)
      BY <2>2, <2>4, <2>5, MonthsStay
    <3> QED
      BY <2>1, <2>2, <2>3, <3>1, <3>2
  <2>6. CASE ~\A w \in words : w.volumes = <<>>
    <3> DEFINE months == Pacing(plan.asked.budget, Searches(words))
               q == BuildPlan(plan.asked)
    <3>1. plan' = [plan EXCEPT !.pacing = months]
      BY <2>1, <2>6 DEF Recomputed
    <3>2. plan = [q EXCEPT !.pacing = plan.pacing]
      BY <2>4 DEF Built
    <3>3. DOMAIN q = {"available", "asked", "allocation", "clicks", "pacing", "phases", "anchor",
                      "blended", "optimized", "price", "realism", "cpl", "reverse"}
      BY <2>4, BuiltFields
    <3> HIDE DEF months, q
    <3>4. plan'.asked = plan.asked /\ plan'.available = plan.available /\ plan'.pacing = months
      BY <3>1, <3>2, <3>3
    <3>5. plan' = [q EXCEPT !.pacing = plan'.pacing]
      BY <3>1, <3>2, <3>3, <3>4
    <3>6. Built(plan')
      BY <2>4, <3>4, <3>5 DEF Built, q
    <3>7. plan'.pacing \in [1..Months -> Int] /\ MonthsAddUp(plan', words)
      BY <2>4, <3>4, MonthsFollow DEF months
    <3> QED
      BY <2>1, <2>2, <2>3, <3>4, <3>6, <3>7
  <2> QED
    BY <2>5, <2>6
<1>3. CASE Correct
  <2>1. PICK field \in DOMAIN Corrections,
             value \in UNION {Corrections[f] : f \in DOMAIN Corrections} :
               /\ value \in Corrections[field]
               /\ corrections' = [f \in DOMAIN corrections \cup {field} |->
                                   IF f = field THEN value ELSE corrections[f]]
    BY <1>3 DEF Correct
  <2>2. plan' = plan /\ picked' = picked /\ paced' = paced
    BY <1>3 DEF Correct
  <2>3. value \in Nat
    BY <2>1, MediaPlanAssumption
  <2>4. EditsSound'
    BY <2>1, <2>2, <2>3 DEF EditsSound
  <2> QED
    BY <2>2, <2>4
<1>4. CASE Repace
  <2>1. PICK amounts \in MonthAmounts :
          paced' = [m \in {m \in DOMAIN amounts : m \in 1..Months /\ amounts[m] >= 0} |-> amounts[m]]
    BY <1>4 DEF Repace
  <2>2. plan' = plan /\ picked' = picked /\ corrections' = corrections
    BY <1>4 DEF Repace
  <2>3. \A m \in DOMAIN amounts : amounts[m] \in Int
    BY MediaPlanAssumption
  <2>4. EditsSound'
    BY <2>1, <2>2, <2>3 DEF EditsSound
  <2> QED
    BY <2>2, <2>4
<1>5. CASE UNCHANGED planVars
  BY <1>5 DEF planVars, EditsSound
<1> QED
  BY <1>1, <1>2, <1>3, <1>4, <1>5 DEF PlanNext

\* What a plan says, before anybody has edited anything, is consistent.
LEMMA PlanAddsUp ==
  ASSUME NEW p, Built(p)
  PROVE  GroupsAddUp(p) /\ RangeOrdered(p) /\ GoalMet(p)
<1> DEFINE r == p.asked
           rows == Allocation(r)
           clicks == SumOf(rows, LAMBDA x : x.clicks)
           first == SumOf(Only(rows, 1), LAMBDA x : x.budget)
<1>1. /\ r \in Requests /\ p.allocation = rows /\ p.clicks = clicks
      /\ p.phases = <<first, r.budget - first>>
      /\ p.blended = Blended(r, rows)
      /\ p.optimized = Optimized(rows)
      /\ p.price = IF p.blended > 0 THEN p.blended ELSE p.optimized
      /\ p.realism = Realism(r, p.clicks)
      /\ p.cpl = CplStatus(r, p.price, p.optimized) /\ p.reverse = GoalPlan(r, p.price)
  BY BuiltIs
<1>2. /\ clicks \in Nat /\ first \in Nat /\ p.optimized \in Nat /\ p.blended \in Nat
      /\ p.blended > 0 => clicks > 0 /\ p.blended = Rounded(100 * r.budget, clicks)
  BY <1>1, Figures
<1>3. GroupsAddUp(p)
  <2>1. /\ SumOf(rows, LAMBDA x : x.budget) = r.budget
        /\ \A i \in DOMAIN rows : IsRow(rows[i])
    BY <1>1, AllocationParts
  <2>2. r.budget \in Nat
    BY <1>1, MediaPlanAssumption
  <2>3. p.phases[1] + p.phases[2] = r.budget
    <3> HIDE DEF r, first
    <3> QED
      BY <1>1, <1>2, <2>2
  <2>4. \A i \in DOMAIN rows : rows[i].budget >= 0
    BY <2>1 DEF IsRow
  <2>5. SumOf(p.allocation, LAMBDA x : x.budget) = r.budget
    BY <1>1, <2>1
  <2> HIDE DEF rows
  <2> QED
    BY <1>1, <2>3, <2>4, <2>5 DEF GroupsAddUp
<1> HIDE DEF clicks, first, rows
<1>4. RangeOrdered(p)
  <2> SUFFICES ASSUME 3 <= p.blended, p.blended <= p.realism.price
               PROVE  p.realism.low <= p.realism.high
    BY DEF RangeOrdered
  <2>1. clicks \in Nat \ {0} /\ p.blended = Rounded(100 * r.budget, clicks)
    BY <1>2
  <2>2. p.realism = Realism(r, clicks)
    BY <1>1
  <2> HIDE DEF r
  <2> QED
    BY <1>1, <2>1, <2>2, RealismOrdered
<1>5. GoalMet(p)
  <2>1. p.price \in Nat
    BY <1>1, <1>2
  <2> SUFFICES ASSUME p.reverse.feasible
               PROVE  /\ p.price >= 50 /\ p.asked.rate <= 100 =>
                           100 * p.asked.leads
                             <= (((100 * p.reverse.budget) \div p.price) + 1) * p.asked.rate + 50
                      /\ p.asked.rate <= 4 => p.cpl = "beating"
                      /\ p.asked.rate <= 27 /\ p.optimized <= p.price => p.cpl # "gap"
    BY DEF GoalMet
  <2> QED
    BY <1>1, <1>2, <2>1, GoalHolds
<1> QED
  BY <1>3, <1>4, <1>5

\* The strategy follows from its own figures.
LEMMA StrategyHolds ==
  ASSUME NEW p, Built(p), EditsSound
  PROVE  /\ StrategyConsistent(p)
         /\ "budget" \notin DOMAIN corrections => Strategy(p).budget = p.asked.budget
<1> DEFINE r == p.asked
           budget == Corrected("budget", r.budget)
           price == Corrected("price", IF p.realism.price > 0 THEN p.realism.price
                                       ELSE IF p.blended > 0 THEN p.blended ELSE p.anchor)
           rate == Corrected("rate", r.rate)
           clicks == IF budget > 0 /\ price > 0 THEN Rounded(100 * budget, price) ELSE p.clicks
           leads == Rounded(clicks * rate, 100)
           s == Strategy(p)
<1>1. s = [budget |-> budget, price |-> price, clicks |-> clicks, leads |-> leads,
           perLead |-> IF leads = 0 THEN 0 ELSE Rounded(budget, leads)]
  BY DEF Strategy
<1>2. /\ r \in Requests /\ p.clicks \in Nat /\ p.blended \in Nat /\ p.realism.price \in Nat
      /\ p.anchor \in Nat
  <2>1. /\ r \in Requests /\ p.clicks = SumOf(Allocation(r), LAMBDA x : x.clicks)
        /\ p.blended = Blended(r, Allocation(r)) /\ p.realism = Realism(r, p.clicks)
        /\ p.anchor = Anchor(r)
    BY BuiltIs
  <2> HIDE DEF r
  <2>2. p.clicks \in Nat /\ p.blended \in Nat
    BY <2>1, Figures
  <2>3. p.realism.price \in Nat
    BY <2>1, RealismPrice
  <2>4. p.anchor \in Nat
    BY <2>1, AnchorPositive
  <2> QED
    BY <2>1, <2>2, <2>3, <2>4
<1>3. r.budget \in Nat /\ r.rate \in Nat
  BY <1>2, MediaPlanAssumption
<1>4. \A field : \A auto \in Nat : Corrected(field, auto) \in Nat
  BY DEF Corrected, EditsSound
<1>5. budget \in Nat /\ rate \in Nat /\ price \in Nat
  BY <1>2, <1>3, <1>4
<1> HIDE DEF s, budget, price, rate
<1>6. /\ clicks \in Nat
      /\ budget > 0 /\ price > 0 => /\ 2 * (100 * budget) - 2 * (price * clicks) <= price
                                    /\ 2 * (price * clicks) - 2 * (100 * budget) <= price
  <2>1. CASE budget > 0 /\ price > 0
    <3> DEFINE n == 100 * budget
    <3>1. n \in Nat /\ price \in Nat \ {0}
      BY <1>5, <2>1
    <3> HIDE DEF n
    <3>2. /\ Rounded(n, price) \in Nat
          /\ 2 * (price * Rounded(n, price)) - 2 * n <= price
          /\ 2 * n - 2 * (price * Rounded(n, price)) <= price
      BY <3>1, RoundedClose, RoundedNat
    <3> QED
      BY <2>1, <3>2 DEF n
  <2>2. CASE ~(budget > 0 /\ price > 0)
    BY <1>2, <2>2
  <2> QED
    BY <2>1, <2>2
<1> HIDE DEF clicks
<1>7. leads \in Nat
  <2>1. clicks * rate \in Nat
    BY <1>5, <1>6
  <2> QED
    BY <2>1, RoundedNat
<1> HIDE DEF leads
<1>8. leads > 0 => /\ Rounded(budget, leads) \in Nat
                   /\ 2 * (leads * Rounded(budget, leads)) - 2 * budget <= leads
                   /\ 2 * budget - 2 * (leads * Rounded(budget, leads)) <= leads
  BY <1>5, <1>7, RoundedClose, RoundedNat
<1>9. /\ s.budget = budget /\ s.price = price /\ s.clicks = clicks /\ s.leads = leads
      /\ s.perLead = IF leads = 0 THEN 0 ELSE Rounded(budget, leads)
  BY <1>1
<1>10. ASSUME s.budget > 0, s.price > 0
       PROVE  /\ 2 * (100 * s.budget - s.clicks * s.price) <= s.price
              /\ -2 * (100 * s.budget - s.clicks * s.price) <= s.price
  <2> DEFINE x == price * clicks
  <2>1. x \in Int /\ clicks * price = x
    BY <1>5, <1>6
  <2>2. 2 * (100 * budget) - 2 * x <= price /\ 2 * x - 2 * (100 * budget) <= price
    BY <1>6, <1>9, <1>10
  <2> HIDE DEF x
  <2>3. 2 * (100 * budget - x) <= price /\ -2 * (100 * budget - x) <= price
    BY <1>5, <2>1, <2>2
  <2> QED
    BY <1>9, <2>1, <2>3
<1>11. ASSUME s.leads > 0
       PROVE  /\ 2 * (s.budget - s.leads * s.perLead) <= s.leads
              /\ -2 * (s.budget - s.leads * s.perLead) <= s.leads
  <2> DEFINE x == leads * Rounded(budget, leads)
  <2>1. Rounded(budget, leads) \in Nat /\ 2 * x - 2 * budget <= leads /\ 2 * budget - 2 * x <= leads
    BY <1>8, <1>9, <1>11
  <2>2. x \in Int
    BY <1>7, <2>1
  <2>3. s.leads * s.perLead = x
    BY <1>7, <1>9, <1>11
  <2> HIDE DEF x
  <2>4. 2 * (budget - x) <= leads /\ -2 * (budget - x) <= leads
    BY <1>5, <1>7, <2>1, <2>2
  <2> QED
    BY <1>9, <2>3, <2>4
<1>12. "budget" \notin DOMAIN corrections => s.budget = r.budget
  BY <1>9 DEF budget, Corrected
<1> QED
  BY <1>10, <1>11, <1>12 DEF StrategyConsistent, s

LEMMA PlanHolds == PlanInv => PlanConsistent
<1> SUFFICES ASSUME PlanInv, plan.available PROVE PlanConsistent
  BY DEF PlanConsistent
<1>1. /\ EditsSound /\ Built(plan) /\ MonthsAddUp(plan, picked)
      /\ plan.pacing \in [1..Months -> Int]
  BY DEF PlanInv
<1>2. GroupsAddUp(plan) /\ RangeOrdered(plan) /\ GoalMet(plan)
  BY <1>1, PlanAddsUp
<1>3. /\ StrategyConsistent(plan)
      /\ "budget" \notin DOMAIN corrections => Strategy(plan).budget = plan.asked.budget
  BY <1>1, StrategyHolds
<1>4. ASSUME NEW m \in 1..Months, m \in DOMAIN paced \/ EveryMonthCovered(plan.asked.budget)
      PROVE  ShownPacing[m] >= 0
  <2>1. CASE m \in DOMAIN paced
    BY <1>1, <2>1 DEF ShownPacing, EditsSound
  <2>2. CASE m \notin DOMAIN paced
    BY <1>1, <1>4, <2>2 DEF ShownPacing, MonthsAddUp
  <2> QED
    BY <2>1, <2>2
<1>5. ASSUME paced = <<>>, "budget" \notin DOMAIN corrections
      PROVE  Total(ShownPacing) = Strategy(plan).budget
  <2>1. \A m \in 1..Months : m \notin DOMAIN paced
    BY <1>5
  <2>2. ShownPacing = plan.pacing
    BY <1>1, <2>1 DEF ShownPacing
  <2>3. Total(plan.pacing) = plan.asked.budget
    BY <1>1 DEF MonthsAddUp
  <2> QED
    BY <1>3, <1>5, <2>2, <2>3
<1>6. PacingShown(plan)
  BY <1>4, <1>5 DEF PacingShown
<1> QED
  BY <1>1, <1>2, <1>3, <1>6 DEF PlanConsistent

\* However the rounding falls, whatever a plan is asked, and however its keywords, figures and
\* months are edited: groups, phases and months add up to the budget, the months follow the
\* searches of the keywords that are left, and the planners and the strategy agree
\* (build_plan, _recompute_demand, build_final_strategy, effective_pacing).
THEOREM PlanSound == PlanSpec => []PlanConsistent
BY PlanStarts, PlanKept, PlanHolds, PTL DEF PlanSpec
=============================================================================
