------------------------ MODULE ReleaseLifecycleProofs ------------------------
(* A version has one owner, one release per run and, where it is published, the *)
(* binding of its image, for any number of overlapping runs, releases and       *)
(* edits by maintainers.                                                        *)
EXTENDS ReleaseLifecycle, FiniteSetTheorems, TLAPS

-------------------------------------------------------------------------------
\* Where the requests are in the workflow.

Steps == Writes \cup Reads \cup {"policy", "tip", "no tag", "tag", "no release", "image", "outputs"}

Marked(step, k) ==
    /\ step = "create tag" <=> k = 10
    /\ step = "create draft" <=> k = 14
    /\ step = "push" <=> k = 23
    /\ step = "bind" <=> k = 33
    /\ step = "upload bundle" <=> k = 45
    /\ step = "upload sums" <=> k = 47
    /\ step = "publish" <=> k = 54
    /\ step = "read published" <=> k = 55

\* The steps n + 1 to m of the workflow.
Part(s, n, m) ==
    /\ s \in Seq(Steps) /\ n \in Nat /\ m \in Nat /\ Len(s) = m - n
    /\ \A k \in (n + 1)..m : Marked(s[k - n], k)

(* Parts that follow each other make a part.                                    *)
LEMMA Parts ==
    ASSUME NEW s, NEW t, NEW n, NEW m, NEW l, Part(s, n, m), Part(t, m, l)
    PROVE  Part(s \o t, n, l)
<1>1. /\ s \in Seq(Steps) /\ t \in Seq(Steps) /\ n \in Nat /\ m \in Nat /\ l \in Nat
      /\ Len(s) = m - n /\ Len(t) = l - m
  BY DEF Part
<1>2. /\ s \o t \in Seq(Steps) /\ Len(s \o t) = l - n
      /\ \A k \in 1..(l - n) : (s \o t)[k] = IF k <= m - n THEN s[k] ELSE t[k - (m - n)]
  BY <1>1
<1>3. ASSUME NEW k \in (n + 1)..l
      PROVE  Marked((s \o t)[k - n], k)
  <2>1. CASE k <= m
    <3>1. k \in (n + 1)..m /\ (s \o t)[k - n] = s[k - n]
      BY <1>1, <1>2, <2>1
    <3> QED
      BY <3>1 DEF Part
  <2>2. CASE k > m
    <3>1. k \in (m + 1)..l /\ (s \o t)[k - n] = t[k - m]
      BY <1>1, <1>2, <2>2
    <3> QED
      BY <3>1 DEF Part
  <2> QED
    BY <1>1, <2>1, <2>2
<1> QED
  BY <1>1, <1>2, <1>3 DEF Part

\* A part that starts at the first step gives the place of each step.
LEMMA Whole ==
    ASSUME NEW s, NEW m, Part(s, 0, m)
    PROVE  Len(s) = m /\ \A k \in 1..m : Marked(s[k], k) /\ s[k] \in Steps
<1>1. /\ s \in Seq(Steps) /\ m \in Nat /\ Len(s) = m - 0
      /\ \A k \in (0 + 1)..m : Marked(s[k - 0], k)
  BY Zenon DEF Part
<1>2. ASSUME NEW k \in 1..m PROVE Marked(s[k], k) /\ s[k] \in Steps
  <2> Len(s) = m
    BY <1>1
  <2>1. k \in (0 + 1)..m /\ k - 0 = k
    BY <1>1
  <2>2. Marked(s[k - 0], k)
    BY <1>1, <2>1, Zenon
  <2>3. s[k] \in Steps
    BY <1>1
  <2> QED
    BY <2>1, <2>2, <2>3
<1> QED
  BY <1>1, <1>2

(* Every command begins with the checks of trust.                               *)
LEMMA TrustPart == Part(Trust, 0, 3) /\ Part(Trust, 3, 6)
BY DEF Trust, Part, Marked, Steps, Writes, Reads

\* The checks of policy, main and tag, in each of the places they are made.
LEMMA TrustReservedPart ==
    /\ Part(TrustReserved, 10, 13)
    /\ Part(TrustReserved, 14, 17)
    /\ Part(TrustReserved, 19, 22)
    /\ Part(TrustReserved, 23, 26)
    /\ Part(TrustReserved, 27, 30)
    /\ Part(TrustReserved, 34, 37)
    /\ Part(TrustReserved, 39, 42)
    /\ Part(TrustReserved, 48, 51)
    /\ Part(TrustReserved, 55, 58)
<1>1. Part(TrustReserved, 10, 13)
  BY DEF TrustReserved, Part, Marked, Steps, Writes, Reads
<1>2. Part(TrustReserved, 14, 17)
  BY DEF TrustReserved, Part, Marked, Steps, Writes, Reads
<1>3. Part(TrustReserved, 19, 22)
  BY DEF TrustReserved, Part, Marked, Steps, Writes, Reads
<1>4. Part(TrustReserved, 23, 26)
  BY DEF TrustReserved, Part, Marked, Steps, Writes, Reads
<1>5. Part(TrustReserved, 27, 30)
  BY DEF TrustReserved, Part, Marked, Steps, Writes, Reads
<1>6. Part(TrustReserved, 34, 37)
  BY DEF TrustReserved, Part, Marked, Steps, Writes, Reads
<1>7. Part(TrustReserved, 39, 42)
  BY DEF TrustReserved, Part, Marked, Steps, Writes, Reads
<1>8. Part(TrustReserved, 48, 51)
  BY DEF TrustReserved, Part, Marked, Steps, Writes, Reads
<1>9. Part(TrustReserved, 55, 58)
  BY DEF TrustReserved, Part, Marked, Steps, Writes, Reads
<1> QED
  BY <1>1, <1>2, <1>3, <1>4, <1>5, <1>6, <1>7, <1>8, <1>9

\* reserve: the tag is step 10, the draft step 14.
LEMMA ReservePart == Part(Reserve, 3, 19)
<1> DEFINE s1 == Trust \o <<"tip", "no tag", "no release", "create tag">>
           s2 == s1 \o TrustReserved
           s3 == s2 \o <<"create draft">>
           s4 == s3 \o TrustReserved
           s5 == s4 \o <<"read reserved", "outputs">>
<1>1. Part(<<"tip", "no tag", "no release", "create tag">>, 6, 10)
  BY DEF Part, Marked, Steps, Writes, Reads
<1>2. Part(s1, 3, 10)
  BY <1>1, TrustPart, Parts
<1>3. Part(s2, 3, 13)
  BY <1>2, TrustReservedPart, Parts
<1>4. Part(<<"create draft">>, 13, 14)
  BY DEF Part, Marked, Steps, Writes, Reads
<1>5. Part(s3, 3, 14)
  BY <1>3, <1>4, Parts
<1>6. Part(s4, 3, 17)
  BY <1>5, TrustReservedPart, Parts
<1>7. Part(<<"read reserved", "outputs">>, 17, 19)
  BY DEF Part, Marked, Steps, Writes, Reads
<1>8. Part(s5, 3, 19)
  BY <1>6, <1>7, Parts
<1> QED
  BY <1>8 DEF Reserve

\* The checks of the image's attestation.
LEMMA AttestationPart == Part(VerifyAttestation, 23, 27)
<1>1. Part(<<"image">>, 26, 27)
  BY DEF Part, Marked, Steps, Writes, Reads
<1>2. Part(TrustReserved \o <<"image">>, 23, 27)
  BY TrustReservedPart, <1>1, Parts
<1> QED
  BY <1>2 DEF VerifyAttestation

\* bind: the request is step 33.
LEMMA BindPart == Part(Bind, 27, 34)
<1>1. Part(<<"image", "read reserved", "bind", "read bound">>, 30, 34)
  BY DEF Part, Marked, Steps, Writes, Reads
<1>2. Part(TrustReserved \o <<"image", "read reserved", "bind", "read bound">>, 27, 34)
  BY TrustReservedPart, <1>1, Parts
<1> QED
  BY <1>2 DEF Bind

\* The checks that the release is bound.
LEMMA VerifyBoundPart == Part(VerifyBound, 34, 39)
<1>1. Part(<<"image", "read bound">>, 37, 39)
  BY DEF Part, Marked, Steps, Writes, Reads
<1>2. Part(TrustReserved \o <<"image", "read bound">>, 34, 39)
  BY TrustReservedPart, <1>1, Parts
<1> QED
  BY <1>2 DEF VerifyBound

\* upload: the bundle is step 45, the sums step 47.
LEMMA UploadPart == Part(UploadAssets, 39, 48)
<1> DEFINE last == <<"image", "read bound", "upload bundle", "read bundle", "upload sums",
                     "read complete">>
<1>1. Part(last, 42, 48)
  BY DEF Part, Marked, Steps, Writes, Reads
<1>2. Part(TrustReserved \o last, 39, 48)
  BY <1>1, TrustReservedPart, Parts
<1> QED
  BY <1>2 DEF UploadAssets

\* publish: the request is step 54, its reading step 55.
LEMMA PublishPart == Part(Publish, 48, 59)
<1> DEFINE s1 == TrustReserved \o <<"image", "read complete", "publish", "read published">>
           s2 == s1 \o TrustReserved
<1>1. Part(<<"image", "read complete", "publish", "read published">>, 51, 55)
  BY DEF Part, Marked, Steps, Writes, Reads
<1>2. Part(s1, 48, 55)
  BY <1>1, TrustReservedPart, Parts
<1>3. Part(s2, 48, 58)
  BY <1>2, TrustReservedPart, Parts
<1>4. Part(<<"image">>, 58, 59)
  BY DEF Part, Marked, Steps, Writes, Reads
<1>5. Part(s2 \o <<"image">>, 48, 59)
  BY <1>3, <1>4, Parts
<1> QED
  BY <1>5 DEF Publish

(* The workflow makes each of its requests once, and these are their places.    *)
LEMMA WorkflowSteps ==
    /\ Len(Workflow) = 59
    /\ \A k \in 1..59 : Marked(Workflow[k], k) /\ Workflow[k] \in Steps
<1> DEFINE s1 == Trust \o Reserve
           s2 == s1 \o VerifyImageSource
           s3 == s2 \o <<"push">>
           s4 == s3 \o VerifyAttestation
           s5 == s4 \o Bind
           s6 == s5 \o VerifyBound
           s7 == s6 \o UploadAssets
           s8 == s7 \o Publish
<1>1. Part(s1, 0, 19)
  BY TrustPart, ReservePart, Parts
<1>2. Part(VerifyImageSource, 19, 22)
  BY TrustReservedPart DEF VerifyImageSource
<1>3. Part(s2, 0, 22)
  BY <1>1, <1>2, Parts
<1>4. Part(<<"push">>, 22, 23)
  BY DEF Part, Marked, Steps, Writes, Reads
<1>5. Part(s3, 0, 23)
  BY <1>3, <1>4, Parts
<1>6. Part(s4, 0, 27)
  BY <1>5, AttestationPart, Parts
<1>7. Part(s5, 0, 34)
  BY <1>6, BindPart, Parts
<1>8. Part(s6, 0, 39)
  BY <1>7, VerifyBoundPart, Parts
<1>9. Part(s7, 0, 48)
  BY <1>8, UploadPart, Parts
<1>10. Part(s8, 0, 59)
  BY <1>9, PublishPart, Parts
<1>11. Part(Workflow, 0, 59)
  BY <1>10 DEF Workflow
<1> QED
  BY <1>11, Whole

(* What the place of a run says of the step it is at and of those behind it.    *)
LEMMA Places ==
    ReleaseTypeOK => \A r \in Runs : /\ pc[r] \in 1..59 /\ Marked(Step(r), pc[r])
                                     /\ Past(r, "create tag") <=> pc[r] > 10
                                     /\ Past(r, "push") <=> pc[r] > 23
<1> SUFFICES ASSUME ReleaseTypeOK, NEW r \in Runs
             PROVE  /\ pc[r] \in 1..59 /\ Marked(Step(r), pc[r])
                    /\ Past(r, "create tag") <=> pc[r] > 10
                    /\ Past(r, "push") <=> pc[r] > 23
  OBVIOUS
<1>1. pc[r] \in 1..59
  BY WorkflowSteps DEF ReleaseTypeOK
<1>2. Marked(Step(r), pc[r])
  BY <1>1, WorkflowSteps DEF Step
<1>3. \A k \in 1..59 : (Workflow[k] = "create tag" <=> k = 10) /\ (Workflow[k] = "push" <=> k = 23)
  BY WorkflowSteps DEF Marked
<1>4. \A k \in 1..(pc[r] - 1) : k \in 1..59 /\ k < pc[r]
  BY <1>1
<1>5. /\ pc[r] > 10 => 10 \in 1..(pc[r] - 1)
      /\ pc[r] > 23 => 23 \in 1..(pc[r] - 1)
  BY <1>1
<1>6. Past(r, "create tag") <=> pc[r] > 10
  BY <1>3, <1>4, <1>5 DEF Past
<1>7. Past(r, "push") <=> pc[r] > 23
  BY <1>3, <1>4, <1>5 DEF Past
<1> QED
  BY <1>1, <1>2, <1>6, <1>7

-------------------------------------------------------------------------------
\* The inductive invariant.

\* A run starts at the first step, has succeeded at the last, and ends when it
\* loses an answer.
RunsEnd ==
    \A r \in Runs : /\ status[r] = "none" => pc[r] = 1
                    /\ status[r] = "succeeded" => pc[r] = 59
                    /\ late[r] => status[r] = "failed"

\* A release there is that names the run.
Of(release, r) ==
    release.state \in {"draft", "published"} /\ release.body \in {<<r, "reserved">>, <<r, "bound">>}

\* A run claims the version if it went on after its tag, if a release names it,
\* or if a lost request of it may still reach a release.
Claims(r) ==
    \/ status[r] \in {"running", "succeeded"} /\ pc[r] > 10
    \/ \E i \in Ids : Of(releases[i], r)
    \/ late[r] /\ pc[r] \in {14, 33, 45, 47, 54}

ClaimHoldsTag == \A r \in Runs : Claims(r) => pc[r] > 10 /\ tag = source[r]

OneClaim == \A q, r \in Runs : Claims(q) /\ Claims(r) => q = r

\* No release names a run that has yet to create one; afterwards one may.
NamedAfterDraft ==
    \A r \in Runs, i \in Ids :
        pc[r] < 14 \/ (pc[r] = 14 /\ (status[r] = "running" \/ late[r])) => ~Of(releases[i], r)

NamedKnown ==
    \A r \in Runs : pc[r] > 14 => id[r] \in Ids /\ \A i \in Ids : Of(releases[i], r) => i = id[r]

NamedOnce == \A r \in Runs, i, j \in Ids : Of(releases[i], r) /\ Of(releases[j], r) => i = j

\* What was read back as published is that for good.
PublishedStays == \A r \in Runs : pc[r] > 55 => releases[id[r]] = Published(<<r, "bound">>)

\* What is immutable is there, and names a run that has bound its image.
ImmutableIsBound ==
    \A i \in Ids : releases[i].immutable =>
        \E r \in Runs : /\ releases[i].state = "published" /\ releases[i].body = <<r, "bound">>
                        /\ tag = source[r] /\ pc[r] > 23

ReleaseInv ==
    /\ ReleaseTypeOK /\ RunsEnd /\ ClaimHoldsTag /\ OneClaim
    /\ NamedAfterDraft /\ NamedKnown /\ NamedOnce /\ PublishedStays /\ ImmutableIsBound

-------------------------------------------------------------------------------
(* Releases as values.                                                          *)
LEMMA ReleaseValues ==
    /\ \A names \in SUBSET (Names \cup {Alien}), body \in Bodies : Draft(body, names) \in Release
    /\ \A state \in {"unused", "deleted", "draft", "published"} : Blank(state) \in Release
    /\ \A r \in Runs : <<r, "reserved">> \in Bodies /\ <<r, "bound">> \in Bodies
    /\ Other \in Bodies
<1>1. /\ \A r \in Runs : <<r, "reserved">> \in Bodies /\ <<r, "bound">> \in Bodies
      /\ Other \in Bodies
  BY DEF Bodies
<1> QED
  BY <1>1 DEF Release, Draft, Blank, Names

(* Which runs a release names.                                                  *)
LEMMA WhoseRelease ==
    /\ \A state \in {"unused", "deleted"}, r \in Runs : ~Of(Blank(state), r)
    /\ \A r \in Runs : ~Of(Draft(Other, {}), r)
    /\ \A q, r \in Runs : Of(Draft(<<q, "reserved">>, {}), r) <=> q = r
    /\ \A state : ~Blank(state).immutable
    /\ \A body, names : ~Draft(body, names).immutable
<1>1. \A names, body : /\ Draft(body, names).state = "draft" /\ Draft(body, names).body = body
                       /\ ~Draft(body, names).immutable
  BY DEF Draft, Blank
<1>2. \A q, r : /\ <<q, "reserved">> # <<r, "bound">>
                /\ <<q, "reserved">> = <<r, "reserved">> <=> q = r
                /\ Other # <<r, "reserved">> /\ Other # <<r, "bound">>
  BY DEF Other
<1>3. \A state : Blank(state).state = state /\ ~Blank(state).immutable
  BY DEF Blank
<1> QED
  BY <1>1, <1>2, <1>3 DEF Of

-------------------------------------------------------------------------------
\* What every step does but the creations of the tag and the draft, and a recovery.

\* A run moves one step on at most, and not past a creation.
RunGoesOn(r) ==
    /\ id'[r] = id[r]
    /\ status[r] # "none" => source'[r] = source[r]
    /\ \/ pc'[r] = pc[r]
       \/ pc'[r] = pc[r] + 1 /\ status[r] = "running" /\ pc[r] \notin {10, 14}
    /\ status'[r] \in {"running", "succeeded"}
           => pc'[r] = 1 \/ status[r] \in {"running", "succeeded"}
    /\ late'[r] => late[r] \/ (status[r] = "running" /\ pc'[r] = pc[r])
    /\ pc[r] = 55 /\ pc'[r] = 56 => releases[id[r]] = Published(<<r, "bound">>)

\* A release comes to name a run, or becomes immutable, by a claimant's request.
ReleaseKept(i) ==
    /\ releases[i].immutable => releases'[i] = releases[i]
    /\ \A r \in Runs : Of(releases'[i], r) =>
           Of(releases[i], r) \/ (Claims(r) /\ pc[r] > 14 /\ i = id[r])
    /\ releases'[i].immutable => releases[i].immutable \/
           \E r \in Runs : /\ Claims(r) /\ pc[r] > 23
                           /\ releases'[i].state = "published" /\ releases'[i].body = <<r, "bound">>

Ordinary ==
    /\ tag' = tag \/ tag = NoTag
    /\ \A r \in Runs : RunGoesOn(r)
    /\ \A i \in Ids : ReleaseKept(i)

(* Such a step keeps who owns the version and what is published.                *)
LEMMA OrdinaryKeeps ==
    ASSUME ReleaseInv, Ordinary, ReleaseTypeOK', RunsEnd'
    PROVE  ReleaseInv'
<1> USE DEF ReleaseInv
<1>0. ASSUME NEW r \in Runs PROVE RunGoesOn(r)
  BY Zenon DEF Ordinary
<1>1. ASSUME NEW r \in Runs
      PROVE  /\ pc[r] \in 1..59 /\ pc'[r] \in 1..59 /\ source[r] \in 1..Commits
             /\ pc'[r] \in {pc[r], pc[r] + 1} /\ id'[r] = id[r]
             /\ pc[r] \in {10, 14} \/ status[r] # "running" => pc'[r] = pc[r]
             /\ pc[r] > 1 => source'[r] = source[r]
  <2>1. pc[r] \in 1..59 /\ pc'[r] \in 1..59 /\ source[r] \in 1..Commits
    BY WorkflowSteps DEF ReleaseTypeOK
  <2>2. pc[r] > 1 => status[r] # "none"
    BY <2>1 DEF RunsEnd
  <2>3. /\ id'[r] = id[r]
        /\ status[r] # "none" => source'[r] = source[r]
        /\ \/ pc'[r] = pc[r]
           \/ pc'[r] = pc[r] + 1 /\ status[r] = "running" /\ pc[r] \notin {10, 14}
    BY <1>0, Zenon DEF RunGoesOn
  <2> QED
    BY <2>1, <2>2, <2>3
<1>2. ASSUME NEW r \in Runs, Claims(r)' PROVE Claims(r)
  <2>1. CASE status'[r] \in {"running", "succeeded"} /\ pc'[r] > 10
    <3>1. status[r] \in {"running", "succeeded"}
      <4>1. pc'[r] # 1
        BY <1>1, <2>1
      <4> QED
        BY <1>0, <2>1, <4>1, Zenon DEF RunGoesOn
    <3>2. pc[r] > 10
      BY <1>1, <2>1
    <3> QED
      BY <3>1, <3>2 DEF Claims
  <2>2. CASE \E i \in Ids : Of(releases'[i], r)
    BY <2>2 DEF Ordinary, ReleaseKept, Claims
  <2>3. CASE late'[r] /\ pc'[r] \in {14, 33, 45, 47, 54}
    <3>1. late[r] \/ (status[r] = "running" /\ pc'[r] = pc[r])
      BY <1>0, <2>3, Zenon DEF RunGoesOn
    <3>2. late[r] => pc'[r] = pc[r]
      BY <1>1 DEF RunsEnd
    <3> QED
      BY <1>1, <2>3, <3>1, <3>2 DEF Claims
  <2> QED
    BY <1>2, <2>1, <2>2, <2>3 DEF Claims
<1>3. ASSUME NEW r \in Runs, tag = source[r], pc[r] > 10
      PROVE  tag' = source'[r] /\ pc'[r] > 10
  <2>1. tag # NoTag
    BY <1>1, <1>3 DEF NoTag
  <2> QED
    BY <1>1, <1>3, <2>1 DEF Ordinary
<1>4. ClaimHoldsTag' /\ OneClaim'
  BY <1>2, <1>3 DEF ClaimHoldsTag, OneClaim
<1>5. ASSUME NEW r \in Runs, NEW i \in Ids, Of(releases'[i], r)
      PROVE  Of(releases[i], r) \/ (pc[r] > 14 /\ i = id[r])
  BY <1>5 DEF Ordinary, ReleaseKept
<1>6. NamedAfterDraft'
  <2> SUFFICES ASSUME NEW r \in Runs, NEW i \in Ids, Of(releases'[i], r),
                      pc'[r] < 14 \/ (pc'[r] = 14 /\ (status'[r] = "running" \/ late'[r]))
               PROVE  FALSE
    BY DEF NamedAfterDraft
  <2>1. Of(releases[i], r)
    BY <1>1, <1>5
  <2>2. pc[r] = 14 /\ pc'[r] = 14
    BY <1>1, <2>1 DEF NamedAfterDraft
  <2>3. status[r] = "running" \/ late[r]
    <3>1. status[r] # "succeeded" /\ pc'[r] # 1
      BY <2>2 DEF RunsEnd
    <3>2. pc'[r] = 14 /\ (status'[r] = "running" \/ late'[r])
      BY <2>2
    <3> QED
      BY <1>0, <3>1, <3>2, Zenon DEF RunGoesOn
  <2> QED
    BY <2>1, <2>2, <2>3 DEF NamedAfterDraft
<1>7. NamedKnown'
  <2> SUFFICES ASSUME NEW r \in Runs, pc'[r] > 14
               PROVE  id'[r] \in Ids /\ \A i \in Ids : Of(releases'[i], r) => i = id'[r]
    BY DEF NamedKnown
  <2>1. pc[r] > 14
    BY <1>1
  <2> QED
    BY <1>1, <1>5, <2>1 DEF NamedKnown
<1>8. NamedOnce'
  BY <1>1, <1>5 DEF NamedOnce, NamedKnown
<1>9. PublishedStays'
  <2> SUFFICES ASSUME NEW r \in Runs, pc'[r] > 55
               PROVE  releases'[id'[r]] = Published(<<r, "bound">>)
    BY DEF PublishedStays
  <2>1. pc[r] > 54 /\ id'[r] = id[r] /\ id[r] \in Ids
    BY <1>1 DEF NamedKnown
  <2>2. releases[id[r]] = Published(<<r, "bound">>)
    <3>1. CASE pc[r] > 55
      BY <3>1 DEF PublishedStays
    <3>2. CASE pc[r] = 55 /\ pc'[r] = 56
      BY <1>0, <3>2, Zenon DEF RunGoesOn
    <3> QED
      BY <1>1, <3>1, <3>2
  <2>3. Published(<<r, "bound">>).immutable
    BY DEF Published
  <2> QED
    BY <2>1, <2>2, <2>3 DEF Ordinary, ReleaseKept
<1>10. ImmutableIsBound'
  <2> SUFFICES ASSUME NEW i \in Ids, releases'[i].immutable
               PROVE  \E r \in Runs : /\ releases'[i].state = "published"
                                      /\ releases'[i].body = <<r, "bound">>
                                      /\ tag' = source'[r] /\ pc'[r] > 23
    BY DEF ImmutableIsBound
  <2>1. PICK r \in Runs : /\ releases'[i].state = "published" /\ releases'[i].body = <<r, "bound">>
                          /\ tag = source[r] /\ pc[r] > 23
    <3>1. CASE releases[i].immutable
      BY <3>1 DEF Ordinary, ReleaseKept, ImmutableIsBound
    <3>2. CASE ~releases[i].immutable
      BY <3>2 DEF Ordinary, ReleaseKept, ClaimHoldsTag
    <3> QED
      BY <3>1, <3>2
  <2>2. tag' = source'[r] /\ pc'[r] > 23
    BY <1>1, <1>3, <2>1
  <2> QED
    BY <2>1, <2>2
<1> QED
  BY <1>4, <1>6, <1>7, <1>8, <1>9, <1>10

-------------------------------------------------------------------------------
\* What a request does to the releases.

(* A run that goes on at a request after its draft, or a lost request there,    *)
(* claims the version and knows its release.                                    *)
LEMMA Claimant ==
    ASSUME ReleaseInv, NEW r \in Runs, Running(r) \/ late[r], pc[r] \in {33, 45, 47, 54}
    PROVE  Claims(r) /\ id[r] \in Ids
BY DEF Claims, Running, ReleaseInv, NamedKnown

(* An edit of the claimant's own release.                                       *)
LEMMA OwnEdit ==
    ASSUME ReleaseInv, NEW r \in Runs, Claims(r), pc[r] > 14, Editable(id[r]),
           NEW new \in Release, releases' = [releases EXCEPT ![id[r]] = new],
           \A q \in Runs : Of(new, q) => q = r \/ Of(releases[id[r]], q),
           new.immutable => pc[r] > 23 /\ new.state = "published" /\ new.body = <<r, "bound">>
    PROVE  releases' \in [Ids -> Release] /\ \A i \in Ids : ReleaseKept(i)
<1>1. releases \in [Ids -> Release] /\ id[r] \in Ids
  BY DEF ReleaseInv, ReleaseTypeOK, NamedKnown
<1>2. releases' \in [Ids -> Release]
  BY <1>1
<1>3. ASSUME NEW i \in Ids PROVE ReleaseKept(i)
  <2>1. CASE i = id[r]
    <3>1. releases'[i] = new /\ ~releases[i].immutable
      BY <1>1, <2>1 DEF Editable
    <3> QED
      BY <2>1, <3>1 DEF ReleaseKept
  <2>2. CASE i # id[r]
    <3>1. releases'[i] = releases[i]
      BY <1>1, <2>2
    <3> QED
      BY <3>1 DEF ReleaseKept
  <2> QED
    BY <2>1, <2>2
<1> QED
  BY <1>2, <1>3

\* Binding an owner's draft changes no other release, and no published one.
LEMMA BindKeeps ==
    ASSUME ReleaseInv, NEW r \in Runs, Claims(r), pc[r] > 14, BindImage(r)
    PROVE  releases' \in [Ids -> Release] /\ \A i \in Ids : ReleaseKept(i)
<1> DEFINE new == [releases[id[r]] EXCEPT !.body = <<r, "bound">>, !.state = "draft"]
<1>1. releases \in [Ids -> Release] /\ id[r] \in Ids
  BY DEF ReleaseInv, ReleaseTypeOK, NamedKnown
<1>2. releases[id[r]] \in Release /\ ~releases[id[r]].immutable
  BY <1>1 DEF BindImage, Editable
<1>3. releases' = [releases EXCEPT ![id[r]] = new]
  BY <1>1 DEF BindImage
<1>4. new \in Release /\ ~new.immutable /\ new.body = <<r, "bound">>
  BY <1>2, ReleaseValues DEF Release
<1>5. \A q \in Runs : Of(new, q) => q = r
  BY <1>4 DEF Of
<1> HIDE DEF new
<1> QED
  BY <1>3, <1>4, <1>5, OwnEdit DEF BindImage

\* Neither does an upload to it.
LEMMA UploadKeeps ==
    ASSUME ReleaseInv, NEW r \in Runs, Claims(r), pc[r] > 14, NEW name \in Names, Upload(r, name)
    PROVE  releases' \in [Ids -> Release] /\ \A i \in Ids : ReleaseKept(i)
<1> DEFINE new == [releases[id[r]] EXCEPT !.assets = @ \cup {name}]
<1>1. releases \in [Ids -> Release] /\ id[r] \in Ids
  BY DEF ReleaseInv, ReleaseTypeOK, NamedKnown
<1>2. releases[id[r]] \in Release /\ ~releases[id[r]].immutable
  BY <1>1 DEF Upload, Editable
<1>3. releases' = [releases EXCEPT ![id[r]] = new]
  BY <1>1 DEF Upload
<1>4. /\ new \in Release /\ ~new.immutable
      /\ new.body = releases[id[r]].body /\ new.state = releases[id[r]].state
  BY <1>2 DEF Release
<1>5. \A q \in Runs : Of(new, q) => Of(releases[id[r]], q)
  BY <1>4 DEF Of
<1> HIDE DEF new
<1> QED
  BY <1>3, <1>4, <1>5, OwnEdit DEF Upload

\* Publishing it under its owner's tag keeps what is immutable bound.
LEMMA PublishKeeps ==
    ASSUME ReleaseInv, NEW r \in Runs, Claims(r), pc[r] > 23, PublishDraft(r)
    PROVE  releases' \in [Ids -> Release] /\ \A i \in Ids : ReleaseKept(i)
<1> DEFINE new == [releases[id[r]] EXCEPT !.body = <<r, "bound">>, !.state = "published",
                                          !.immutable = immutable]
<1>1. releases \in [Ids -> Release] /\ id[r] \in Ids /\ immutable \in BOOLEAN
      /\ pc[r] \in 1..59
  BY WorkflowSteps DEF ReleaseInv, ReleaseTypeOK, NamedKnown
<1>2. releases[id[r]] \in Release
  BY <1>1
<1>3. releases' = [releases EXCEPT ![id[r]] = new]
  BY <1>1 DEF PublishDraft
<1>4. new \in Release /\ new.state = "published" /\ new.body = <<r, "bound">>
  BY <1>1, <1>2, ReleaseValues DEF Release
<1>5. \A q \in Runs : Of(new, q) => q = r
  BY <1>4 DEF Of
<1>6. pc[r] > 14
  BY <1>1
<1> HIDE DEF new
<1> QED
  BY <1>3, <1>4, <1>5, <1>6, OwnEdit DEF PublishDraft

(* A new release takes an unused number.                                        *)
LEMMA DraftTypes ==
    ASSUME ReleaseTypeOK, NEW i \in Ids, NEW body \in Bodies, NewDraft(i, body)
    PROVE  /\ releases' \in [Ids -> Release]
           /\ releases[i] = Blank("unused") /\ releases'[i] = Draft(body, {})
           /\ \A j \in Ids : j # i => releases'[j] = releases[j]
<1>1. Draft(body, {}) \in Release
  BY ReleaseValues
<1>2. releases \in [Ids -> Release] /\ releases' = [releases EXCEPT ![i] = Draft(body, {})]
  BY DEF ReleaseTypeOK, NewDraft
<1> QED
  BY <1>1, <1>2 DEF NewDraft

-------------------------------------------------------------------------------
\* How a run moves.

\* The other runs stand still.
OthersStand(r) ==
    \A q \in Runs : q # r => /\ status'[q] = status[q] /\ pc'[q] = pc[q] /\ id'[q] = id[q]
                             /\ source'[q] = source[q] /\ late'[q] = late[q]

(* What a run does after a call.                                                *)
LEMMA Moves ==
    ASSUME ReleaseTypeOK, NEW r \in Runs, Running(r), Advance(r) \/ Stop(r)
    PROVE  /\ status' \in [Runs -> {"none", "running", "failed", "succeeded"}]
           /\ pc' \in [Runs -> 1..Len(Workflow)]
           /\ \A q \in Runs : q # r => status'[q] = status[q] /\ pc'[q] = pc[q]
           /\ \/ status'[r] = "failed" /\ pc'[r] = pc[r] /\ Stop(r)
              \/ status'[r] = "succeeded" /\ pc'[r] = pc[r] /\ pc[r] = 59
              \/ status'[r] = "running" /\ pc'[r] = pc[r] + 1
<1>1. /\ status \in [Runs -> {"none", "running", "failed", "succeeded"}]
      /\ pc \in [Runs -> 1..59] /\ Len(Workflow) = 59 /\ status[r] = "running"
  BY WorkflowSteps DEF ReleaseTypeOK, Running
<1>2. CASE Stop(r)
  BY <1>1, <1>2 DEF Stop
<1>3. CASE Advance(r) /\ pc[r] = 59
  BY <1>1, <1>3 DEF Advance
<1>4. CASE Advance(r) /\ pc[r] # 59
  <2>1. pc' = [pc EXCEPT ![r] = pc[r] + 1] /\ status' = status
    BY <1>1, <1>4 DEF Advance
  <2>2. pc[r] + 1 \in 1..59
    BY <1>1, <1>4
  <2> QED
    BY <1>1, <2>1, <2>2
<1> QED
  BY <1>2, <1>3, <1>4

(* A run that moves so ends as it should.                                       *)
LEMMA RunMoves ==
    ASSUME ReleaseTypeOK, RunsEnd, NEW r \in Runs, OthersStand(r), late' \in [Runs -> BOOLEAN],
           \/ status'[r] = "failed" /\ pc'[r] = pc[r]
           \/ status'[r] = "succeeded" /\ pc'[r] = pc[r] /\ pc[r] = 59 /\ ~late'[r]
           \/ status'[r] = "running" /\ pc'[r] = pc[r] + 1 /\ ~late'[r]
    PROVE  RunsEnd'
<1> SUFFICES ASSUME NEW q \in Runs
             PROVE  /\ status'[q] = "none" => pc'[q] = 1
                    /\ status'[q] = "succeeded" => pc'[q] = 59
                    /\ late'[q] => status'[q] = "failed"
  BY DEF RunsEnd
<1>1. CASE q # r
  BY <1>1 DEF OthersStand, RunsEnd
<1>2. CASE q = r
  BY <1>2
<1> QED
  BY <1>1, <1>2

(* The runs that stand still go on in the sense of an ordinary step.            *)
LEMMA StandingGoOn ==
    ASSUME ReleaseTypeOK, NEW r \in Runs, OthersStand(r)
    PROVE  \A q \in Runs : q # r => RunGoesOn(q)
<1> SUFFICES ASSUME NEW q \in Runs, q # r PROVE RunGoesOn(q)
  OBVIOUS
<1>1. /\ status'[q] = status[q] /\ pc'[q] = pc[q] /\ id'[q] = id[q]
      /\ source'[q] = source[q] /\ late'[q] = late[q]
  BY DEF OthersStand
<1>2. ~(pc[q] = 55 /\ pc'[q] = 56)
  BY <1>1
<1> QED
  BY <1>1, <1>2, Zenon DEF RunGoesOn

(* Where no release changes, every release is kept.                             *)
LEMMA SameReleases ==
    ASSUME releases' = releases
    PROVE  \A i \in Ids : ReleaseKept(i)
BY DEF ReleaseKept

-------------------------------------------------------------------------------
\* The steps of a run that leave the repository alone.

\* A run that starts claims nothing yet.
LEMMA StepDispatch ==
    ASSUME ReleaseInv, NEW r \in Runs, Dispatch(r)
    PROVE  ReleaseInv'
<1> USE DEF ReleaseInv
<1>1. /\ status[r] = "none" /\ UNCHANGED <<remote, edits, pc, id, late>>
      /\ status' = [status EXCEPT ![r] = "running"] /\ source' = [source EXCEPT ![r] = tip]
      /\ status \in [Runs -> {"none", "running", "failed", "succeeded"}]
      /\ source \in [Runs -> 1..Commits] /\ tip \in 1..Commits
      /\ pc[r] = 1
  BY DEF Dispatch, ReleaseTypeOK, RunsEnd
<1>2. ReleaseTypeOK'
  BY <1>1 DEF ReleaseTypeOK, remote
<1>3. OthersStand(r)
  BY <1>1 DEF OthersStand
<1>4. ~late[r]
  BY <1>1 DEF RunsEnd
<1>5. RunsEnd'
  BY <1>1, <1>4 DEF RunsEnd
<1>6. RunGoesOn(r)
  <2>1. pc'[r] = pc[r] /\ pc'[r] = 1 /\ id'[r] = id[r] /\ late'[r] = late[r]
    BY <1>1
  <2>2. ~(pc[r] = 55 /\ pc'[r] = 56)
    BY <2>1
  <2> QED
    BY <1>1, <2>1, <2>2, Zenon DEF RunGoesOn
<1>7. Ordinary
  BY <1>1, <1>3, <1>6, StandingGoOn, SameReleases DEF Ordinary, remote
<1> QED
  BY <1>2, <1>5, <1>7, OrdinaryKeeps

(* A check, a failure or the loss of an answer changes only how the run goes on.*)
LEMMA StepEnds ==
    ASSUME ReleaseInv, NEW r \in Runs, Fails(r) \/ Loses(r)
    PROVE  ReleaseInv'
<1> USE DEF ReleaseInv
<1>1. /\ Running(r) /\ Stop(r) /\ UNCHANGED <<remote, edits, source, id>>
      /\ late' \in [Runs -> BOOLEAN] /\ \A q \in Runs : q # r => late'[q] = late[q]
  BY DEF Fails, Loses, ReleaseTypeOK
<1>2. /\ status' \in [Runs -> {"none", "running", "failed", "succeeded"}]
      /\ pc' = pc /\ status'[r] = "failed"
      /\ \A q \in Runs : q # r => status'[q] = status[q]
  BY <1>1 DEF Stop, ReleaseTypeOK
<1>3. ReleaseTypeOK'
  BY <1>1, <1>2 DEF ReleaseTypeOK, remote
<1>4. OthersStand(r)
  BY <1>1, <1>2 DEF OthersStand
<1>5. RunsEnd'
  BY <1>1, <1>2, <1>4, RunMoves
<1>6. RunGoesOn(r)
  <2>1. /\ pc'[r] = pc[r] /\ id'[r] = id[r] /\ source'[r] = source[r] /\ status[r] = "running"
        /\ status'[r] \notin {"running", "succeeded"}
    BY <1>1, <1>2 DEF Running
  <2>2. ~(pc[r] = 55 /\ pc'[r] = 56)
    BY <2>1
  <2> QED
    BY <2>1, <2>2, Zenon DEF RunGoesOn
<1>7. Ordinary
  BY <1>1, <1>4, <1>6, StandingGoOn, SameReleases DEF Ordinary, remote
<1> QED
  BY <1>3, <1>5, <1>7, OrdinaryKeeps

\* The steps of a run that write nothing keep the invariant.
LEMMA StepChecks ==
    ASSUME ReleaseInv, NEW r \in Runs, Checks(r)
    PROVE  ReleaseInv'
<1> USE DEF ReleaseInv
<1>1. /\ Running(r) /\ Step(r) \notin Writes /\ UNCHANGED <<remote, edits, source, id, late>>
      /\ (Found(r) /\ Advance(r)) \/ Stop(r)
  BY DEF Checks
<1>2. /\ status' \in [Runs -> {"none", "running", "failed", "succeeded"}]
      /\ pc' \in [Runs -> 1..Len(Workflow)]
      /\ \A q \in Runs : q # r => status'[q] = status[q] /\ pc'[q] = pc[q]
      /\ \/ status'[r] = "failed" /\ pc'[r] = pc[r] /\ Stop(r)
         \/ status'[r] = "succeeded" /\ pc'[r] = pc[r] /\ pc[r] = 59
         \/ status'[r] = "running" /\ pc'[r] = pc[r] + 1
  BY <1>1, Moves
<1>3. ReleaseTypeOK'
  BY <1>1, <1>2 DEF ReleaseTypeOK, remote
<1>4. OthersStand(r)
  BY <1>1, <1>2 DEF OthersStand
<1>5. late' \in [Runs -> BOOLEAN] /\ ~late'[r] /\ status[r] = "running"
  BY <1>1 DEF ReleaseTypeOK, RunsEnd, Running
<1>6. RunsEnd'
  BY <1>2, <1>4, <1>5, RunMoves
<1>7. pc[r] \in 1..59 /\ Marked(Step(r), pc[r])
  BY Places
<1>8. pc[r] \notin {10, 14}
  BY <1>1, <1>7 DEF Marked, Writes
<1>9. pc[r] = 55 /\ pc'[r] = 56 => releases[id[r]] = Published(<<r, "bound">>)
  <2> SUFFICES ASSUME pc[r] = 55, pc'[r] = 56 PROVE releases[id[r]] = Published(<<r, "bound">>)
    OBVIOUS
  <2>1. Found(r)
    BY <1>1, <1>7 DEF Stop
  <2>2. Step(r) = "read published"
    BY <1>7 DEF Marked
  <2>3. SameRelease(releases[id[r]], Expected(r, "read published"))
    BY <2>1, <2>2 DEF Found, Reads
  <2>4. Expected(r, "read published") = Published(<<r, "bound">>)
    BY DEF Expected
  <2> QED
    BY <2>3, <2>4 DEF SameRelease
<1>10. RunGoesOn(r)
  <2>1. /\ pc'[r] \in {pc[r], pc[r] + 1} /\ id'[r] = id[r] /\ source'[r] = source[r]
        /\ late'[r] = late[r]
    BY <1>1, <1>2
  <2> QED
    BY <1>5, <1>8, <1>9, <2>1, Zenon DEF RunGoesOn
<1>11. Ordinary
  BY <1>1, <1>4, <1>10, StandingGoOn, SameReleases DEF Ordinary, remote
<1> QED
  BY <1>3, <1>6, <1>11, OrdinaryKeeps

-------------------------------------------------------------------------------
\* The requests.

(* Which request a run makes follows from its place.                            *)
LEMMA RequestPlaces ==
    ASSUME ReleaseTypeOK, NEW r \in Runs, Request(r)
    PROVE  \/ pc[r] = 10 /\ CreateTag(r)
           \/ pc[r] = 14 /\ CreateDraft(r)
           \/ pc[r] = 23 /\ Push(r)
           \/ pc[r] = 33 /\ BindImage(r)
           \/ pc[r] = 45 /\ Upload(r, "bundle")
           \/ pc[r] = 47 /\ Upload(r, "sums")
           \/ pc[r] = 54 /\ PublishDraft(r)
<1>1. Marked(Step(r), pc[r])
  BY Places
<1> QED
  BY <1>1 DEF Marked, Request

(* A request after the draft, answered or not, is an edit by a claimant.        *)
LEMMA RequestKeeps ==
    ASSUME ReleaseInv, NEW r \in Runs, Running(r) \/ late[r], Request(r), pc[r] \notin {10, 14}
    PROVE  /\ releases' \in [Ids -> Release] /\ anchors' \subseteq Runs /\ tag' = tag
           /\ pc[r] \in {23, 33, 45, 47, 54}
           /\ \A i \in Ids : ReleaseKept(i)
<1>1. ReleaseTypeOK /\ anchors \subseteq Runs /\ releases \in [Ids -> Release]
  BY DEF ReleaseInv, ReleaseTypeOK
<1>2. CASE pc[r] = 23 /\ Push(r)
  BY <1>1, <1>2, SameReleases DEF Push
<1>3. CASE pc[r] = 33 /\ BindImage(r)
  <2>1. Claims(r) /\ pc[r] > 14 /\ UNCHANGED <<tag, anchors>>
    BY <1>3, Claimant DEF BindImage
  <2> QED
    BY <1>1, <1>3, <2>1, BindKeeps
<1>4. CASE \/ pc[r] = 45 /\ Upload(r, "bundle")
           \/ pc[r] = 47 /\ Upload(r, "sums")
  <2>1. Claims(r) /\ pc[r] > 14 /\ UNCHANGED <<tag, anchors>>
    BY <1>4, Claimant DEF Upload
  <2>2. "bundle" \in Names /\ "sums" \in Names
    BY DEF Names
  <2> QED
    BY <1>1, <1>4, <2>1, <2>2, UploadKeeps
<1>5. CASE pc[r] = 54 /\ PublishDraft(r)
  <2>1. Claims(r) /\ pc[r] > 23 /\ UNCHANGED <<tag, anchors>>
    BY <1>5, Claimant DEF PublishDraft
  <2> QED
    BY <1>1, <1>5, <2>1, PublishKeeps
<1> QED
  BY <1>1, <1>2, <1>3, <1>4, <1>5, RequestPlaces

\* Requests that edit what the run owns keep the invariant.
LEMMA StepAnsweredEdit ==
    ASSUME ReleaseInv, NEW r \in Runs, Answered(r), pc[r] \notin {10, 14}
    PROVE  ReleaseInv'
<1> USE DEF ReleaseInv
<1>1. /\ Running(r) /\ Request(r) /\ UNCHANGED <<tip, immutable, edits, source, late>>
      /\ Advance(r) \/ Stop(r)
  BY DEF Answered
<1>2. Step(r) # "create draft"
  BY Places DEF Marked
<1>3. id' = id
  BY <1>2 DEF Answered, ReleaseTypeOK
<1>4. /\ releases' \in [Ids -> Release] /\ anchors' \subseteq Runs /\ tag' = tag
      /\ pc[r] \in {23, 33, 45, 47, 54}
      /\ \A i \in Ids : ReleaseKept(i)
  BY <1>1, RequestKeeps
<1>5. /\ status' \in [Runs -> {"none", "running", "failed", "succeeded"}]
      /\ pc' \in [Runs -> 1..Len(Workflow)]
      /\ \A q \in Runs : q # r => status'[q] = status[q] /\ pc'[q] = pc[q]
      /\ \/ status'[r] = "failed" /\ pc'[r] = pc[r]
         \/ status'[r] = "succeeded" /\ pc'[r] = pc[r] /\ pc[r] = 59
         \/ status'[r] = "running" /\ pc'[r] = pc[r] + 1
  BY <1>1, Moves
<1>6. ReleaseTypeOK'
  BY <1>1, <1>3, <1>4, <1>5 DEF ReleaseTypeOK
<1>7. OthersStand(r)
  BY <1>1, <1>3, <1>5 DEF OthersStand
<1>8. late' \in [Runs -> BOOLEAN] /\ ~late'[r] /\ status[r] = "running"
  BY <1>1 DEF ReleaseTypeOK, RunsEnd, Running
<1>9. RunsEnd'
  BY <1>5, <1>7, <1>8, RunMoves
<1>10. RunGoesOn(r)
  <2>1. /\ pc'[r] = pc[r] \/ pc'[r] = pc[r] + 1
        /\ id'[r] = id[r] /\ source'[r] = source[r] /\ late'[r] = late[r] /\ pc[r] # 55
    BY <1>1, <1>3, <1>4, <1>5
  <2>2. pc[r] \notin {10, 14}
    BY <1>4
  <2> QED
    BY <1>8, <2>1, <2>2, Zenon DEF RunGoesOn
<1>11. Ordinary
  BY <1>4, <1>7, <1>10, StandingGoOn DEF Ordinary
<1> QED
  BY <1>6, <1>9, <1>11, OrdinaryKeeps

(* While there is no tag nobody claims the version and nothing is immutable.    *)
LEMMA NoTagNoClaim ==
    ASSUME ReleaseInv, tag = NoTag
    PROVE  /\ \A r \in Runs : ~Claims(r)
           /\ \A i \in Ids : ~releases[i].immutable
<1>1. \A r \in Runs : tag # source[r]
  BY DEF ReleaseInv, ReleaseTypeOK, NoTag
<1> QED
  BY <1>1 DEF ReleaseInv, ClaimHoldsTag, ImmutableIsBound

(* The creation of the tag makes its run the one claimant.                      *)
LEMMA StepCreatesTag ==
    ASSUME ReleaseInv, NEW r \in Runs, Answered(r), pc[r] = 10
    PROVE  ReleaseInv'
<1> USE DEF ReleaseInv
<1>1. /\ Running(r) /\ Request(r) /\ UNCHANGED <<tip, immutable, edits, source, late>>
  BY DEF Answered
<1>2. Step(r) = "create tag"
  BY Places DEF Marked
<1>3. tag = NoTag /\ tag' = source[r] /\ UNCHANGED <<releases, anchors>>
  BY <1>1, RequestPlaces DEF CreateTag
<1>4. id' = id /\ Advance(r)
  BY <1>2 DEF Answered, ReleaseTypeOK
<1>5. status' = status /\ pc' = [pc EXCEPT ![r] = 11] /\ pc' \in [Runs -> 1..59]
  BY <1>4, WorkflowSteps DEF Advance, ReleaseTypeOK
<1>6. ReleaseTypeOK'
  BY <1>1, <1>3, <1>4, <1>5, WorkflowSteps DEF ReleaseTypeOK
<1>7. pc'[r] = 11 /\ status[r] = "running" /\ \A q \in Runs : q # r => pc'[q] = pc[q]
  BY <1>1, <1>5 DEF Running, ReleaseTypeOK
<1>8. RunsEnd'
  BY <1>1, <1>5, <1>7 DEF RunsEnd
<1>9. ASSUME NEW q \in Runs, Claims(q)' PROVE q = r
  <2> SUFFICES ASSUME q # r PROVE Claims(q)
    BY <1>3, NoTagNoClaim
  <2> QED
    BY <1>1, <1>3, <1>5, <1>7, <1>9 DEF Claims
<1>10. ClaimHoldsTag' /\ OneClaim'
  BY <1>1, <1>3, <1>7, <1>9 DEF ClaimHoldsTag, OneClaim
<1>11. NamedAfterDraft' /\ NamedKnown' /\ NamedOnce' /\ PublishedStays'
  <2>1. \A q \in Runs, i \in Ids : ~Of(releases[i], q)
    BY <1>3, NoTagNoClaim DEF Claims
  <2>2. \A q \in Runs : pc'[q] > 14 => pc[q] > 14 /\ q # r
    BY <1>7
  <2>3. \A q \in Runs : pc'[q] > 55 => pc[q] > 55
    BY <1>7
  <2> QED
    BY <1>3, <1>4, <2>1, <2>2, <2>3 DEF NamedAfterDraft, NamedKnown, NamedOnce, PublishedStays
<1>12. ImmutableIsBound'
  BY <1>3, NoTagNoClaim DEF ImmutableIsBound
<1> QED
  BY <1>6, <1>8, <1>10, <1>11, <1>12

(* The creation of the draft, answered or not, gives its run the one release    *)
(* that names it.                                                               *)
LEMMA DraftKeeps ==
    ASSUME ReleaseInv, ReleaseTypeOK', RunsEnd',
           NEW r \in Runs, pc[r] = 14, status[r] = "running" \/ late[r],
           NEW i \in Ids, NewDraft(i, <<r, "reserved">>),
           tag' = tag, source' = source, OthersStand(r),
           \/ status'[r] = "failed" /\ pc'[r] = 14 /\ ~late'[r]
           \/ status'[r] = "running" /\ pc'[r] = 15 /\ ~late'[r] /\ id'[r] = i
    PROVE  ReleaseInv'
<1> USE DEF ReleaseInv
<1>1. /\ releases[i] = Blank("unused") /\ releases'[i] = Draft(<<r, "reserved">>, {})
      /\ \A j \in Ids : j # i => releases'[j] = releases[j]
  BY DraftTypes, ReleaseValues
<1>2. Claims(r)
  BY DEF Claims
<1>3. ASSUME NEW q \in Runs, q # r
      PROVE  /\ status'[q] = status[q] /\ pc'[q] = pc[q] /\ id'[q] = id[q] /\ late'[q] = late[q]
             /\ \A j \in Ids : Of(releases'[j], q) => Of(releases[j], q)
  <2>1. \A j \in Ids : Of(releases'[j], q) => Of(releases[j], q)
    BY <1>1, <1>3, WhoseRelease
  <2> QED
    BY <1>3, <2>1 DEF OthersStand
<1>4. \A j \in Ids : Of(releases'[j], r) => j = i
  BY <1>1 DEF NamedAfterDraft
<1>5. ClaimHoldsTag' /\ OneClaim'
  <2>1. ASSUME NEW q \in Runs, Claims(q)' PROVE Claims(q)
    BY <1>2, <1>3, <2>1 DEF Claims
  <2>2. \A q \in Runs : pc[q] > 10 => pc'[q] > 10
    BY <1>3
  <2> QED
    BY <2>1, <2>2 DEF ClaimHoldsTag, OneClaim
<1>6. NamedAfterDraft' /\ NamedKnown' /\ NamedOnce'
  <2>1. NamedAfterDraft'
    BY <1>3 DEF NamedAfterDraft
  <2>2. NamedKnown'
    BY <1>3, <1>4 DEF NamedKnown
  <2>3. NamedOnce'
    BY <1>3, <1>4 DEF NamedOnce
  <2> QED
    BY <2>1, <2>2, <2>3
<1>7. PublishedStays'
  <2> SUFFICES ASSUME NEW q \in Runs, pc'[q] > 55
               PROVE  releases'[id'[q]] = Published(<<q, "bound">>)
    BY DEF PublishedStays
  <2>1. q # r /\ pc[q] > 55 /\ id'[q] = id[q]
    BY <1>3
  <2>2. releases[id[q]] = Published(<<q, "bound">>) /\ id[q] \in Ids
    <3>1. pc[q] \in 1..59
      BY Places
    <3> QED
      BY <2>1, <3>1 DEF PublishedStays, NamedKnown
  <2>3. id[q] # i
    BY <1>1, <2>2, WhoseRelease DEF Published
  <2> QED
    BY <1>1, <2>1, <2>2, <2>3
<1>8. ImmutableIsBound'
  <2> SUFFICES ASSUME NEW j \in Ids, releases'[j].immutable
               PROVE  \E q \in Runs : /\ releases'[j].state = "published"
                                      /\ releases'[j].body = <<q, "bound">>
                                      /\ tag' = source'[q] /\ pc'[q] > 23
    BY DEF ImmutableIsBound
  <2>1. j # i
    BY <1>1, WhoseRelease
  <2>2. PICK q \in Runs : /\ releases[j].state = "published" /\ releases[j].body = <<q, "bound">>
                          /\ tag = source[q] /\ pc[q] > 23
    BY <1>1, <2>1 DEF ImmutableIsBound
  <2>3. pc'[q] > 23
    BY <1>3, <2>2
  <2> QED
    BY <1>1, <2>1, <2>2, <2>3
<1> QED
  BY <1>5, <1>6, <1>7, <1>8

\* The first draft of a run is the only release that names it.
LEMMA StepCreatesDraft ==
    ASSUME ReleaseInv, NEW r \in Runs, Answered(r), pc[r] = 14
    PROVE  ReleaseInv'
<1> USE DEF ReleaseInv
<1>1. /\ Running(r) /\ Request(r) /\ UNCHANGED <<tip, immutable, edits, source, late>>
  BY DEF Answered
<1>2. Step(r) = "create draft"
  BY Places DEF Marked
<1>3. CreateDraft(r)
  BY <1>1, RequestPlaces
<1>4. PICK i \in Ids : NewDraft(i, <<r, "reserved">>)
  BY <1>3 DEF CreateDraft
<1>5. /\ releases' \in [Ids -> Release]
      /\ releases[i] = Blank("unused") /\ releases'[i] = Draft(<<r, "reserved">>, {})
      /\ \A j \in Ids : j # i => releases'[j] = releases[j]
  BY <1>4, DraftTypes, ReleaseValues
<1>6. releases'[i] # releases[i]
  BY <1>5, WhoseRelease
<1>7. (CHOOSE j \in Ids : releases'[j] # releases[j]) = i
  BY <1>5, <1>6
<1>8. id' = [id EXCEPT ![r] = i]
  BY <1>2, <1>7 DEF Answered
<1>9. id' \in [Runs -> 0..MaxReleases] /\ id'[r] = i /\ \A q \in Runs : q # r => id'[q] = id[q]
  BY <1>8 DEF ReleaseTypeOK, Ids
<1>10. Advance(r)
  <2>1. Expected(r, "create draft") = Draft(<<r, "reserved">>, {})
    BY DEF Expected
  <2>2. SameRelease(releases'[id'[r]], Expected(r, Step(r)))
    BY <1>2, <1>5, <1>9, <2>1 DEF SameRelease
  <2> QED
    BY <2>2 DEF Answered
<1>11. /\ status' = status /\ pc' = [pc EXCEPT ![r] = 15] /\ pc' \in [Runs -> 1..59]
  BY <1>10, WorkflowSteps DEF Advance, ReleaseTypeOK
<1>12. ReleaseTypeOK'
  BY <1>1, <1>3, <1>5, <1>9, <1>11, WorkflowSteps DEF ReleaseTypeOK, CreateDraft
<1>13. /\ pc'[r] = 15 /\ status[r] = "running" /\ OthersStand(r)
  BY <1>1, <1>9, <1>11 DEF Running, ReleaseTypeOK, OthersStand
<1>14. late' \in [Runs -> BOOLEAN] /\ ~late'[r]
  BY <1>1, <1>13 DEF ReleaseTypeOK, RunsEnd
<1>15. RunsEnd'
  <2>1. status'[r] = "running" /\ pc'[r] = pc[r] + 1
    BY <1>11, <1>13
  <2> QED
    BY <1>13, <1>14, <2>1, RunMoves
<1>16. tag' = tag
  BY <1>3 DEF CreateDraft
<1> QED
  BY <1>1, <1>4, <1>9, <1>11, <1>12, <1>13, <1>14, <1>15, <1>16, DraftKeeps

(* A request whose answer was lost may take effect at any later time.           *)
LEMMA StepTakesEffect ==
    ASSUME ReleaseInv, NEW r \in Runs, TakesEffect(r)
    PROVE  ReleaseInv'
<1> USE DEF ReleaseInv
<1>1. /\ late[r] /\ Request(r) /\ UNCHANGED <<tip, immutable, edits, run>>
      /\ late' = [late EXCEPT ![r] = FALSE]
  BY DEF TakesEffect
<1>2. /\ late' \in [Runs -> BOOLEAN] /\ ~late'[r] /\ \A q \in Runs : q # r => late'[q] = late[q]
      /\ \A q \in Runs : late'[q] => late[q]
  BY <1>1 DEF ReleaseTypeOK
<1>3. UNCHANGED <<status, pc, source, id>> /\ status[r] = "failed"
  BY <1>1 DEF run, RunsEnd
<1>4. OthersStand(r)
  BY <1>2, <1>3 DEF OthersStand
<1>5. RunsEnd'
  BY <1>2, <1>3 DEF RunsEnd
<1>6. \A q \in Runs : RunGoesOn(q)
  <2> SUFFICES ASSUME NEW q \in Runs PROVE RunGoesOn(q)
    OBVIOUS
  <2>1. /\ status'[q] = status[q] /\ pc'[q] = pc[q] /\ id'[q] = id[q] /\ source'[q] = source[q]
        /\ late'[q] => late[q]
    BY <1>2, <1>3
  <2>2. ~(pc[q] = 55 /\ pc'[q] = 56)
    BY <2>1
  <2> QED
    BY <2>1, <2>2, Zenon DEF RunGoesOn
<1>7. CASE pc[r] = 10
  <2>1. tag = NoTag /\ tag' = source[r] /\ UNCHANGED <<releases, anchors>>
    BY <1>1, <1>7, RequestPlaces DEF CreateTag
  <2>2. ReleaseTypeOK'
    BY <1>1, <1>2, <1>3, <2>1 DEF ReleaseTypeOK
  <2>3. Ordinary
    BY <1>6, <2>1, SameReleases DEF Ordinary
  <2> QED
    BY <1>5, <2>2, <2>3, OrdinaryKeeps
<1>8. CASE pc[r] = 14
  <2>1. CreateDraft(r)
    BY <1>1, <1>8, RequestPlaces
  <2>2. PICK i \in Ids : NewDraft(i, <<r, "reserved">>)
    BY <2>1 DEF CreateDraft
  <2>3. releases' \in [Ids -> Release]
    BY <2>2, DraftTypes, ReleaseValues
  <2>4. ReleaseTypeOK' /\ tag' = tag
    BY <1>1, <1>2, <1>3, <2>1, <2>3 DEF ReleaseTypeOK, CreateDraft
  <2> QED
    BY <1>1, <1>2, <1>3, <1>4, <1>5, <1>8, <2>2, <2>4, DraftKeeps
<1>9. CASE pc[r] \notin {10, 14}
  <2>1. /\ releases' \in [Ids -> Release] /\ anchors' \subseteq Runs /\ tag' = tag
        /\ \A i \in Ids : ReleaseKept(i)
    BY <1>1, <1>9, RequestKeeps
  <2>2. ReleaseTypeOK'
    BY <1>1, <1>2, <1>3, <2>1 DEF ReleaseTypeOK
  <2>3. Ordinary
    BY <1>6, <2>1 DEF Ordinary
  <2> QED
    BY <1>5, <2>2, <2>3, OrdinaryKeeps
<1> QED
  BY <1>7, <1>8, <1>9

-------------------------------------------------------------------------------
\* Beside the runs.

(* While no run moves, every run goes on in the sense of an ordinary step.      *)
LEMMA AllStand ==
    ASSUME UNCHANGED <<run, late>>
    PROVE  (\A r \in Runs : RunGoesOn(r)) /\ (RunsEnd => RunsEnd')
<1>1. ASSUME NEW r \in Runs PROVE RunGoesOn(r)
  <2>1. /\ status'[r] = status[r] /\ pc'[r] = pc[r] /\ id'[r] = id[r]
        /\ source'[r] = source[r] /\ late'[r] = late[r]
    BY DEF run
  <2>2. ~(pc[r] = 55 /\ pc'[r] = 56)
    BY <2>1
  <2> QED
    BY <2>1, <2>2, Zenon DEF RunGoesOn
<1>2. RunsEnd => RunsEnd'
  BY DEF RunsEnd, run
<1> QED
  BY <1>1, <1>2

\* A new commit on main changes no claim.
LEMMA StepMainAdvances ==
    ASSUME ReleaseInv, MainAdvances
    PROVE  ReleaseInv'
<1> USE DEF ReleaseInv
<1>1. tip < Commits /\ tip' = tip + 1
      /\ UNCHANGED <<immutable, tag, releases, anchors, edits, run, late>>
  BY DEF MainAdvances
<1>2. ReleaseTypeOK'
  <2>1. tip' \in 1..Commits
    BY <1>1, ReleaseAssumption DEF ReleaseTypeOK
  <2> QED
    BY <1>1, <2>1 DEF ReleaseTypeOK, run
<1>3. Ordinary
  BY <1>1, AllStand, SameReleases DEF Ordinary
<1> QED
  BY <1>1, <1>2, <1>3, AllStand, OrdinaryKeeps

(* What maintainers do to a release makes it name no run.                       *)
LEMMA RewriteKeeps ==
    ASSUME ReleaseInv, NEW i \in Ids, NEW new \in Release, Rewrite(i, new), ~new.immutable,
           \A r \in Runs : Of(new, r) => Of(releases[i], r)
    PROVE  releases' \in [Ids -> Release] /\ \A j \in Ids : ReleaseKept(j)
<1>1. releases \in [Ids -> Release] /\ releases' = [releases EXCEPT ![i] = new]
      /\ ~releases[i].immutable
  BY DEF ReleaseInv, ReleaseTypeOK, Rewrite, Editable
<1>2. ASSUME NEW j \in Ids PROVE ReleaseKept(j)
  <2>1. CASE j = i
    <3>1. releases'[j] = new
      BY <1>1, <2>1
    <3> QED
      BY <1>1, <2>1, <3>1 DEF ReleaseKept
  <2>2. CASE j # i
    <3>1. releases'[j] = releases[j]
      BY <1>1, <2>2
    <3> QED
      BY <3>1 DEF ReleaseKept
  <2> QED
    BY <2>1, <2>2
<1> QED
  BY <1>1, <1>2

\* A maintainer's draft names no run.
LEMMA OtherDraftKeeps ==
    ASSUME ReleaseInv, NEW i \in Ids, NewDraft(i, Other)
    PROVE  releases' \in [Ids -> Release] /\ \A j \in Ids : ReleaseKept(j)
<1>1. /\ releases' \in [Ids -> Release]
      /\ releases[i] = Blank("unused") /\ releases'[i] = Draft(Other, {})
      /\ \A j \in Ids : j # i => releases'[j] = releases[j]
  BY DraftTypes, ReleaseValues DEF ReleaseInv
<1>2. ASSUME NEW j \in Ids PROVE ReleaseKept(j)
  <2>1. CASE j = i
    <3>1. /\ \A r \in Runs : ~Of(releases'[j], r)
          /\ ~releases[j].immutable /\ ~releases'[j].immutable
      BY <1>1, <2>1, WhoseRelease
    <3> QED
      BY <3>1 DEF ReleaseKept
  <2>2. CASE j # i
    <3>1. releases'[j] = releases[j]
      BY <1>1, <2>2
    <3> QED
      BY <3>1 DEF ReleaseKept
  <2> QED
    BY <2>1, <2>2
<1> QED
  BY <1>1, <1>2

\* Edits by maintainers keep the invariant: they name no run, and leave alone
\* what is immutable.
LEMMA StepMaintain ==
    ASSUME ReleaseInv, Maintain
    PROVE  ReleaseInv'
<1> USE DEF ReleaseInv
<1>1. edits < MaxEdits /\ edits' = edits + 1 /\ UNCHANGED <<tip, run, late>>
  BY DEF Maintain
<1>2. edits' \in 0..MaxEdits
  BY <1>1, ReleaseAssumption DEF ReleaseTypeOK
<1>3. /\ releases' \in [Ids -> Release] /\ (\A i \in Ids : ReleaseKept(i))
      /\ immutable' \in BOOLEAN /\ anchors' \subseteq Runs
      /\ tag' = tag \/ (tag = NoTag /\ tag' \in 1..tip)
  <2>1. /\ releases \in [Ids -> Release] /\ \A i \in Ids : releases[i] \in Release
        /\ immutable \in BOOLEAN /\ anchors \subseteq Runs
    BY DEF ReleaseTypeOK
  <2>2. ASSUME NEW i \in Ids, Rewrite(i, [releases[i] EXCEPT !.body = Other])
        PROVE  releases' \in [Ids -> Release] /\ \A j \in Ids : ReleaseKept(j)
    <3> DEFINE new == [releases[i] EXCEPT !.body = Other]
    <3>1. new \in Release /\ ~new.immutable /\ new.body = Other
      BY <2>1, <2>2, ReleaseValues DEF Release, Rewrite, Editable
    <3>2. \A r \in Runs : ~Of(new, r)
      BY <3>1 DEF Of, Other
    <3> HIDE DEF new
    <3> QED
      BY <2>2, <3>1, <3>2, RewriteKeeps DEF new
  <2>3. ASSUME NEW i \in Ids, NEW names \in SUBSET (Names \cup {Alien}),
               Rewrite(i, [releases[i] EXCEPT !.assets = names])
        PROVE  releases' \in [Ids -> Release] /\ \A j \in Ids : ReleaseKept(j)
    <3> DEFINE new == [releases[i] EXCEPT !.assets = names]
    <3>1. /\ new \in Release /\ ~new.immutable
          /\ new.body = releases[i].body /\ new.state = releases[i].state
      BY <2>1, <2>3 DEF Release, Rewrite, Editable
    <3>2. \A r \in Runs : Of(new, r) => Of(releases[i], r)
      BY <3>1 DEF Of
    <3> HIDE DEF new
    <3> QED
      BY <2>3, <3>1, <3>2, RewriteKeeps DEF new
  <2>4. ASSUME NEW i \in Ids, Rewrite(i, Blank("deleted"))
        PROVE  releases' \in [Ids -> Release] /\ \A j \in Ids : ReleaseKept(j)
    BY <2>4, ReleaseValues, WhoseRelease, RewriteKeeps
  <2>5. CASE /\ \/ \E i \in Ids : Rewrite(i, [releases[i] EXCEPT !.body = Other])
                \/ \E i \in Ids, names \in SUBSET (Names \cup {Alien}) :
                       Rewrite(i, [releases[i] EXCEPT !.assets = names])
                \/ \E i \in Ids : Rewrite(i, Blank("deleted"))
                \/ \E i \in Ids : NewDraft(i, Other)
             /\ UNCHANGED <<immutable, tag, anchors>>
    BY <2>1, <2>2, <2>3, <2>4, <2>5, OtherDraftKeeps
  <2>6. CASE tag = NoTag /\ tag' \in 1..tip /\ UNCHANGED <<immutable, releases, anchors>>
    BY <2>1, <2>6, SameReleases
  <2>7. CASE \E r \in anchors : anchors' = anchors \ {r} /\ UNCHANGED <<immutable, tag, releases>>
    BY <2>1, <2>7, SameReleases
  <2>8. CASE immutable' = ~immutable /\ UNCHANGED <<tag, releases, anchors>>
    <3>1. immutable' \in BOOLEAN
      BY <2>8
    <3> QED
      BY <2>1, <2>8, <3>1, SameReleases
  <2> QED
    BY <2>5, <2>6, <2>7, <2>8 DEF Maintain
<1>4. tag' \in 0..Commits
  <2>1. tag \in 0..Commits /\ tip \in 1..Commits /\ Commits \in Nat
    BY ReleaseAssumption DEF ReleaseTypeOK
  <2> QED
    BY <1>3, <2>1
<1>5. ReleaseTypeOK'
  BY <1>1, <1>2, <1>3, <1>4 DEF ReleaseTypeOK, run
<1>6. Ordinary
  BY <1>1, <1>3, AllStand DEF Ordinary
<1> QED
  BY <1>1, <1>5, <1>6, AllStand, OrdinaryKeeps

(* A recovery takes draft and tag of a failed run away together: afterwards     *)
(* nobody claims the version.                                                   *)
LEMMA StepRecover ==
    ASSUME ReleaseInv, NEW r \in Runs, Recover(r)
    PROVE  ReleaseInv'
<1> USE DEF ReleaseInv
<1>1. /\ status[r] = "failed" /\ tag = source[r] /\ ~Past(r, "push")
      /\ \A q \in Runs : status[q] # "running"
      /\ tag' = NoTag /\ UNCHANGED <<tip, immutable, anchors, edits, run, late>>
  BY DEF Recover, Running
<1>2. PICK i \in Ids : /\ releases[i] = Draft(<<r, "reserved">>, {})
                       /\ releases' = [releases EXCEPT ![i] = Blank("deleted")]
  BY DEF Recover
<1>3. /\ releases' \in [Ids -> Release] /\ releases'[i] = Blank("deleted")
      /\ \A j \in Ids : j # i => releases'[j] = releases[j]
  BY <1>2, ReleaseValues DEF ReleaseTypeOK
<1>4. ReleaseTypeOK'
  <2>1. tag' \in 0..Commits
    BY <1>1, ReleaseAssumption DEF NoTag
  <2> QED
    BY <1>1, <1>3, <2>1 DEF ReleaseTypeOK, run
<1>5. Of(releases[i], r) /\ Claims(r)
  BY <1>2, WhoseRelease DEF Claims
<1>6. \A q \in Runs : Claims(q) => q = r
  BY <1>5 DEF OneClaim
<1>7. \A q \in Runs, j \in Ids : ~Of(releases'[j], q)
  <2> SUFFICES ASSUME NEW q \in Runs, NEW j \in Ids, Of(releases'[j], q) PROVE FALSE
    OBVIOUS
  <2>1. j # i
    BY <1>3, WhoseRelease
  <2>2. Of(releases[j], q)
    BY <1>3, <2>1
  <2>3. q = r
    BY <1>6, <2>2 DEF Claims
  <2> QED
    BY <1>5, <2>1, <2>2, <2>3 DEF NamedOnce
<1>8. pc[r] \in 1..23
  <2>1. pc[r] \in 1..59 /\ ~(pc[r] > 23)
    BY <1>1, Places
  <2> QED
    BY <2>1
<1>9. ASSUME NEW q \in Runs PROVE ~Claims(q)'
  <2>1. CASE status[q] \in {"running", "succeeded"} /\ pc[q] > 10
    BY <1>1, <1>6, <2>1 DEF Claims
  <2>2. CASE late[q] /\ pc[q] \in {14, 33, 45, 47, 54}
    <3>1. q = r
      BY <1>6, <2>2 DEF Claims
    <3> QED
      BY <1>5, <1>8, <2>2, <3>1 DEF NamedAfterDraft
  <2> QED
    BY <1>1, <1>7, <2>1, <2>2 DEF Claims, run
<1>10. ClaimHoldsTag' /\ OneClaim'
  BY <1>9 DEF ClaimHoldsTag, OneClaim
<1>11. NamedAfterDraft' /\ NamedKnown' /\ NamedOnce'
  BY <1>1, <1>7 DEF NamedAfterDraft, NamedKnown, NamedOnce, run
<1>12. \A q \in Runs, j \in Ids : releases[j].state = "published" => releases[j].body # <<q, "bound">>
  <2> SUFFICES ASSUME NEW q \in Runs, NEW j \in Ids,
                      releases[j].state = "published", releases[j].body = <<q, "bound">>
               PROVE  FALSE
    OBVIOUS
  <2>1. Of(releases[j], q)
    BY DEF Of
  <2>2. j = i
    <3>1. q = r
      BY <1>6, <2>1 DEF Claims
    <3> QED
      BY <1>5, <2>1, <3>1 DEF NamedOnce
  <2> QED
    BY <1>2, <2>2 DEF Draft, Blank
<1>13. PublishedStays'
  <2> SUFFICES ASSUME NEW q \in Runs, pc[q] > 55 PROVE FALSE
    BY <1>1 DEF PublishedStays, run
  <2>1. releases[id[q]] = Published(<<q, "bound">>) /\ id[q] \in Ids
    <3>1. pc[q] \in 1..59
      BY Places
    <3> QED
      BY <3>1 DEF PublishedStays, NamedKnown
  <2> QED
    BY <1>12, <2>1 DEF Published
<1>14. ImmutableIsBound'
  <2> SUFFICES ASSUME NEW j \in Ids, releases'[j].immutable PROVE FALSE
    BY DEF ImmutableIsBound
  <2>1. j # i
    BY <1>3, WhoseRelease
  <2> QED
    BY <1>3, <1>12, <2>1 DEF ImmutableIsBound
<1>15. RunsEnd'
  BY <1>1, AllStand
<1> QED
  BY <1>4, <1>10, <1>11, <1>13, <1>14, <1>15

-------------------------------------------------------------------------------
\* The invariant holds, and what follows from it.

\* Before the first run there is no release, and no claim.
LEMMA InitRelease == ReleaseInit => ReleaseInv
<1> SUFFICES ASSUME ReleaseInit PROVE ReleaseInv
  OBVIOUS
<1>1. /\ tip = 1 /\ immutable = TRUE /\ tag = NoTag /\ anchors = {} /\ edits = 0
      /\ releases = [i \in Ids |-> Blank("unused")]
      /\ status = [r \in Runs |-> "none"] /\ pc = [r \in Runs |-> 1]
      /\ source = [r \in Runs |-> 1] /\ id = [r \in Runs |-> 0]
      /\ late = [r \in Runs |-> FALSE]
  BY DEF ReleaseInit
<1>2. ReleaseTypeOK
  <2>1. /\ 1 \in 1..Commits /\ 0 \in 0..Commits /\ 0 \in 0..MaxEdits /\ 0 \in 0..MaxReleases
        /\ 1 \in 1..Len(Workflow)
    BY WorkflowSteps, ReleaseAssumption
  <2>2. releases \in [Ids -> Release]
    BY <1>1, ReleaseValues
  <2> QED
    BY <1>1, <2>1, <2>2 DEF ReleaseTypeOK, NoTag
<1>3. \A r \in Runs, i \in Ids : ~Of(releases[i], r) /\ ~releases[i].immutable
  BY <1>1, WhoseRelease
<1>4. \A i \in Ids : ~releases[i].immutable
  BY <1>1, WhoseRelease
<1>5. \A r \in Runs : status[r] = "none" /\ pc[r] = 1 /\ ~late[r]
  BY <1>1
<1>6. \A r \in Runs : ~Claims(r)
  BY <1>3, <1>5 DEF Claims
<1> QED
  BY <1>2, <1>3, <1>4, <1>5, <1>6
     DEF ReleaseInv, RunsEnd, ClaimHoldsTag, OneClaim, NamedAfterDraft, NamedKnown, NamedOnce,
         PublishedStays, ImmutableIsBound

\* The grid: every step of a run, a lost request, a maintainer or an operator
\* keeps the invariant.
LEMMA StepRelease == ReleaseInv /\ [ReleaseNext]_vars => ReleaseInv'
<1> SUFFICES ASSUME ReleaseInv, [ReleaseNext]_vars PROVE ReleaseInv'
  OBVIOUS
<1>1. ASSUME NEW r \in Runs, Answered(r) PROVE ReleaseInv'
  BY <1>1, StepAnsweredEdit, StepCreatesTag, StepCreatesDraft
<1>2. CASE MainAdvances
  BY <1>2, StepMainAdvances
<1>3. CASE Maintain
  BY <1>3, StepMaintain
<1>4. CASE UNCHANGED vars
  <2>1. /\ UNCHANGED <<tip, immutable, tag, releases, anchors, edits, late>>
        /\ UNCHANGED <<status, pc, source, id>>
    BY <1>4 DEF vars, remote, run
  <2>2. ReleaseTypeOK'
    BY <2>1 DEF ReleaseInv, ReleaseTypeOK
  <2>3. Ordinary
    BY <2>1, AllStand, SameReleases DEF Ordinary, run
  <2> QED
    BY <2>1, <2>2, <2>3, AllStand, OrdinaryKeeps DEF ReleaseInv, run
<1> QED
  BY <1>1, <1>2, <1>3, <1>4, StepDispatch, StepChecks, StepEnds, StepTakesEffect, StepRecover
     DEF ReleaseNext

(* What a run may do follows from who claims the version: for any number of     *)
(* runs, releases and edits.                                                    *)
THEOREM ReleaseInvariant == ReleaseSpec => []ReleaseInv
  BY InitRelease, StepRelease, PTL DEF ReleaseSpec

(* The variables of the repository and of the runs keep their types.            *)
THEOREM ReleaseTypeCorrect == ReleaseSpec => []ReleaseTypeOK
<1>1. ReleaseInv => ReleaseTypeOK
  BY DEF ReleaseInv
<1> QED
  BY <1>1, ReleaseInvariant, PTL

(* Of the runs that go on after the creation of the tag there is never more     *)
(* than one (release.go:64).                                                    *)
THEOREM OneOwnerAtMost == ReleaseSpec => []OneOwner
<1>1. ReleaseInv => OneOwner
  BY Places DEF ReleaseInv, OneOwner, OneClaim, Claims
<1> QED
  BY <1>1, ReleaseInvariant, PTL

(* Releases that name a run.                                                    *)
LEMMA NamedAre == ReleaseTypeOK => \A r \in Runs : Named(r) = {i \in Ids : Of(releases[i], r)}
BY DEF Named, Of, Exists

(* The tag of a run stays as long as a release names it or a lost request of it *)
(* may still take effect, recoveries included (release.go:99-139).              *)
THEOREM ReservationStays == ReleaseSpec => []VersionStaysReserved
<1>1. ReleaseInv => VersionStaysReserved
  <2> SUFFICES ASSUME ReleaseInv, NEW r \in Runs, Named(r) # {} \/ Pending(r)
               PROVE  tag = source[r]
    BY DEF VersionStaysReserved
  <2>1. CASE Named(r) # {}
    <3>1. Claims(r)
      BY <2>1, NamedAre DEF ReleaseInv, Claims
    <3> QED
      BY <3>1 DEF ReleaseInv, ClaimHoldsTag
  <2>2. CASE Pending(r)
    <3>1. late[r] /\ Step(r) \in {"create draft", "bind", "upload bundle", "upload sums", "publish"}
      BY <2>2 DEF Pending, Writes
    <3>2. Marked(Step(r), pc[r])
      BY Places DEF ReleaseInv
    <3>3. pc[r] \in {14, 33, 45, 47, 54}
      BY <3>1, <3>2 DEF Marked
    <3>4. Claims(r)
      BY <3>1, <3>3 DEF Claims
    <3> QED
      BY <3>4 DEF ReleaseInv, ClaimHoldsTag
  <2> QED
    BY <2>1, <2>2
<1> QED
  BY <1>1, ReleaseInvariant, PTL

(* No run leaves two releases, whatever answers are lost (release.go:64-66).    *)
THEOREM OneReleaseAtMost == ReleaseSpec => []OneReleasePerRun
<1>1. ReleaseInv => OneReleasePerRun
  <2> SUFFICES ASSUME ReleaseInv, NEW r \in Runs
               PROVE  Cardinality(Named(r)) <= 1
    BY DEF OneReleasePerRun
  <2>1. Named(r) = {i \in Ids : Of(releases[i], r)}
    BY NamedAre DEF ReleaseInv
  <2>2. CASE Named(r) = {}
    BY <2>2, FS_EmptySet
  <2>3. CASE Named(r) # {}
    <3>1. PICK i \in Named(r) : TRUE
      BY <2>3
    <3>2. Named(r) = {i}
      BY <2>1, <3>1 DEF ReleaseInv, NamedOnce
    <3>3. Cardinality({i}) = 1
      BY FS_Singleton
    <3> QED
      BY <3>2, <3>3
  <2> QED
    BY <2>2, <2>3
<1> QED
  BY <1>1, ReleaseInvariant, PTL

(* A run that reports success has left exactly the release it should, under its *)
(* tag, and that for good (release.go Publish).                                 *)
THEOREM SuccessIsExact == ReleaseSpec => []SucceededIsExact
<1>1. ReleaseInv => SucceededIsExact
  <2> SUFFICES ASSUME ReleaseInv, NEW r \in Runs, status[r] = "succeeded"
               PROVE  releases[id[r]] = Published(<<r, "bound">>) /\ tag = source[r]
    BY DEF SucceededIsExact
  <2>1. pc[r] = 59
    BY DEF ReleaseInv, RunsEnd
  <2>2. Claims(r)
    BY <2>1 DEF Claims
  <2> QED
    BY <2>1, <2>2 DEF ReleaseInv, ClaimHoldsTag, PublishedStays
<1> QED
  BY <1>1, ReleaseInvariant, PTL

(* What is published and immutable carries the binding of the run that owns the *)
(* tag and has pushed its image (release.go:316-347).                           *)
THEOREM PublicationIsBound == ReleaseSpec => []PublishedIsBound
<1>1. ReleaseInv => PublishedIsBound
  BY Places DEF ReleaseInv, ImmutableIsBound, PublishedIsBound
<1> QED
  BY <1>1, ReleaseInvariant, PTL

===============================================================================
