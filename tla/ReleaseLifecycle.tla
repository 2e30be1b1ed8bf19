--------------------------- MODULE ReleaseLifecycle ---------------------------
(***************************************************************************)
(* The releaseguard commands as the release workflow calls them, against   *)
(* one version of the repository: its tag, its releases and the images of  *)
(* its runs.  A command is the sequence of its remote calls; a run executes*)
(* the commands in order and ends for good at the first call that fails.   *)
(* A request whose answer is lost may still take effect, at any later time.*)
(* main moves on, maintainers edit what the guard does not own, and an     *)
(* operator may remove a failed, empty reservation.                        *)
(***************************************************************************)
EXTENDS Integers, Sequences, FiniteSets

CONSTANTS
    Runs,         \* workflow invocations for this version
    Commits,      \* commits of main: 1 .. Commits
    MaxReleases,  \* releases ever created
    MaxEdits      \* changes made by maintainers beside the workflow

ASSUME ReleaseAssumption ==
    /\ IsFiniteSet(Runs)
    /\ {Commits, MaxReleases, MaxEdits} \subseteq Nat /\ Commits > 0

VARIABLES
    tip,        \* the commit of main
    immutable,  \* immutable releases are enabled
    tag,        \* the commit the version's tag names
    releases,   \* by numeric id
    anchors,    \* runs whose image is found under their own OCI tag
    edits,
    status, pc, \* of every run
    source,     \* GITHUB_SHA of a run
    id,         \* the release id a run knows
    late        \* the answer to the run's last request was lost

remote == <<tip, immutable, tag, releases, anchors>>
run == <<status, pc, source, id>>
vars == <<remote, edits, run, late>>

NoTag == 0
Ids == 1..MaxReleases
Names == {"bundle", "sums"}
Other == <<"nobody", "other">>
Alien == "alien"

\* The marker in a body names the run and, once bound, the digest of its image.
Bodies == (Runs \X {"reserved", "bound"}) \cup {Other}

Release == [state : {"unused", "deleted", "draft", "published"}, immutable : BOOLEAN,
            body : Bodies, assets : SUBSET (Names \cup {Alien})]

Blank(state) == [state |-> state, immutable |-> FALSE, body |-> Other, assets |-> {}]
Draft(body, assets) == [Blank("draft") EXCEPT !.body = body, !.assets = assets]
Published(body) == [state |-> "published", immutable |-> TRUE, body |-> body, assets |-> Names]

Exists(i) == releases[i].state \in {"draft", "published"}

-------------------------------------------------------------------------------
\* The commands.

Trust == <<"policy", "tip", "no tag">>

TrustReserved == <<"policy", "tip", "tag">>

\* A mistaken reservation that creates the draft before the tag.
ReserveDraftFirst ==
    Trust \o <<"tip", "no tag", "no release", "create draft", "create tag">>
    \o TrustReserved \o <<"read reserved", "outputs">>

Reserve ==
    Trust \o <<"tip", "no tag", "no release", "create tag">>
    \o TrustReserved \o <<"create draft">>
    \o TrustReserved \o <<"read reserved", "outputs">>

VerifyImageSource == TrustReserved

VerifyAttestation == TrustReserved \o <<"image">>

Bind == TrustReserved \o <<"image", "read reserved", "bind", "read bound">>

VerifyBound == TrustReserved \o <<"image", "read bound">>

UploadAssets ==
    TrustReserved \o <<"image", "read bound", "upload bundle", "read bundle", "upload sums", "read complete">>

Publish ==
    TrustReserved \o <<"image", "read complete", "publish", "read published">>
    \o TrustReserved \o <<"image">>

Workflow ==
    Trust \o Reserve \o VerifyImageSource \o <<"push">> \o VerifyAttestation
    \o Bind \o VerifyBound \o UploadAssets \o Publish

Writes == {"create tag", "create draft", "push", "bind", "upload bundle", "upload sums", "publish"}

Step(r) == Workflow[pc[r]]

\* Has the run completed step s.
Past(r, s) == \E k \in 1..(pc[r] - 1) : Workflow[k] = s

-------------------------------------------------------------------------------
\* What a call finds.

\* The release a step must find, or get as its answer.
Expected(r, s) ==
    CASE s \in {"create draft", "read reserved"} -> Draft(<<r, "reserved">>, {})
      [] s \in {"bind", "read bound"} -> Draft(<<r, "bound">>, {})
      [] s = "read bundle" -> Draft(<<r, "bound">>, {"bundle"})
      [] s = "read complete" -> Draft(<<r, "bound">>, Names)
      [] s \in {"publish", "read published"} -> Published(<<r, "bound">>)

\* A mistaken comparison that does not look at the assets.
SameButAssets(remoteRelease, expected) ==
    [remoteRelease EXCEPT !.assets = expected.assets] = expected

SameRelease(remoteRelease, expected) == remoteRelease = expected

Reads == {"read reserved", "read bound", "read bundle", "read complete", "read published"}

\* Six requirements, of which only immutable releases change what a request
\* does; the others may fail at any time (Fails).
Policy == immutable

\* The run's image is there under the run's own OCI tag.
ImageFound(r) == r \in anchors

Found(r) ==
    /\ Step(r) = "policy" => Policy
    /\ Step(r) = "tip" => tip = source[r]
    /\ Step(r) = "no tag" => tag = NoTag
    /\ Step(r) = "tag" => tag = source[r]
    /\ Step(r) = "no release" => \A i \in Ids : ~Exists(i)
    /\ Step(r) = "image" => ImageFound(r)
    /\ Step(r) \in Reads => SameRelease(releases[id[r]], Expected(r, Step(r)))

-------------------------------------------------------------------------------
\* What a request does when the service accepts it.

\* A mistaken creation that takes an existing tag of the same commit for its own.
CreateTagAgain(r) == tag \in {NoTag, source[r]} /\ tag' = source[r] /\ UNCHANGED <<releases, anchors>>

\* Creation is atomic; update and deletion are restricted by the ruleset.
CreateTag(r) == tag = NoTag /\ tag' = source[r] /\ UNCHANGED <<releases, anchors>>

\* The service gives every release the next number, also a second draft of a tag.
NewDraft(i, body) ==
    /\ releases[i] = Blank("unused") /\ \A j \in 1..(i - 1) : releases[j] # Blank("unused")
    /\ releases' = [releases EXCEPT ![i] = Draft(body, {})]

CreateDraft(r) == (\E i \in Ids : NewDraft(i, <<r, "reserved">>)) /\ UNCHANGED <<tag, anchors>>

Push(r) == anchors' = anchors \cup {r} /\ UNCHANGED <<tag, releases>>

Editable(i) == Exists(i) /\ ~releases[i].immutable

BindImage(r) ==
    /\ Editable(id[r])
    /\ releases' = [releases EXCEPT ![id[r]].body = <<r, "bound">>, ![id[r]].state = "draft"]
    /\ UNCHANGED <<tag, anchors>>

\* There is no replacement of an asset.
Upload(r, name) ==
    /\ Editable(id[r]) /\ name \notin releases[id[r]].assets
    /\ releases' = [releases EXCEPT ![id[r]].assets = @ \cup {name}]
    /\ UNCHANGED <<tag, anchors>>

\* A mistaken publication that sends only the new state of the draft.
PublishStateOnly(r) ==
    /\ Editable(id[r])
    /\ releases' = [releases EXCEPT ![id[r]].state = "published", ![id[r]].immutable = immutable]
    /\ UNCHANGED <<tag, anchors>>

PublishDraft(r) ==
    /\ Editable(id[r])
    /\ releases' = [releases EXCEPT ![id[r]].body = <<r, "bound">>, ![id[r]].state = "published",
                                    ![id[r]].immutable = immutable]
    /\ UNCHANGED <<tag, anchors>>

Request(r) ==
    \/ Step(r) = "create tag" /\ CreateTag(r)
    \/ Step(r) = "create draft" /\ CreateDraft(r)
    \/ Step(r) = "push" /\ Push(r)
    \/ Step(r) = "bind" /\ BindImage(r)
    \/ Step(r) = "upload bundle" /\ Upload(r, "bundle")
    \/ Step(r) = "upload sums" /\ Upload(r, "sums")
    \/ Step(r) = "publish" /\ PublishDraft(r)

-------------------------------------------------------------------------------
\* A run.

\* A mistaken last step that never ends the run.
AdvanceOnly(r) == pc' = [pc EXCEPT ![r] = @ + 1] /\ UNCHANGED status

Advance(r) ==
    IF pc[r] = Len(Workflow)
    THEN status' = [status EXCEPT ![r] = "succeeded"] /\ UNCHANGED pc
    ELSE pc' = [pc EXCEPT ![r] = @ + 1] /\ UNCHANGED status

Stop(r) == status' = [status EXCEPT ![r] = "failed"] /\ UNCHANGED pc

\* Commands refuse every attempt but the first: a run starts once.
Dispatch(r) ==
    /\ status[r] = "none"
    /\ status' = [status EXCEPT ![r] = "running"] /\ source' = [source EXCEPT ![r] = tip]
    /\ UNCHANGED <<remote, edits, pc, id, late>>

Running(r) == status[r] = "running"

Checks(r) ==
    /\ Running(r) /\ Step(r) \notin Writes
    /\ IF Found(r) THEN Advance(r) ELSE Stop(r)
    /\ UNCHANGED <<remote, edits, source, id, late>>

\* The answer comes and, where it describes a release, is compared.
Answered(r) ==
    /\ Running(r) /\ Step(r) \in Writes /\ Request(r)
    /\ id' = [id EXCEPT ![r] = IF Step(r) = "create draft"
                               THEN CHOOSE i \in Ids : releases'[i] # releases[i] ELSE @]
    /\ IF Step(r) \in {"create draft", "bind", "publish"} =>
               SameRelease(releases'[id'[r]], Expected(r, Step(r)))
       THEN Advance(r) ELSE Stop(r)
    /\ UNCHANGED <<tip, immutable, edits, source, late>>

\* A refused request, a check that cannot be made, or the end of the runner.
Fails(r) ==
    /\ Running(r) /\ Stop(r)
    /\ UNCHANGED <<remote, edits, source, id, late>>

\* A mistaken answer to a lost response: the request is made once more.
LosesTrying(r) ==
    /\ Running(r) /\ Step(r) \in Writes /\ ~late[r]
    /\ late' = [late EXCEPT ![r] = TRUE]
    /\ UNCHANGED <<remote, edits, run>>

\* The answer is lost: the run fails, whether or not the request has an effect.
Loses(r) ==
    /\ Running(r) /\ Step(r) \in Writes
    /\ Stop(r) /\ late' = [late EXCEPT ![r] = TRUE]
    /\ UNCHANGED <<remote, edits, source, id>>

TakesEffect(r) ==
    /\ late[r] /\ Request(r)
    /\ late' = [late EXCEPT ![r] = FALSE]
    /\ UNCHANGED <<tip, immutable, edits, run>>

-------------------------------------------------------------------------------
\* Beside the runs.

MainAdvances ==
    /\ tip < Commits /\ tip' = tip + 1
    /\ UNCHANGED <<immutable, tag, releases, anchors, edits, run, late>>

Rewrite(i, release) == Editable(i) /\ releases' = [releases EXCEPT ![i] = release]

\* Maintainers do not publish, and the ruleset keeps an existing tag.
Maintain ==
    /\ edits < MaxEdits /\ edits' = edits + 1
    /\ \/ /\ \/ \E i \in Ids : Rewrite(i, [releases[i] EXCEPT !.body = Other])
             \/ \E i \in Ids, names \in SUBSET (Names \cup {Alien}) :
                    Rewrite(i, [releases[i] EXCEPT !.assets = names])
             \/ \E i \in Ids : Rewrite(i, Blank("deleted"))
             \/ \E i \in Ids : NewDraft(i, Other)
          /\ UNCHANGED <<immutable, tag, anchors>>
       \/ tag = NoTag /\ tag' \in 1..tip /\ UNCHANGED <<immutable, releases, anchors>>
       \/ \E r \in anchors : anchors' = anchors \ {r} /\ UNCHANGED <<immutable, tag, releases>>
       \/ immutable' = ~immutable /\ UNCHANGED <<tag, releases, anchors>>
    /\ UNCHANGED <<tip, run, late>>

\* The recovery of an unpublished, empty reservation without an image, by the
\* failed run's record: draft and tag together, with other writers frozen.
Recover(r) ==
    /\ status[r] = "failed" /\ tag = source[r]
    /\ r \notin anchors /\ ~Past(r, "push")
    /\ \A q \in Runs : ~Running(q)
    /\ \E i \in Ids : /\ releases[i] = Draft(<<r, "reserved">>, {})
                      /\ releases' = [releases EXCEPT ![i] = Blank("deleted")]
    /\ tag' = NoTag
    /\ UNCHANGED <<tip, immutable, anchors, edits, run, late>>

-------------------------------------------------------------------------------
ReleaseInit ==
    /\ tip = 1 /\ immutable = TRUE /\ tag = NoTag /\ anchors = {} /\ edits = 0
    /\ releases = [i \in Ids |-> Blank("unused")]
    /\ status = [r \in Runs |-> "none"] /\ pc = [r \in Runs |-> 1]
    /\ source = [r \in Runs |-> 1] /\ id = [r \in Runs |-> 0]
    /\ late = [r \in Runs |-> FALSE]

ReleaseNext ==
    \/ \E r \in Runs : \/ Dispatch(r) \/ Checks(r) \/ Answered(r) \/ Fails(r)
                       \/ Loses(r) \/ TakesEffect(r) \/ Recover(r)
    \/ MainAdvances \/ Maintain

ReleaseSpec == ReleaseInit /\ [][ReleaseNext]_vars

ReleaseTypeOK ==
    /\ tip \in 1..Commits /\ immutable \in BOOLEAN /\ tag \in 0..Commits
    /\ releases \in [Ids -> Release]
    /\ anchors \subseteq Runs /\ edits \in 0..MaxEdits
    /\ status \in [Runs -> {"none", "running", "failed", "succeeded"}]
    /\ pc \in [Runs -> 1..Len(Workflow)]
    /\ source \in [Runs -> 1..Commits] /\ id \in [Runs -> 0..MaxReleases]
    /\ late \in [Runs -> BOOLEAN]

-------------------------------------------------------------------------------
(* A run that reports success has left, for good, exactly one thing: the      *)
(* published immutable release with its binding, both assets and nothing      *)
(* else, under the tag of its source, whatever others did meanwhile           *)
(* (release.go Publish, validateRelease).                                     *)
SucceededIsExact ==
    \A r \in Runs : status[r] = "succeeded" =>
        releases[id[r]] = Published(<<r, "bound">>) /\ tag = source[r]

(* "Reserve atomically reserves the version" (release.go:64): of the runs     *)
(* that go on after the creation of the tag there is never more than one,     *)
(* even if runs overlap.                                                      *)
OneOwner ==
    \A q, r \in Runs :
        {status[q], status[r]} \subseteq {"running", "succeeded"}
            /\ Past(q, "create tag") /\ Past(r, "create tag") => q = r

Named(r) == {i \in Ids : Exists(i) /\ releases[i].body \in {<<r, "reserved">>, <<r, "bound">>}}

\* Something of the run can still reach a release of the version.
Pending(r) == late[r] /\ Step(r) \in Writes \ {"create tag", "push"}

(* The tag of a run stays as long as a release names the run or a lost        *)
(* request of it may still take effect, also after a recovery: no later run   *)
(* meets the remains of an earlier one (release.go:99-139).                   *)
VersionStaysReserved ==
    \A r \in Runs : Named(r) # {} \/ Pending(r) => tag = source[r]

(* Ambiguous results are never reconciled (release.go:64-66): a request that  *)
(* may have been done is not done again, and no run leaves two releases.      *)
OneReleasePerRun == \A r \in Runs : Cardinality(Named(r)) <= 1

(* Whatever is published and immutable, also by a run that failed after its   *)
(* last request, carries the binding of the run that owns the tag and has     *)
(* pushed its image (release.go:316-347).                                     *)
PublishedIsBound ==
    \A i \in Ids : Exists(i) /\ releases[i].immutable =>
        \E r \in Runs : /\ releases[i].body = <<r, "bound">>
                        /\ tag = source[r] /\ Past(r, "push")
===============================================================================
