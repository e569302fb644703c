---------------------------- MODULE DockerImages ----------------------------
(***************************************************************************)
(* Images of the Docker daemon as requests see them: api/v1/images.py and  *)
(* the image operations and create_container of docker_service.py.  Every  *)
(* call of the client or of the command line is one step; between two      *)
(* calls of one request the other requests, in other workers or in the     *)
(* executor of the same one, make theirs.                                  *)
(***************************************************************************)
EXTENDS Integers, FiniteSets

CONSTANTS
  Images,    \* images; their order is that of their creation dates
  Tags,      \* names with a tag
  Pullers,   \* requests, one each
  NoImage    \* no image

ASSUME DockerImagesAssumption == Images \subseteq Nat /\ NoImage \notin Images

VARIABLES
  stored,    \* images the daemon has
  tagged,    \* tagged[t]: the image of tag t
  job,       \* job[p]: the step request p is about to take
  ref,       \* ref[p]: the image or the tag it is about
  archive,   \* archive[p]: what the uploaded file of p holds
  marks,     \* marks[p]: the tags docker load names; {}: it names the image
  answer,    \* answer[p]: the image reported, exported or used, else NoImage
  meant,     \* history: meant[p], the image an answer has to be about
  shifted    \* history: shifted[p], the daemon changed between two steps of p

imageVars == <<stored, tagged, job, ref, archive, marks, answer, meant, shifted>>

daemon == <<stored, tagged>>
Ends == {"idle", "done", "failed"}
Direct == {"list", "pull", "remove", "force", "build"}
Loading == {"load", "search"}
Saving == {"tag", "save"}
Detailing == {"inspect", "history"}
Creating == {"fetch", "create"}

ImageTypeOK ==
  /\ stored \subseteq Images
  /\ tagged \in [Tags -> stored \cup {NoImage}]
  /\ job \in [Pullers -> Ends \cup Direct \cup Loading \cup Saving \cup Detailing \cup Creating]
  /\ ref \in [Pullers -> [id : Images \cup {NoImage}, tag : Tags \cup {NoImage}]]
  /\ archive \in [Pullers -> Images \cup {NoImage}] /\ marks \in [Pullers -> SUBSET Tags]
  /\ answer \in [Pullers -> Images \cup {NoImage}]
  /\ meant \in [Pullers -> Images \cup {NoImage}] /\ shifted \in [Pullers -> BOOLEAN]

NoRef == [id |-> NoImage, tag |-> NoImage]

ImageInit ==
  /\ stored \in SUBSET Images /\ tagged \in [Tags -> stored \cup {NoImage}]
  /\ job = [p \in Pullers |-> "idle"]
  /\ ref = [p \in Pullers |-> NoRef]
  /\ archive = [p \in Pullers |-> NoImage]
  /\ marks = [p \in Pullers |-> {}]
  /\ answer = [p \in Pullers |-> NoImage] /\ meant = [p \in Pullers |-> NoImage]
  /\ shifted = [p \in Pullers |-> FALSE]

Moves(p, from, to) == job[p] = from /\ job' = [job EXCEPT ![p] = to]
Answers(p, i) == answer' = [answer EXCEPT ![p] = i]

\* What a request was given goes when it ends.
Leaves(p) ==
  /\ ref' = [ref EXCEPT ![p] = NoRef]
  /\ archive' = [archive EXCEPT ![p] = NoImage] /\ marks' = [marks EXCEPT ![p] = {}]

\* The image a reference stands for: an id, or what the tag is now.
Denoted(r) == IF r.id # NoImage THEN r.id ELSE tagged[r.tag]
Present(r) == Denoted(r) \in stored

\* Every other request in the middle of its steps sees the daemon change.
Shifts(p) ==
  shifted' = [q \in Pullers |->
                shifted[q] \/ (q # p /\ job[q] \in {"search", "save", "history"})]

-----------------------------------------------------------------------------
(* Requests.                                                                *)

\* The handlers of images.py, and of containers.py for create.
AskImage(p, step, r, i, ts) ==
  /\ Moves(p, "idle", step)
  /\ ref' = [ref EXCEPT ![p] = r]
  /\ archive' = [archive EXCEPT ![p] = i] /\ marks' = [marks EXCEPT ![p] = ts]
  /\ UNCHANGED <<daemon, answer, meant, shifted>>

\* An uploaded file is empty, or the daemon refuses what is asked.
RefuseImage(p) ==
  /\ \E step \in Direct \cup {"load", "tag", "save", "inspect", "create"} : Moves(p, step, "failed")
  /\ Leaves(p) /\ UNCHANGED <<daemon, answer, meant, shifted>>

ListImages(p) ==
  /\ Moves(p, "list", "done")
  /\ Leaves(p) /\ UNCHANGED <<daemon, answer, meant, shifted>>

\* The image of a tag that moves stays, without the tag.
Takes(p, i, ts) ==
  /\ stored' = stored \cup {i}
  /\ tagged' = [t \in Tags |-> IF t \in ts THEN i ELSE tagged[t]]
  /\ Shifts(p)

\* What the registry has under the tag is its own affair.
PullImage(p, i) ==
  /\ Moves(p, "pull", "done") /\ Takes(p, i, {ref[p].tag}) /\ Answers(p, i)
  /\ Leaves(p) /\ UNCHANGED meant

\* build_image and build_image_from_tar, in its temporary directory.
BuildImage(p) ==
  /\ Moves(p, "build", "done") /\ Takes(p, archive[p], {ref[p].tag})
  /\ Answers(p, archive[p])
  /\ Leaves(p) /\ UNCHANGED meant

\* Removal by tag takes the tag, and the image when it was its last one;
\* removal by id needs force when there is more than one tag.
RemoveImage(p, force) ==
  LET r == ref[p]
      i == Denoted(r)
      ts == {t \in Tags : tagged[t] = i}
      untag == IF r.id = NoImage THEN {r.tag} ELSE ts
  IN  /\ Moves(p, IF force THEN "force" ELSE "remove", "done")
      /\ Present(r) /\ (r.id # NoImage /\ Cardinality(ts) > 1 => force)
      /\ tagged' = [t \in Tags |-> IF t \in untag THEN NoImage ELSE tagged[t]]
      /\ stored' = IF ts \subseteq untag THEN stored \ {i} ELSE stored
      /\ Shifts(p)
      /\ Leaves(p) /\ UNCHANGED <<answer, meant>>

\* load_image, in two calls: docker load names the tags, or the id of an image
\* without one ...
DockerLoad(p) ==
  /\ Moves(p, "load", "search") /\ Takes(p, archive[p], marks[p])
  /\ meant' = [meant EXCEPT ![p] = archive[p]]
  /\ UNCHANGED <<ref, archive, marks, answer>>

\* Mutant: the image created last, whatever was loaded.
ReportedNewest(p) ==
  LET newest == {i \in stored : \A j \in stored : j <= i}
  IN  IF newest # {} THEN newest ELSE {NoImage}

\* ... and the image reported is looked for in the list of all images: one with
\* a tag that was named, else the one with the id that was named, else the one
\* created last.
Reported(p) ==
  LET byTag == {i \in stored : \E t \in marks[p] : tagged[t] = i}
      byId == IF marks[p] = {} THEN {archive[p]} \cap stored ELSE {}
      newest == {i \in stored : \A j \in stored : j <= i}
  IN  IF byTag # {} THEN byTag ELSE IF byId # {} THEN byId
      ELSE IF newest # {} THEN newest ELSE {NoImage}

SearchLoaded(p) ==
  /\ Moves(p, "search", "done")
  /\ \E i \in Reported(p) : Answers(p, i)
  /\ Leaves(p) /\ UNCHANGED <<daemon, meant, shifted>>

\* save_image: an id is exchanged for a tag of the image, if it has one and the
\* list can be read ...
FindTag(p) ==
  /\ Moves(p, "tag", "save")
  /\ meant' = [meant EXCEPT ![p] = Denoted(ref[p])]
  /\ \/ /\ ref[p].id \in stored
        /\ \E t \in {u \in Tags : tagged[u] = ref[p].id} :
             ref' = [ref EXCEPT ![p] = [id |-> NoImage, tag |-> t]]
     \/ UNCHANGED ref
  /\ UNCHANGED <<daemon, archive, marks, answer, shifted>>

\* ... and docker save writes what that stands for now.
DockerSave(p) ==
  /\ Moves(p, "save", "done") /\ Present(ref[p]) /\ Answers(p, Denoted(ref[p]))
  /\ Leaves(p) /\ UNCHANGED <<daemon, meant, shifted>>

\* get_image_detail inspects the image; the layers come from the list of all
\* images, and are none when it is not found there any more.
InspectImage(p) ==
  /\ Moves(p, "inspect", "history") /\ Present(ref[p])
  /\ meant' = [meant EXCEPT ![p] = Denoted(ref[p])]
  /\ UNCHANGED <<daemon, ref, archive, marks, answer, shifted>>

ReadHistory(p) ==
  /\ Moves(p, "history", "done")
  /\ \/ ref[p].id \in stored /\ Answers(p, ref[p].id)
     \/ Answers(p, NoImage)
  /\ Leaves(p) /\ UNCHANGED <<daemon, meant, shifted>>

\* create_container pulls first if asked to, goes on with the local image if
\* that fails, and fails without one.
PullFirst(p, i) ==
  /\ Moves(p, "fetch", "create")
  /\ \/ Takes(p, i, {ref[p].tag})
     \/ UNCHANGED <<daemon, shifted>>
  /\ UNCHANGED <<ref, archive, marks, answer, meant>>

CreateFromImage(p) ==
  /\ Moves(p, "create", "done") /\ Present(ref[p]) /\ Answers(p, Denoted(ref[p]))
  /\ Leaves(p) /\ UNCHANGED <<daemon, meant, shifted>>

ImageNext ==
  \E p \in Pullers :
    \/ \E t \in Tags, i \in Images :
         LET byTag == [id |-> NoImage, tag |-> t]
             byId == [byTag EXCEPT !.id = i]
         IN  \/ AskImage(p, "list", ref[p], archive[p], {})
             \/ \E step \in {"pull", "fetch", "create"} : AskImage(p, step, byTag, archive[p], {})
             \/ AskImage(p, "build", byTag, i, {})
             \/ \E ts \in SUBSET Tags : AskImage(p, "load", ref[p], i, ts)
             \/ \E step \in {"remove", "force", "tag", "inspect"}, r \in {byTag, byId} :
                  AskImage(p, step, r, archive[p], {})
    \/ \E i \in Images : PullImage(p, i) \/ PullFirst(p, i)
    \/ RefuseImage(p) \/ ListImages(p) \/ BuildImage(p)
    \/ RemoveImage(p, TRUE) \/ RemoveImage(p, FALSE)
    \/ DockerLoad(p) \/ SearchLoaded(p) \/ FindTag(p) \/ DockerSave(p)
    \/ InspectImage(p) \/ ReadHistory(p) \/ CreateFromImage(p)

ImageSpec == ImageInit /\ [][ImageNext]_imageVars

-----------------------------------------------------------------------------
(* Properties.                                                              *)

\* An import reports the image it loaded, an export holds the image asked for
\* and a detail shows the layers of the image inspected or none, unless the
\* daemon changed between the calls of that request, whatever changed before.
AnswersAsMeant ==
  \A p \in Pullers : ~shifted[p] /\ job[p] = "done" /\ answer[p] # NoImage =>
    meant[p] \in {NoImage, answer[p]}

=============================================================================
