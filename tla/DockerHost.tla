----------------------------- MODULE DockerHost -----------------------------
(***************************************************************************)
(* Containers, networks, volumes and stacks of the Docker daemon as the    *)
(* requests of several workers see and change them (docker_service.py and  *)
(* api/v1/{containers,networks,volumes,stacks,system}.py).  A request      *)
(* blocks its worker; every call of the client is one step, and the other  *)
(* workers make theirs between two calls.  There is one stack.             *)
(***************************************************************************)
EXTENDS FiniteSets

CONSTANTS
  Boxes,       \* containers, by id; an id is used once
  BoxNames,    \* names of containers
  Nets,        \* networks
  Vols,        \* volumes
  Protected,   \* PROTECTED_NETWORKS and PROTECTED_VOLUMES
  InStack,     \* the containers, networks and volumes of the stack
  Clients,     \* requests, one each
  NoBox        \* no container, no name, no network or volume

ASSUME DockerHostAssumption ==
  /\ Protected \subseteq Nets \cup Vols /\ InStack \subseteq Boxes \cup Nets \cup Vols
  /\ NoBox \notin Boxes \cup BoxNames
  /\ Nets \cap Vols = {} /\ "stack" \notin Boxes
  /\ (Nets \cup Vols) \cap (Boxes \cup {"created", "exited", "running", "paused", "stack"}) = {}

VARIABLES
  box,      \* box[b]: status, name, networks and volumes of container b
  exists,   \* the networks and volumes there are
  asked,     \* asked[c]: request c: the step it is about to take, its operation, reference,
            \* network or volume and new name, the container it has inspected, and of a
            \* listing what it has still to look at, <<b, f>> for every fact f it shows
            \* of container b, and whether an inspection failed
  steady,   \* history: steady[c], facts true ever since listing c began
  ever      \* history: ever[c], facts true at some time since then

hostVars == <<box, exists, asked, steady, ever>>

Items == Nets \cup Vols
Live == {"running", "paused"}
There == {"created", "exited"} \cup Live
Box == [status : {"none", "gone"} \cup There, name : BoxNames \cup {NoBox}, uses : SUBSET Items]
ById == {"start", "stop", "restart", "pause", "unpause", "kill", "remove", "force", "rename"}
ByRef == {"connect", "disconnect"}
Listings == {"running", "all", "nets", "vols", "stack"}
Ops == ById \cup ByRef \cup Listings \cup {"detail", "unnet", "read"}

IsThere(b) == box[b].status \in There
Named(ref) == {b \in Boxes : IsThere(b) /\ ref \in {b, box[b].name}}
Found(ref) == IF Named(ref) = {} THEN NoBox ELSE CHOOSE b \in Named(ref) : TRUE

\* What an inspection says of a container: its status, the networks it has an
\* address on, which is while it is up, the volumes it mounts, its stack.
StatusShown(b) == {<<b, box[b].status>>}

NetsShown(b) ==
  IF box[b].status \in Live THEN {b} \X (box[b].uses \cap exists \cap Nets) ELSE {}

MountsShown(b) == {b} \X (box[b].uses \cap exists \cap Vols)

StackShown(b) == {b} \X {f \in {"stack"} : b \in InStack}

Facts ==
  UNION {StatusShown(b) \cup NetsShown(b) \cup MountsShown(b) \cup StackShown(b)
           : b \in {d \in Boxes : IsThere(d)}}

Idle == [step |-> "idle", op |-> "read", ref |-> NoBox, item |-> NoBox, new |-> NoBox,
         target |-> NoBox, rest |-> {}, rows |-> {}, missed |-> FALSE]

HostTypeOK ==
  /\ box \in [Boxes -> Box] /\ exists \subseteq Items
  /\ \A c \in Clients :
       /\ asked[c].step \in {"idle", "act", "look", "over"} /\ asked[c].op \in Ops
       /\ asked[c].ref \in Boxes \cup BoxNames \cup {NoBox}
       /\ asked[c].item \in Items \cup {NoBox} /\ asked[c].new \in BoxNames \cup {NoBox}
       /\ asked[c].target \in Boxes \cup {NoBox} /\ asked[c].missed \in BOOLEAN
       /\ asked[c].rest \subseteq (Boxes \cup Items \cup {"stack"}) \X (Boxes \cup {NoBox})
       /\ asked[c].rows \cup ever[c] \subseteq Boxes \X (There \cup Items \cup {"stack", "unknown"})
       /\ steady[c] \subseteq ever[c]

\* Whatever there is when the requests arrive.
HostInit ==
  /\ box \in [Boxes -> [status : {"none", "exited", "running"}, name : BoxNames \cup {NoBox},
                        uses : SUBSET Items]]
  /\ exists \in SUBSET Items
  /\ \A b \in Boxes :
       /\ box[b].name = NoBox <=> ~IsThere(b)
       /\ IF IsThere(b) THEN box[b].uses \subseteq exists ELSE box[b].uses = {}
       /\ \A d \in Boxes \ {b} : IsThere(d) => box[d].name # box[b].name
  /\ asked = [c \in Clients |-> Idle]
  /\ steady = [c \in Clients |-> {}] /\ ever = [c \in Clients |-> {}]

\* Request c, at this step of one of these operations, goes on as w.
Handles(c, ops, step, w) ==
  asked[c].step = step /\ asked[c].op \in ops /\ asked' = [asked EXCEPT ![c] = w]

\* A request arrives and makes its first call.
Asks(c, w) == Handles(c, {"read"}, "idle", w)

\* A request that is over keeps nothing.
Served == [Idle EXCEPT !.step = "over"]
Replies(c, ops, step) == Handles(c, ops, step, Served)

\* What the listings under way could see of a change.
Observed ==
  LET looking == {c \in Clients : asked'[c].step = "look"}
  IN  /\ steady' = [c \in Clients |-> IF c \in looking THEN steady[c] \cap Facts' ELSE {}]
      /\ ever' = [c \in Clients |-> IF c \in looking THEN ever[c] \cup Facts' ELSE {}]

Same == UNCHANGED <<box, exists>> /\ Observed

-----------------------------------------------------------------------------
(* Requests.                                                                *)

\* An operation whose one call fails or changes nothing (information, services
\* of the stack, docker update --restart), or DockerException in between: the
\* handler answers.
Finishes(c) ==
  /\ \E step \in {"idle", "act", "look"} : Replies(c, Ops, step)
  /\ Same

\* client.container.inspect(container_id), with which most operations begin.
Inspect(c, op, ref, i, n) ==
  /\ Named(ref) # {}
  /\ Asks(c, [Idle EXCEPT !.step = "act", !.op = op, !.ref = ref, !.item = i, !.new = n,
                          !.target = Found(ref)])
  /\ Same

\* The statuses an operation may leave a container in; none: it is refused.
After(op, s) ==
  CASE op = "start"   -> IF s = "paused" THEN {} ELSE {"running"}
    [] op = "restart" -> {"running"}
    [] op = "stop"    -> IF s \in Live THEN {"exited"} ELSE {s}
    [] op = "pause"   -> IF s = "running" THEN {"paused"} ELSE {}
    [] op = "unpause" -> IF s = "paused" THEN {"running"} ELSE {}
    [] op = "kill"    -> IF s \in Live THEN {"exited", s} ELSE {}
    [] op = "remove"  -> IF s \in Live THEN {} ELSE {"gone"}
    [] op = "force"   -> {"gone"}

Became(b, s) ==
  IF s = "gone" THEN [status |-> s, name |-> NoBox, uses |-> {}] ELSE [box[b] EXCEPT !.status = s]

\* Mutant: the reference is looked up again.
ActByRef(c) ==
  LET b == Found(asked[c].ref)
      op == asked[c].op
  IN  /\ Replies(c, ById \ {"rename"}, "act") /\ b # NoBox
      /\ op \in {"start", "restart"} => box[b].uses \subseteq exists
      /\ \E s \in After(op, box[b].status) : box' = [box EXCEPT ![b] = Became(b, s)]
      /\ UNCHANGED exists /\ Observed

\* container.start() and so on, of the container inspected, by its id.
Act(c) ==
  LET b == asked[c].target
      op == asked[c].op
  IN  /\ Replies(c, ById \ {"rename"}, "act") /\ IsThere(b)
      /\ op \in {"start", "restart"} => box[b].uses \subseteq exists
      /\ \E s \in After(op, box[b].status) : box' = [box EXCEPT ![b] = Became(b, s)]
      /\ UNCHANGED exists /\ Observed

Rename(c) ==
  LET b == asked[c].target
  IN  /\ Replies(c, {"rename"}, "act") /\ IsThere(b)
      /\ \A d \in Boxes \ {b} : box[d].name # asked[c].new
      /\ box' = [box EXCEPT ![b].name = asked[c].new]
      /\ UNCHANGED exists /\ Observed

\* network.connect(container_id) and disconnect: the reference again.
Attach(c) ==
  LET b == Found(asked[c].ref)
      i == asked[c].item
  IN  /\ Replies(c, ByRef, "act") /\ b # NoBox /\ i \in exists
      /\ box' = [box EXCEPT ![b].uses =
                   IF asked[c].op = "connect" THEN @ \cup {i} ELSE @ \ {i}]
      /\ UNCHANGED exists /\ Observed

\* create_container, once the image is there: a volume is made when it is missing.
CreateContainer(c, i, n) ==
  /\ Asks(c, Served)
  /\ i \in exists \cup Vols /\ exists' = exists \cup ({i} \cap Vols)
  /\ \A b \in Boxes : box[b].name # n
  /\ \E b \in {d \in Boxes : box[d].status = "none"} :
       box' = [box EXCEPT ![b] = [status |-> "created", name |-> n, uses |-> {i}]]
  /\ Observed

-----------------------------------------------------------------------------
(* Networks, volumes and the stack.                                         *)

CreateItem(c, i) ==
  /\ Asks(c, Served) /\ exists' = exists \cup {i}
  /\ UNCHANGED box /\ Observed

\* remove_network looks for a protected one, by name or short id, in a listing of
\* the networks; it goes on when that fails or does not have the reference.
CheckNetwork(c, i, failed) ==
  /\ i \in exists \cap Protected => failed
  /\ Asks(c, [Idle EXCEPT !.step = "act", !.op = "unnet", !.item = i])
  /\ Same

\* The daemon refuses a network that a container up is on, and a volume that
\* any container mounts.
InUse(i) == \E b \in Boxes : i \in box[b].uses /\ (i \in Vols \/ box[b].status \in Live)

Drop(i) ==
  /\ i \in exists /\ ~InUse(i) /\ exists' = exists \ {i}
  /\ UNCHANGED box /\ Observed

RemoveNetwork(c) == Replies(c, {"unnet"}, "act") /\ Drop(asked[c].item)

\* A protected volume is known by its name.
RemoveVolume(c, i) == i \notin Protected /\ Asks(c, Served) /\ Drop(i)

\* docker compose up: what is missing is made, and the containers are started.
DeployStack(c) ==
  LET new == {b \in InStack \cap Boxes : box[b].status = "none"}
  IN  /\ Asks(c, Served)
      /\ exists' = exists \cup (InStack \cap Items)
      /\ \E name \in [new -> BoxNames \ {box[b].name : b \in Boxes}] :
           /\ \A b, d \in new : b # d => name[b] # name[d]
           /\ box' = [b \in Boxes |->
                IF b \in new
                THEN [status |-> "running", name |-> name[b], uses |-> InStack \cap Items]
                ELSE IF b \in InStack /\ IsThere(b) THEN Became(b, "running") ELSE box[b]]
      /\ Observed

\* docker compose stop, down, and down with the volumes.
StopStack(c) ==
  /\ Asks(c, Served)
  /\ box' = [b \in Boxes |->
       IF b \in InStack /\ box[b].status \in Live THEN Became(b, "exited") ELSE box[b]]
  /\ UNCHANGED exists /\ Observed

RemoveStack(c, volumes) ==
  LET free == {i \in InStack \cap Items : \A b \in Boxes \ InStack : i \notin box[b].uses}
  IN  /\ Asks(c, Served)
      /\ box' = [b \in Boxes |-> IF b \in InStack /\ IsThere(b) THEN Became(b, "gone") ELSE box[b]]
      /\ exists' = exists \ (IF volumes THEN free ELSE free \cap Nets)
      /\ Observed

\* A container ends by itself.
Exits(b) ==
  /\ box[b].status = "running" /\ box' = [box EXCEPT ![b].status = "exited"]
  /\ UNCHANGED <<exists, asked>> /\ Observed

\* Somebody renames it on the command line of the host.
Renamed(b, n) ==
  /\ IsThere(b) /\ \A d \in Boxes : box[d].name # n
  /\ box' = [box EXCEPT ![b].name = n]
  /\ UNCHANGED <<exists, asked>> /\ Observed

-----------------------------------------------------------------------------
(* Listings: what there is, then one look at each.                          *)

\* Mutant: the list of all containers leaves out those that do not run.
ListedForLive(op) ==
  CASE op \in {"running", "all"} -> {b \in Boxes : box[b].status \in Live}
    [] op = "nets"  -> exists \cap Nets
    [] op = "vols"  -> exists \cap Vols
    [] op = "stack" -> {}

ListedFor(op) ==
  CASE op = "running" -> {b \in Boxes : box[b].status \in Live}
    [] op = "all"     -> {b \in Boxes : IsThere(b)}
    [] op = "nets"    -> exists \cap Nets
    [] op = "vols"    -> exists \cap Vols
    [] op = "stack"   -> IF \E b \in InStack \cap Boxes : box[b].status \in Live THEN {"stack"} ELSE {}

\* Request c has the rest to look at, and these rows so far.
Begins(c, op, rest, rows) ==
  /\ Asks(c, [Idle EXCEPT !.step = "look", !.op = op, !.rest = rest, !.rows = rows])
  /\ steady' = [steady EXCEPT ![c] = Facts] /\ ever' = [ever EXCEPT ![c] = Facts]
  /\ UNCHANGED <<box, exists>>

List(c, op) == Begins(c, op, ListedFor(op) \X {NoBox}, {})

\* get_container: all there is to say of the one the reference stands for.
ReadDetail(c, ref) ==
  Named(ref) # {} /\ Begins(c, "detail", {}, {r \in Facts : r[1] = Found(ref)})

\* The row of a container has the address of the first network with one.
AddressShown(b) == IF NetsShown(b) = {} THEN {} ELSE {CHOOSE r \in NetsShown(b) : TRUE}

\* What a row shows: of a container, or who is on the network or of the stack.
Row(x) ==
  IF x \in Boxes THEN StatusShown(x) \cup AddressShown(x) \cup StackShown(x)
  ELSE {r \in Facts : r[2] = x}

\* Request c is done with this of the rest, and has these more and these rows.
Looks(c, it, more, rows) ==
  /\ it \in asked[c].rest
  /\ Handles(c, Listings, "look",
       [asked[c] EXCEPT !.rest = (@ \ {it}) \cup more, !.rows = @ \cup rows])
  /\ Same

Look(c, x) ==
  /\ x \notin Vols /\ (x \in Boxes => IsThere(x))
  /\ Looks(c, <<x, NoBox>>, {}, Row(x))

\* For a volume all containers are listed once more and inspected one by one;
\* one that is gone by then is passed over.
LookVolume(c, i) == i \in Vols /\ Looks(c, <<i, NoBox>>, {i} \X {b \in Boxes : IsThere(b)}, {})

LookUser(c, i, b) == Looks(c, <<i, b>>, {}, {r \in Facts : r = <<b, i>>})

\* An inspection fails: the row stays without what it would have said.
LookFails(c, x, b) ==
  /\ <<x, b>> \in asked[c].rest
  /\ Handles(c, Listings, "look",
       [asked[c] EXCEPT !.rest = @ \ {<<x, b>>}, !.missed = TRUE,
                        !.rows = IF x \in Boxes THEN @ \cup {<<x, "unknown">>} ELSE @])
  /\ Same

Show(c) == asked[c].rest = {} /\ Replies(c, Ops, "look") /\ Same

HostNext ==
  \/ \E b \in Boxes : Exits(b) \/ \E n \in BoxNames : Renamed(b, n)
  \/ \E c \in Clients :
       \/ \E ref \in Boxes \cup BoxNames :
            \/ \E op \in ById \ {"rename"} : Inspect(c, op, ref, NoBox, NoBox)
            \/ \E n \in BoxNames : Inspect(c, "rename", ref, NoBox, n)
            \/ \E op \in ByRef, i \in Nets : Inspect(c, op, ref, i, NoBox)
            \/ ReadDetail(c, ref)
       \/ Finishes(c) \/ Act(c) \/ Rename(c) \/ Attach(c)
       \/ \E i \in Items : CreateItem(c, i) \/ \E n \in BoxNames : CreateContainer(c, i, n)
       \/ \E i \in Nets, failed \in BOOLEAN : CheckNetwork(c, i, failed)
       \/ RemoveNetwork(c) \/ \E i \in Vols : RemoveVolume(c, i)
       \/ DeployStack(c) \/ StopStack(c) \/ \E volumes \in BOOLEAN : RemoveStack(c, volumes)
       \/ \E op \in Listings : List(c, op)
       \/ \E x \in Boxes \cup Items \cup {"stack"} :
            Look(c, x) \/ LookVolume(c, x) \/ \E b \in Boxes \cup {NoBox} : LookFails(c, x, b)
       \/ \E i \in Vols, b \in Boxes : LookUser(c, i, b)
       \/ Show(c)

HostSpec == HostInit /\ [][HostNext]_hostVars

-----------------------------------------------------------------------------
(* Properties.                                                              *)

\* What a listing of this kind is complete about.
Scope(op) ==
  CASE op = "running" -> Live
    [] op = "all"     -> There \cup {"stack"}
    [] op = "nets"    -> Nets
    [] op = "vols"    -> Vols
    [] OTHER          -> {}

\* A listing that is ready, without a failed inspection, shows nothing that was
\* not true at some time while it was made, and everything of its kind that was
\* true all the while, whatever is started, stopped, renamed, removed or
\* created between its calls.
ListingsAreOfTheTime ==
  \A c \in Clients : asked[c].step = "look" /\ asked[c].rest = {} /\ ~asked[c].missed =>
    /\ asked[c].rows \subseteq ever[c]
    /\ \A r \in steady[c] : r[2] \in Scope(asked[c].op) => r \in asked[c].rows

\* An operation on a container changes the one its reference stood for when it
\* was looked up and no other, although names move meanwhile; only connect and
\* disconnect look the name up again.
ActsOnInspected ==
  [][\A c \in Clients : asked[c].op \in ById /\ asked'[c].step = "over" /\ asked[c].step = "act" =>
       \A b \in Boxes \ {asked[c].target} : box'[b] = box[b]]_hostVars

=============================================================================
