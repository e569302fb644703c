----------------------------- MODULE MCServices -----------------------------
(***************************************************************************)
(* The services that share no state, side by side, each explored on its    *)
(* own: part names the one whose requests run, and never changes.          *)
(***************************************************************************)
EXTENDS LoginGuard, SocialLogin, Startup, PluginRegistry,
        DockerSources, DockerStreams, DockerImages, DockerHost,
        Roles, Notifier, Pictures, Uploads, TaskResults, TLC

CONSTANTS a1, a2, a3, o1, o2, p1, p2, m1, s1, s2, b1, b2, n1, n2, mc, vol

VARIABLE part

MCSource == s1 :> "github" @@ s2 :> "github"
MCLists == {<<b1>>, <<b1, b1>>}
MCMail == s1 :> m1 @@ s2 :> None

\* No service has both a's and p's or n's: a swap of two a's swaps those too.
Swap(x, y) == x :> y @@ y :> x
With(p) ==
  IF Cardinality({x \in {a1, a2, a3} : p[x] = x}) = 1 THEN Swap(p1, p2) @@ Swap(n1, n2)
  ELSE p1 :> p1 @@ p2 :> p2 @@ n1 :> n1 @@ n2 :> n2
Sym == {p @@ q @@ With(p) : p \in Permutations({a1, a2, a3}), q \in Permutations({o1, o2})}

Only(p, it) == part = p \/ it

\* An administrator, and a member of staff with an enabled role or no row yet.
Staff == [here |-> TRUE, super |-> FALSE, staff |-> TRUE, active |-> TRUE]
FewRights ==
  /\ role = n1 :> (IF part = "roles" THEN "on" ELSE "none") @@ n2 :> "none"
  /\ account \in {b1 :> [Staff EXCEPT !.super = TRUE] @@ b2 :> a : a \in {Staff, Never}}
  /\ links = IF account[b2] = Staff THEN {<<b2, n1>>} ELSE {}

Parts == {"guard", "social", "start", "plugin", "sources", "streams", "images", "host",
          "roles", "notify", "pictures", "uploads", "results"}

\* A service that does not run has one initial state, whichever it is.
ServicesInit ==
  /\ part \in Parts
  /\ GuardInit /\ Only("guard", ~mirrored) /\ password = 1
  /\ SocialInit
  /\ StartInit
  /\ PluginInit /\ Only("plugin", dirs = {})
  /\ SourceInit /\ Only("sources", saved = NoRow)
  /\ StreamInit /\ Only("streams", written = 0 /\ ~endsOpen /\ stats = {}
                                     /\ \A s \in Sockets : tail[s] = 0)
  /\ ImageInit /\ Only("images", stored = {})
  /\ exists = Items
  /\ HostInit /\ \A b \in Boxes :
       /\ Only("host", ~IsThere(b))
       /\ IsThere(b) => /\ box[b].name = (IF b = b1 THEN n1 ELSE n2)
                        /\ box[b].uses = (IF b = b1 THEN Items ELSE {})
  /\ FewRights /\ RolesInit /\ Only("roles", account[b2] = Never)
  /\ NotifyInit /\ channel[b1] \in {NoChannel, [url |-> n1, on |-> TRUE]}
  /\ Only("notify", channel[b1] = NoChannel)
  /\ PictureInit /\ Only("pictures", kind = "cover" /\ column = NoUser)
  /\ UploadInit
  /\ ResultInit

Run(p, next) ==
  /\ part = p /\ next /\ UNCHANGED part
  /\ p # "guard" => UNCHANGED guardVars
  /\ p # "social" => UNCHANGED socialVars
  /\ p # "start" => UNCHANGED startVars
  /\ p # "plugin" => UNCHANGED pluginVars
  /\ p # "sources" => UNCHANGED sourceVars
  /\ p # "streams" => UNCHANGED streamVars
  /\ p # "images" => UNCHANGED imageVars
  /\ p # "host" => UNCHANGED hostVars
  /\ p # "roles" => UNCHANGED roleVars
  /\ p # "notify" => UNCHANGED notifyVars
  /\ p # "pictures" => UNCHANGED pictureVars
  /\ p # "uploads" => UNCHANGED uploadVars
  /\ p # "results" => UNCHANGED resultVars

\* A listing changes nothing: two of them need not be made at once.
OneListing == Cardinality({c \in Clients : asked'[c].step = "look"}) <= 1

\* After an overlap RegistryFollows promises nothing and InstallsShielded does
\* not look at the workers that start: they rest.
ServicesNext ==
  \/ Run("guard", GuardNext)
  \/ Run("social", SocialNext)
  \/ Run("start", StartNext)
  \/ Run("plugin", PluginNext /\ (raced => UNCHANGED boot))
  \/ Run("sources", SourceNext)
  \/ Run("streams", StreamNext)
  \/ Run("images", ImageNext)
  \/ Run("host", HostNext /\ OneListing)
  \/ Run("roles", RolesNext)
  \/ Run("notify", NotifyNext)
  \/ Run("pictures", PictureNext)
  \/ Run("uploads", UploadNext)
  \/ Run("results", ResultNext)

servicesVars == <<part, guardVars, socialVars, startVars, pluginVars, sourceVars, streamVars,
  imageVars, hostVars, roleVars, notifyVars, pictureVars, uploadVars, resultVars>>

ServicesSpec == ServicesInit /\ [][ServicesNext]_servicesVars

\* The types of the service that runs (the others keep their initial state).
ServicesTypeOK ==
  /\ part = "guard" => GuardTypeOK
  /\ part = "social" => SocialTypeOK
  /\ part = "start" => StartTypeOK
  /\ part = "plugin" => PluginTypeOK
  /\ part = "sources" => SourceTypeOK
  /\ part = "streams" => StreamTypeOK
  /\ part = "images" => ImageTypeOK
  /\ part = "host" => HostTypeOK
  /\ part = "roles" => RolesTypeOK
  /\ part = "notify" => NotifyTypeOK
  /\ part = "pictures" => PictureTypeOK
  /\ part = "uploads" => UploadTypeOK
  /\ part = "results" => ResultTypeOK

\* What is on record of a message, a picture, a file and a task is what became of
\* it, up to the failures and overlaps that each of the four names.
OutcomesKept == NotifiedAsLogged /\ PicturesKept /\ UploadsKept /\ ResultsKept

\* Neither a captcha code nor an OAuth2 state serves a request that arrives
\* after the first one used it up.
SpentOnce == [][CodeSpent /\ StateSpent]_<<guardVars, socialVars>>

=============================================================================
