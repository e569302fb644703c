--------------------------- MODULE ServicesProofs ---------------------------
(***************************************************************************)
(* Theorems about the services side by side (MCServices): each of them     *)
(* runs as its own specification says, so that what is proved of it alone  *)
(* holds of all of them together.                                          *)
(***************************************************************************)
EXTENDS MCServices, AccessProofs, DockerProofs, PlatformProofs, TLAPS

-----------------------------------------------------------------------------
(* From all of the services to one.                                        *)

\* A step is one of the service that runs, and the others rest.
LEMMA StepsOfOne ==
  ASSUME [ServicesNext]_servicesVars
  PROVE  /\ [GuardNext]_guardVars
         /\ [SocialNext]_socialVars
         /\ [StartNext]_startVars
         /\ [PluginNext]_pluginVars
         /\ [SourceNext]_sourceVars
         /\ [StreamNext]_streamVars
         /\ [ImageNext]_imageVars
         /\ [HostNext]_hostVars
         /\ [RolesNext]_roleVars
         /\ [NotifyNext]_notifyVars
         /\ [PictureNext]_pictureVars
         /\ [UploadNext]_uploadVars
         /\ [ResultNext]_resultVars
<1>1. CASE UNCHANGED servicesVars BY <1>1 DEF servicesVars
<1>2. CASE ServicesNext
  <2>1. [GuardNext]_guardVars BY <1>2 DEF ServicesNext, Run
  <2>2. [SocialNext]_socialVars BY <1>2 DEF ServicesNext, Run
  <2>3. [StartNext]_startVars BY <1>2 DEF ServicesNext, Run
  <2>4. [PluginNext]_pluginVars BY <1>2 DEF ServicesNext, Run
  <2>5. [SourceNext]_sourceVars BY <1>2 DEF ServicesNext, Run
  <2>6. [StreamNext]_streamVars BY <1>2 DEF ServicesNext, Run
  <2>7. [ImageNext]_imageVars BY <1>2 DEF ServicesNext, Run
  <2>8. [HostNext]_hostVars BY <1>2 DEF ServicesNext, Run
  <2>9. [RolesNext]_roleVars BY <1>2 DEF ServicesNext, Run
  <2>10. [NotifyNext]_notifyVars BY <1>2 DEF ServicesNext, Run
  <2>11. [PictureNext]_pictureVars BY <1>2 DEF ServicesNext, Run
  <2>12. [UploadNext]_uploadVars BY <1>2 DEF ServicesNext, Run
  <2>13. [ResultNext]_resultVars BY <1>2 DEF ServicesNext, Run
  <2> QED BY <2>1, <2>2, <2>3, <2>4, <2>5, <2>6, <2>7, <2>8, <2>9, <2>10, <2>11, <2>12, <2>13
<1> QED BY <1>1, <1>2

\* MCServices implements the specification of each service: whatever is proved of
\* one of them holds of all of them side by side.
THEOREM ServicesAreThemselves ==
  ServicesSpec =>
    /\ GuardSpec
    /\ SocialSpec
    /\ StartSpec
    /\ PluginSpec
    /\ SourceSpec
    /\ StreamSpec
    /\ ImageSpec
    /\ HostSpec
    /\ RolesSpec
    /\ NotifySpec
    /\ PictureSpec
    /\ UploadSpec
    /\ ResultSpec
<1>1. ServicesInit =>
        /\ GuardInit
        /\ SocialInit
        /\ StartInit
        /\ PluginInit
        /\ SourceInit
        /\ StreamInit
        /\ ImageInit
        /\ HostInit
        /\ RolesInit
        /\ NotifyInit
        /\ PictureInit
        /\ UploadInit
        /\ ResultInit
  BY DEF ServicesInit
<1> QED BY <1>1, StepsOfOne, PTL
     DEF ServicesSpec, GuardSpec, SocialSpec, StartSpec, PluginSpec, SourceSpec,
         StreamSpec, ImageSpec, HostSpec, RolesSpec, NotifySpec, PictureSpec,
         UploadSpec, ResultSpec

-----------------------------------------------------------------------------
(* All of the services.                                                    *)

\* The state of whichever service runs keeps its types, for every instance.
THEOREM ServicesTypesHold ==
  ASSUME NoRow \notin SUBSET SourceRow PROVE ServicesSpec => []ServicesTypeOK
<1>1. StartSpec => []StartTypeOK BY StartInvHolds, PTL DEF StartInv
<1>2. SourceSpec => []SourceTypeOK BY SourceTypesHold
<1>3. /\ GuardTypeOK /\ SocialTypeOK /\ StartTypeOK /\ PluginTypeOK /\ SourceTypeOK
      /\ StreamTypeOK /\ ImageTypeOK /\ HostTypeOK /\ RolesTypeOK /\ NotifyTypeOK
      /\ PictureTypeOK /\ UploadTypeOK /\ ResultTypeOK
      => ServicesTypeOK
  BY DEF ServicesTypeOK
<1> QED BY <1>1, <1>2, <1>3, ServicesAreThemselves, GuardTypesHold, SocialTypesHold,
           PluginTypesHold, StreamTypesHold, ImageTypesHold, HostTypesHold, RolesTypesHold,
           NotifyTypesHold, PictureTypesHold, UploadTypesHold, ResultTypesHold, PTL

\* What is on record of messages (apprise_notify), pictures and uploads (file_ops.py)
\* and tasks (DatabaseBackend) is what became of them.
THEOREM OutcomesKeptHolds == ServicesSpec => []OutcomesKept
<1>1. NotifiedAsLogged /\ PicturesKept /\ UploadsKept /\ ResultsKept => OutcomesKept
  BY DEF OutcomesKept
<1> QED BY <1>1, ServicesAreThemselves, NotifiedAsLoggedHolds, PicturesKeptHolds,
           UploadsKeptHolds, ResultsKeptHolds, PTL

\* Neither a captcha code nor an OAuth2 state lets in a request that had not read it
\* before it was first used up, in any step of either service.
THEOREM SpentOnceHolds == ServicesSpec => SpentOnce
<1>1. UNCHANGED guardVars => CodeSpent BY DEF guardVars, CodeSpent
<1>2. UNCHANGED socialVars => StateSpent BY DEF socialVars, StateSpent
<1>3. [CodeSpent]_guardVars /\ [StateSpent]_socialVars =>
        [CodeSpent /\ StateSpent]_<<guardVars, socialVars>>
  BY <1>1, <1>2
<1> QED BY <1>3, ServicesAreThemselves, CodeSpentHolds, StateSpentHolds, PTL DEF SpentOnce

=============================================================================
