------------------------------ MODULE MCServices ------------------------------
(***************************************************************************)
(* Components that share no state with one another, checked in one run: a  *)
(* behaviour exercises the component it has chosen at its start, and the   *)
(* others stay in their initial states.                                    *)
(***************************************************************************)
EXTENDS ProgressTracker, RequestWindow, RedisSlots, WebhookDispatch, BundleAggregation,
        ApplyRetry, GithubStars, TokenRotation, RssDelivery, ImportJob, CollectionSharing,
        ChannelDigest

VARIABLE component

Listening == {<<1, 1>>, <<2, 1>>, <<3, 1>>, <<1, 2>>}
Sources == <<1, 2, 1>>
BookmarkFile(j) == <<1, 1>>
OnlyJob(t) == 1
Namesakes == [c \in Channels |-> 7]

Components == {"tracker", "window", "slots", "dispatch", "bundle", "retry", "stars",
               "ingestion", "rotation", "rss", "import", "sharing", "digest"}

ServicesInit ==
  /\ component \in Components
  /\ TrackerInit /\ WindowInit /\ SlotsInit /\ DispatchInit /\ BundleInit /\ RetryInit
  /\ StarsInit /\ RotationInit /\ RssInit /\ ImportInit /\ SharingInit /\ DigestInit
  /\ component # "rss" => subscribed = {} /\ errors = 0
  /\ \A c \in Flaky : channelErrors[c] = IF component = "digest" THEN MaxChannelErrors - 1 ELSE 0

Acts(c, next, variables) == IF component = c THEN next ELSE UNCHANGED variables

ServicesNext ==
  /\ UNCHANGED component
  /\ Acts("tracker", TrackerNext, trackerVars)
  /\ Acts("window", WindowNext, windowVars)
  /\ Acts("slots", SlotsNext, slotsVars)
  /\ Acts("dispatch", DispatchNext, dispatchVars)
  /\ Acts("bundle", BundleNext, bundleVars)
  /\ Acts("retry", RetryNext, retryVars)
  /\ CASE component = "stars" -> SyncNext \/ Revoke
       [] component = "ingestion" -> SyncNext \/ ByHandNext
       [] OTHER -> UNCHANGED starsVars
  /\ Acts("rotation", RotationNext, rotationVars)
  /\ Acts("rss", RssNext, rssVars)
  /\ Acts("import", ImportNext, importVars)
  /\ Acts("sharing", SharingNext, sharingVars)
  /\ Acts("digest", DigestNext, digestVars)

ServicesSpec ==
  /\ ServicesInit
  /\ [][ServicesNext]_<<component, trackerVars, windowVars, slotsVars, dispatchVars, bundleVars,
                        retryVars, starsVars, rotationVars, rssVars, importVars, sharingVars,
                        digestVars>>

\* The variables of the component that moves keep their types, and its counters their bounds.
ServicesTypeOK ==
  CASE component = "tracker" -> TrackerTypeOK [] component = "window" -> WindowTypeOK
    [] component = "slots" -> SlotsTypeOK [] component = "dispatch" -> DispatchTypeOK
    [] component = "bundle" -> BundleTypeOK [] component = "retry" -> RetryTypeOK
    [] component \in {"stars", "ingestion"} -> StarsTypeOK [] component = "rotation" -> RotationTypeOK
    [] component = "rss" -> RssTypeOK [] component = "import" -> ImportTypeOK
    [] component = "sharing" -> SharingTypeOK [] component = "digest" -> DigestTypeOK

\* Both limiters of a user's messages.
LimitsHold == WindowIsSafe /\ SlotsAreSafe

\* What a run over many items reports, a bundle's session and an import's job, is what it did.
ReportsAreTrue == SessionIsTrue /\ JobIsTrue

\* What is sent to a user, of a feed and of a digest, is sent once and is recorded as it was.
DeliveriesAreTrue == DeliveryIsTrue /\ DigestIsTrue
=============================================================================
