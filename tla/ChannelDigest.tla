---------------------------- MODULE ChannelDigest ----------------------------
(***************************************************************************)
(* Digests of Telegram channels for one user (tasks/digest.py,              *)
(* adapters/digest/, infrastructure/persistence/digest_store.py). The task  *)
(* takes a Redis key, a digest on demand takes nothing. A digest reads the  *)
(* user's active channels with their error counts, fetches every channel,   *)
(* leaves out what was delivered, has each post analysed or finds it        *)
(* analysed, filters, sends, and records what it delivered. There is one    *)
(* recent post per channel, and the channel stands for it; message ids are  *)
(* unique in a channel only.                                                *)
(***************************************************************************)
EXTENDS Naturals, FiniteSets

CONSTANTS
  Channels,          \* channels of the user, with one post each
  MessageId,         \* the post's message_id
  Flaky,             \* channels whose fetch may fail
  Verdicts,          \* what the model may find a post to be
  MaxChannelErrors,  \* max_fetch_errors
  Digests,           \* runs, numbered in the order they start
  MaxMishaps         \* bound on failed sends, failed records and deaths together

ASSUME DigestAssumption ==
  /\ IsFiniteSet(Channels) /\ MessageId \in [Channels -> Nat]
  /\ Flaky \subseteq Channels /\ Verdicts \subseteq {"worthy", "ad", "dull"}
  /\ MaxChannelErrors \in Nat \ {0} /\ Digests \subseteq Nat \ {0} /\ MaxMishaps \in Nat

VARIABLES
  run,          \* what a digest has read and done, see DigestTypeOK
  keyHolder,    \* the digest named in the Redis key, or 0
  channelErrors,\* fetch_error_count
  listened,     \* channels with is_active
  analyses,     \* the stored analyses
  delivered,    \* message ids in the delivery records
  copies,       \* history: how often the user got the post
  unrecorded,   \* history: posts of a digest that could not send or record them
  together,     \* history: posts sent by digests that read the records at the same time
  adsShown,     \* history: posts sent by the digest that found them to be ads
  outdated,     \* history: channels whose failure was judged by a count that had changed
  keyExpired,   \* history: the key has expired under its holder
  mishaps

digestVars == <<run, keyHolder, channelErrors, listened, analyses, delivered, copies, unrecorded,
                together, adsShown, outdated, keyExpired, mishaps>>

NotRun == [stage |-> "new", locked |-> FALSE, seen |-> [c \in Channels |-> 0], wanted |-> {},
           asks |-> {}, keeps |-> {}, ads |-> {}, overlapped |-> FALSE]
ErrorBound == MaxChannelErrors + Cardinality(Digests)

DigestTypeOK ==
  /\ run \in [Digests -> [stage : {"new", "list", "fetch", "analyze", "filter", "record",
                                   "release", "delete", "done"},
                          locked : BOOLEAN,
                          seen : [Channels -> 0..ErrorBound],
                          wanted : SUBSET Channels, asks : SUBSET Channels,
                          keeps : SUBSET Channels, ads : SUBSET Channels, overlapped : BOOLEAN]]
  /\ keyHolder \in Digests \cup {0}
  /\ channelErrors \in [Channels -> 0..ErrorBound]
  /\ listened \subseteq Channels /\ outdated \subseteq Channels
  /\ analyses \in [Channels -> Verdicts \cup {"none"}]
  /\ delivered \subseteq {MessageId[c] : c \in Channels}
  /\ copies \in [Channels -> 0..Cardinality(Digests)]
  /\ unrecorded \subseteq Channels /\ together \subseteq Channels /\ adsShown \subseteq Channels
  /\ keyExpired \in BOOLEAN /\ mishaps \in 0..MaxMishaps

DigestInit ==
  /\ run = [d \in Digests |-> NotRun]
  /\ keyHolder = 0
  /\ channelErrors \in [Channels -> 0..MaxChannelErrors - 1]
  /\ \A c \in Channels \ Flaky : channelErrors[c] = 0
  /\ listened = Channels
  /\ analyses = [c \in Channels |-> "none"]
  /\ delivered = {}
  /\ copies = [c \in Channels |-> 0]
  /\ unrecorded = {} /\ together = {} /\ adsShown = {} /\ outdated = {}
  /\ keyExpired = FALSE /\ mishaps = 0

Lock == <<keyHolder, keyExpired>>
ChannelRows == <<channelErrors, listened, outdated>>
Deliveries == <<delivered, copies, unrecorded, together, adsShown>>

Mishap == mishaps < MaxMishaps /\ mishaps' = mishaps + 1
NoMishap == UNCHANGED mishaps

RunOver == [NotRun EXCEPT !.stage = "done"]

\* After its last step a task still gives its key back.
Stops(d) ==
  run' = [run EXCEPT ![d] = IF @.locked THEN [NotRun EXCEPT !.stage = "release", !.locked = TRUE]
                            ELSE RunOver]

-----------------------------------------------------------------------------
(* The start: _acquire_scheduled_lock, or a command, or the API *)

Starts(d, locked) ==
  /\ run[d].stage = "new" /\ \A e \in Digests : e < d => run[e].stage # "new"
  /\ run' = [run EXCEPT ![d].stage = "list", ![d].locked = locked]
  /\ UNCHANGED <<ChannelRows, analyses, Deliveries, mishaps>>

\* SET NX; a task that is refused does nothing.
StartsLocked(d) == Starts(d, TRUE) /\ keyHolder = 0 /\ keyHolder' = d /\ UNCHANGED keyExpired

\* A task that finds no Redis, a command or the API's trigger.
StartsUnlocked(d) == Starts(d, FALSE) /\ UNCHANGED Lock

DigestKeyExpires ==
  /\ keyHolder # 0 /\ keyHolder' = 0 /\ keyExpired' = TRUE
  /\ UNCHANGED <<run, ChannelRows, analyses, Deliveries, mishaps>>

\* GET: a key of one's own is to be deleted. It may raise.
ReadsKey(d) ==
  /\ run[d].stage = "release"
  /\ \/ keyHolder = d /\ run' = [run EXCEPT ![d].stage = "delete"]
     \/ run' = [run EXCEPT ![d] = RunOver]
  /\ UNCHANGED <<Lock, ChannelRows, analyses, Deliveries, mishaps>>

\* DEL, whoever has the key by now. It may raise, with or without its effect.
DeletesKey(d) ==
  /\ run[d].stage = "delete"
  /\ run' = [run EXCEPT ![d] = RunOver]
  /\ keyHolder' \in {0, keyHolder}
  /\ UNCHANGED <<keyExpired, ChannelRows, analyses, Deliveries, mishaps>>

-----------------------------------------------------------------------------
(* Posts: ChannelReader *)

\* The active channels, with their error counts.
ListsChannels(d) ==
  /\ run[d].stage = "list"
  /\ IF listened = {} THEN Stops(d)
     ELSE run' = [run EXCEPT ![d].stage = "fetch", ![d].seen = channelErrors, ![d].asks = listened]
  /\ UNCHANGED <<Lock, ChannelRows, analyses, Deliveries, mishaps>>

\* The decision is taken from the count that was read with the list.
SwitchesOff(d, c) == run[d].seen[c] + 1 >= MaxChannelErrors

\* One channel after the other: it is fetched, or its failure is counted and may switch it
\* off, or cannot be counted, which ends the digest.
FetchesChannel(d, c) ==
  /\ run[d].stage = "fetch" /\ c \in run[d].asks
  /\ \/ /\ channelErrors' = [channelErrors EXCEPT ![c] = 0]
        /\ run' = [run EXCEPT ![d].asks = @ \ {c}, ![d].wanted = @ \cup {c}]
        /\ UNCHANGED <<listened, outdated>>
     \/ /\ c \in Flaky
        /\ channelErrors' = [channelErrors EXCEPT ![c] = @ + 1]
        /\ listened' = IF SwitchesOff(d, c) THEN listened \ {c} ELSE listened
        /\ outdated' = IF channelErrors[c] # run[d].seen[c] THEN outdated \cup {c} ELSE outdated
        /\ run' = [run EXCEPT ![d].asks = @ \ {c}]
     \/ c \in Flaky /\ Stops(d) /\ UNCHANGED ChannelRows
  /\ UNCHANGED <<Lock, analyses, Deliveries, mishaps>>

\* What another digest is about to send is not yet in a record.
Handling(e) == run[e].stage \in {"analyze", "filter", "record"}

\* Faulty variant of Unread: the records are not asked.
UnreadAll(d) == run[d].wanted

Unread(d) == {c \in run[d].wanted : MessageId[c] \notin delivered}

\* When all channels are done with, the records are read, if any channel was fetched.
ReadsDelivered(d) ==
  /\ run[d].stage = "fetch" /\ run[d].asks = {}
  /\ IF Unread(d) = {} THEN Stops(d)
     ELSE run' = [e \in Digests |->
                   IF e = d THEN [run[d] EXCEPT !.stage = "analyze", !.seen = NotRun.seen,
                                                !.wanted = Unread(d),
                                                !.overlapped = \E f \in Digests \ {d} : Handling(f)]
                   ELSE IF Handling(e) THEN [run[e] EXCEPT !.overlapped = TRUE] ELSE run[e]]
  /\ UNCHANGED <<Lock, ChannelRows, analyses, Deliveries, mishaps>>

-----------------------------------------------------------------------------
(* Analysis and filter *)

\* A stored analysis does not say whether the post is an ad: it counts as none.
FoundWorthy(verdict) == verdict \in {"worthy", "ad"}

\* The posts of a digest are looked up together.
LooksUp(d) ==
  /\ run[d].stage = "analyze"
  /\ LET found == {c \in run[d].wanted : analyses[c] # "none"}
         keeps == {c \in found : FoundWorthy(analyses[c])}
     IN run' = [run EXCEPT ![d].stage = "filter", ![d].wanted = {}, ![d].keeps = keeps,
                           ![d].asks = run[d].wanted \ found]
  /\ UNCHANGED <<Lock, ChannelRows, analyses, Deliveries, mishaps>>

\* Not an ad, not an announcement, and relevant.
Worth(verdict) == verdict = "worthy"

\* The model has answered and the analysis is stored if none is; or the answer is unusable.
Analyzes(d, c) ==
  /\ run[d].stage = "filter" /\ c \in run[d].asks
  /\ \/ \E verdict \in Verdicts :
          /\ analyses' = IF analyses[c] = "none" THEN [analyses EXCEPT ![c] = verdict] ELSE analyses
          /\ run' = [run EXCEPT ![d].asks = @ \ {c},
                                ![d].ads = IF verdict = "ad" THEN @ \cup {c} ELSE @,
                                ![d].keeps = IF Worth(verdict) THEN @ \cup {c} ELSE @]
     \/ run' = [run EXCEPT ![d].asks = @ \ {c}] /\ UNCHANGED analyses
  /\ UNCHANGED <<Lock, ChannelRows, Deliveries, mishaps>>

-----------------------------------------------------------------------------
(* Delivery *)

\* All answers are in. Of posts on one topic one is sent; a message that cannot be sent is
\* left out.
Sends(d) ==
  /\ run[d].stage = "filter" /\ run[d].asks = {} /\ run[d].keeps # {}
  /\ \E keeps \in SUBSET run[d].keeps \ {{}} : \E failed \in SUBSET keeps :
       LET arrive == keeps \ failed
       IN /\ IF failed = {} THEN NoMishap ELSE Mishap
          /\ copies' = [c \in Channels |-> IF c \in arrive THEN copies[c] + 1 ELSE copies[c]]
          /\ unrecorded' = unrecorded \cup failed
          /\ together' = IF run[d].overlapped THEN together \cup arrive ELSE together
          /\ adsShown' = adsShown \cup (arrive \cap run[d].ads)
          /\ run' = [run EXCEPT ![d].stage = "record", ![d].keeps = keeps, ![d].ads = {}]
  /\ UNCHANGED <<Lock, ChannelRows, analyses, delivered>>

HasNothingToSend(d) ==
  /\ run[d].stage = "filter" /\ run[d].asks = {} /\ run[d].keeps = {}
  /\ Stops(d)
  /\ UNCHANGED <<Lock, ChannelRows, analyses, Deliveries, mishaps>>

RecordsDelivery(d) ==
  /\ run[d].stage = "record"
  /\ \/ /\ delivered' = delivered \cup {MessageId[c] : c \in run[d].keeps}
        /\ UNCHANGED unrecorded /\ NoMishap
     \/ /\ unrecorded' = unrecorded \cup run[d].keeps /\ Mishap
        /\ UNCHANGED delivered
  /\ Stops(d)
  /\ UNCHANGED <<Lock, ChannelRows, analyses, copies, together, adsShown>>

\* A process ends in the middle of a digest; its key stays until it expires.
DigestDies(d) ==
  /\ run[d].stage \notin {"new", "done"} /\ Mishap
  /\ run' = [run EXCEPT ![d] = RunOver]
  /\ unrecorded' = IF run[d].stage = "record" THEN unrecorded \cup run[d].keeps ELSE unrecorded
  /\ UNCHANGED <<Lock, ChannelRows, analyses, delivered, copies, together, adsShown>>

DigestGoesOn(d) ==
  \/ ListsChannels(d) \/ ReadsDelivered(d) \/ LooksUp(d)
  \/ \E c \in Channels : FetchesChannel(d, c) \/ Analyzes(d, c)
  \/ Sends(d) \/ HasNothingToSend(d) \/ RecordsDelivery(d)
  \/ ReadsKey(d) \/ DeletesKey(d)

DigestsAtRest == (\A d \in Digests : run[d].stage \in {"new", "done"}) /\ UNCHANGED digestVars

DigestNext ==
  \/ \E d \in Digests : StartsLocked(d) \/ StartsUnlocked(d)
                        \/ DigestGoesOn(d) \/ DigestDies(d)
  \/ DigestKeyExpires
  \/ DigestsAtRest

DigestSpec == DigestInit /\ [][DigestNext]_digestVars
-----------------------------------------------------------------------------
(* Properties *)

\* A user gets a post twice only if an earlier delivery of it was not recorded, or if two
\* digests read the records at the same time; which two tasks that found Redis never do
\* before the key expires.
OncePerUser ==
  /\ \A c \in Channels : copies[c] > 1 => c \in unrecorded \cup together
  /\ \A d, e \in Digests :
       d # e /\ {run[d].locked, run[e].locked} = {TRUE} =>
         keyExpired \/ ~(Handling(d) /\ Handling(e))

\* No digest sends what it has itself found to be an ad.
OwnAdsAreLeftOut == adsShown = {}

\* A channel is off once it has failed often enough in a row, unless the count had changed
\* since the digest read it.
FailingIsOff ==
  \A c \in Channels \ outdated : c \in listened => channelErrors[c] < MaxChannelErrors

DigestIsTrue == OncePerUser /\ OwnAdsAreLeftOut /\ FailingIsOff
=============================================================================
